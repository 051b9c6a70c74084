--------------------------- MODULE ProtocolProofs ---------------------------
(***************************************************************************)
(* Proofs about the parts of the protocol that work on sequences of bytes  *)
(* and characters, for sequences of any length.                            *)
(*                                                                         *)
(* Facts about the loops and scans of these modules need an induction.     *)
(* The set of numbers for which a fact fails has a least element, by the   *)
(* well-foundedness of the natural numbers; Induct states this for a set   *)
(* of numbers.  The lemmas named ...Def show by such an induction that a   *)
(* function of the model is what its recursive definition says.            *)
(***************************************************************************)
EXTENDS Framing, WorkingFiles, Uris, SequenceTheorems, WellFoundedInduction, TLAPS

LEMMA LeastNat ==
  ASSUME NEW T \in SUBSET Nat, T # {}
  PROVE  \E x \in T : \A y \in T : x <= y
<1> DEFINE R == OpToRel(<, Nat)
<1>1. IsWellFoundedOn(R, Nat)
  BY NatLessThanWellFounded
<1>2. PICK x \in T : \A y \in T : ~(<<y, x>> \in R)
  <2> HIDE DEF R
  <2> QED
    BY <1>1, WFMin
<1>3. \A y \in T : ~(y < x)
  BY <1>2 DEF OpToRel
<1> QED
  BY <1>3

\* Induction up to N.
LEMMA Induct ==
  ASSUME NEW N \in Nat, NEW G, 0 \in G,
         \A i \in 0..(N - 1) : i \in G => (i + 1) \in G
  PROVE  \A i \in 0..N : i \in G
<1> DEFINE T == (0..N) \ G
<1> SUFFICES ASSUME T # {}
             PROVE  FALSE
  OBVIOUS
<1>1. PICK x \in T : \A y \in T : x <= y
  <2>1. T \in SUBSET Nat
    OBVIOUS
  <2> HIDE DEF T
  <2> QED
    BY <2>1, LeastNat
<1>2. x # 0 /\ x \in 1..N /\ x - 1 \in 0..(N - 1)
  BY <1>1
<1>3. x - 1 \in G
  BY <1>1, <1>2
<1> QED
  BY <1>1, <1>2, <1>3

LEMMA Joined ==
  ASSUME NEW S, NEW s \in Seq(S), NEW t \in Seq(S)
  PROVE  /\ s \o t \in Seq(S)
         /\ Len(s) \in Nat /\ Len(t) \in Nat
         /\ Len(s \o t) = Len(s) + Len(t)
         /\ \A k \in 1..Len(s) : (s \o t)[k] = s[k]
         /\ \A k \in 1..Len(t) : (s \o t)[Len(s) + k] = t[k]
OBVIOUS

-----------------------------------------------------------------------------
(***************************************************************************)
(* The bytes of a text.                                                    *)
(***************************************************************************)
Octets == {"a", "n", "lead2", "lead4", "cont"}

LEMMA CharBytes ==
  ASSUME NEW c \in Characters
  PROVE  EncodeChar(c) \in Seq(Octets)
<1>1. CASE c = "e"
  <2>1. <<"lead2", "cont">> \in Seq(Octets)
    BY DEF Octets
  <2> QED
    BY <1>1, <2>1 DEF EncodeChar
<1>2. CASE c = "g"
  <2>1. <<"lead4", "cont", "cont", "cont">> \in Seq(Octets)
    BY DEF Octets
  <2> QED
    BY <1>2, <2>1 DEF EncodeChar
<1>3. CASE c \in {"a", "n"}
  <2>1. <<c>> \in Seq(Octets)
    BY <1>3 DEF Octets
  <2> QED
    BY <1>3, <2>1 DEF EncodeChar
<1> QED
  BY <1>1, <1>2, <1>3 DEF Characters

LEMMA EncodedDef ==
  ASSUME NEW text \in Seq(Characters)
  PROVE  /\ DOMAIN Encoded(text) = 0..Len(text)
         /\ Encoded(text)[0] = <<>>
         /\ \A i \in 1..Len(text) :
              Encoded(text)[i] = Encoded(text)[i - 1] \o EncodeChar(text[i])
<1> DEFINE N == Len(text)
           Base == <<>>
           Next(i, v) == v \o EncodeChar(text[i])
           Solves(f, n) == f = [i \in 0..n |-> IF i = 0 THEN Base ELSE Next(i, f[i - 1])]
           X == Encoded(text)
           G == {n \in 0..N : \E f : Solves(f, n)}
<1>1. N \in Nat
  OBVIOUS
<1>2. X = CHOOSE f : Solves(f, N)
  BY DEF Encoded
<1> HIDE DEF N, Base, Next, X
<1>3. 0 \in G
  <2>1. Solves([i \in 0..0 |-> Base], 0)
    OBVIOUS
  <2> HIDE DEF Solves
  <2> QED
    BY <1>1, <2>1
<1>4. ASSUME NEW n \in 0..(N - 1), n \in G
      PROVE  n + 1 \in G
  <2>1. PICK f : Solves(f, n)
    BY <1>4
  <2> DEFINE g == [i \in 0..(n + 1) |-> IF i = n + 1 THEN Next(n + 1, f[n]) ELSE f[i]]
  <2>2. \A i \in 0..(n + 1) : g[i] = IF i = 0 THEN Base ELSE Next(i, g[i - 1])
    <3> SUFFICES ASSUME NEW i \in 0..(n + 1)
                 PROVE  g[i] = IF i = 0 THEN Base ELSE Next(i, g[i - 1])
      OBVIOUS
    <3>1. CASE i = 0
      BY <2>1, <3>1
    <3>2. CASE i \in 1..n
      <4>1. g[i] = f[i] /\ g[i - 1] = f[i - 1]
        BY <3>2
      <4> QED
        BY <2>1, <3>2, <4>1
    <3>3. CASE i = n + 1
      <4>1. g[i] = Next(n + 1, f[n]) /\ i - 1 = n /\ g[n] = f[n]
        BY <3>3
      <4> QED
        BY <3>3, <4>1
    <3> QED
      BY <3>1, <3>2, <3>3
  <2>3. Solves(g, n + 1)
    BY <2>2
  <2> HIDE DEF g, Solves
  <2> QED
    BY <1>1, <2>3
<1>5. \E f : Solves(f, N)
  <2>1. \A n \in 0..N : n \in G
    <3> HIDE DEF G
    <3> QED
      BY <1>1, <1>3, <1>4, Induct
  <2> QED
    BY <1>1, <2>1
<1>6. Solves(X, N)
  <2> HIDE DEF Solves
  <2> QED
    BY <1>2, <1>5
<1>7. DOMAIN X = 0..N /\ X[0] = Base /\ \A i \in 1..N : X[i] = Next(i, X[i - 1])
  BY <1>1, <1>6
<1> QED
  BY <1>7 DEF N, Base, Next, X

LEMMA LineStartsDef ==
  ASSUME NEW content \in Seq(Octets)
  PROVE  /\ DOMAIN LineStarts(content) = 0..Len(content)
         /\ LineStarts(content)[0] = <<0>>
         /\ \A i \in 1..Len(content) :
              LineStarts(content)[i] = IF content[i] = "n" THEN Append(LineStarts(content)[i - 1], i) ELSE LineStarts(content)[i - 1]
<1> DEFINE N == Len(content)
           Base == <<0>>
           Next(i, v) == IF content[i] = "n" THEN Append(v, i) ELSE v
           Solves(f, n) == f = [i \in 0..n |-> IF i = 0 THEN Base ELSE Next(i, f[i - 1])]
           X == LineStarts(content)
           G == {n \in 0..N : \E f : Solves(f, n)}
<1>1. N \in Nat
  OBVIOUS
<1>2. X = CHOOSE f : Solves(f, N)
  BY DEF LineStarts
<1> HIDE DEF N, Base, Next, X
<1>3. 0 \in G
  <2>1. Solves([i \in 0..0 |-> Base], 0)
    OBVIOUS
  <2> HIDE DEF Solves
  <2> QED
    BY <1>1, <2>1
<1>4. ASSUME NEW n \in 0..(N - 1), n \in G
      PROVE  n + 1 \in G
  <2>1. PICK f : Solves(f, n)
    BY <1>4
  <2> DEFINE g == [i \in 0..(n + 1) |-> IF i = n + 1 THEN Next(n + 1, f[n]) ELSE f[i]]
  <2>2. \A i \in 0..(n + 1) : g[i] = IF i = 0 THEN Base ELSE Next(i, g[i - 1])
    <3> SUFFICES ASSUME NEW i \in 0..(n + 1)
                 PROVE  g[i] = IF i = 0 THEN Base ELSE Next(i, g[i - 1])
      OBVIOUS
    <3>1. CASE i = 0
      BY <2>1, <3>1
    <3>2. CASE i \in 1..n
      <4>1. g[i] = f[i] /\ g[i - 1] = f[i - 1]
        BY <3>2
      <4> QED
        BY <2>1, <3>2, <4>1
    <3>3. CASE i = n + 1
      <4>1. g[i] = Next(n + 1, f[n]) /\ i - 1 = n /\ g[n] = f[n]
        BY <3>3
      <4> QED
        BY <3>3, <4>1
    <3> QED
      BY <3>1, <3>2, <3>3
  <2>3. Solves(g, n + 1)
    BY <2>2
  <2> HIDE DEF g, Solves
  <2> QED
    BY <1>1, <2>3
<1>5. \E f : Solves(f, N)
  <2>1. \A n \in 0..N : n \in G
    <3> HIDE DEF G
    <3> QED
      BY <1>1, <1>3, <1>4, Induct
  <2> QED
    BY <1>1, <2>1
<1>6. Solves(X, N)
  <2> HIDE DEF Solves
  <2> QED
    BY <1>2, <1>5
<1>7. DOMAIN X = 0..N /\ X[0] = Base /\ \A i \in 1..N : X[i] = Next(i, X[i - 1])
  BY <1>1, <1>6
<1> QED
  BY <1>7 DEF N, Base, Next, X

LEMMA RoundsDef ==
  ASSUME NEW content \in Seq(Octets), NEW begin, NEW left
  PROVE  /\ DOMAIN Rounds(content, begin, left) = 0..Len(content)
         /\ Rounds(content, begin, left)[0] = [at |-> begin, left |-> left]
         /\ \A i \in 1..Len(content) :
              Rounds(content, begin, left)[i] = Round(content, Rounds(content, begin, left)[i - 1])
<1> DEFINE N == Len(content)
           Base == [at |-> begin, left |-> left]
           Next(i, v) == Round(content, v)
           Solves(f, n) == f = [i \in 0..n |-> IF i = 0 THEN Base ELSE Next(i, f[i - 1])]
           X == Rounds(content, begin, left)
           G == {n \in 0..N : \E f : Solves(f, n)}
<1>1. N \in Nat
  OBVIOUS
<1>2. X = CHOOSE f : Solves(f, N)
  BY DEF Rounds
<1> HIDE DEF N, Base, Next, X
<1>3. 0 \in G
  <2>1. Solves([i \in 0..0 |-> Base], 0)
    OBVIOUS
  <2> HIDE DEF Solves
  <2> QED
    BY <1>1, <2>1
<1>4. ASSUME NEW n \in 0..(N - 1), n \in G
      PROVE  n + 1 \in G
  <2>1. PICK f : Solves(f, n)
    BY <1>4
  <2> DEFINE g == [i \in 0..(n + 1) |-> IF i = n + 1 THEN Next(n + 1, f[n]) ELSE f[i]]
  <2>2. \A i \in 0..(n + 1) : g[i] = IF i = 0 THEN Base ELSE Next(i, g[i - 1])
    <3> SUFFICES ASSUME NEW i \in 0..(n + 1)
                 PROVE  g[i] = IF i = 0 THEN Base ELSE Next(i, g[i - 1])
      OBVIOUS
    <3>1. CASE i = 0
      BY <2>1, <3>1
    <3>2. CASE i \in 1..n
      <4>1. g[i] = f[i] /\ g[i - 1] = f[i - 1]
        BY <3>2
      <4> QED
        BY <2>1, <3>2, <4>1
    <3>3. CASE i = n + 1
      <4>1. g[i] = Next(n + 1, f[n]) /\ i - 1 = n /\ g[n] = f[n]
        BY <3>3
      <4> QED
        BY <3>3, <4>1
    <3> QED
      BY <3>1, <3>2, <3>3
  <2>3. Solves(g, n + 1)
    BY <2>2
  <2> HIDE DEF g, Solves
  <2> QED
    BY <1>1, <2>3
<1>5. \E f : Solves(f, N)
  <2>1. \A n \in 0..N : n \in G
    <3> HIDE DEF G
    <3> QED
      BY <1>1, <1>3, <1>4, Induct
  <2> QED
    BY <1>1, <2>1
<1>6. Solves(X, N)
  <2> HIDE DEF Solves
  <2> QED
    BY <1>2, <1>5
<1>7. DOMAIN X = 0..N /\ X[0] = Base /\ \A i \in 1..N : X[i] = Next(i, X[i - 1])
  BY <1>1, <1>6
<1> QED
  BY <1>7 DEF N, Base, Next, X

LEMMA LineRoundsDef ==
  ASSUME NEW content \in Seq(Octets), NEW line
  PROVE  /\ DOMAIN LineRounds(content, line) = 0..Len(content)
         /\ LineRounds(content, line)[0] = [at |-> 0, line |-> line]
         /\ \A i \in 1..Len(content) :
              LineRounds(content, line)[i] = LineRound(content, LineRounds(content, line)[i - 1])
<1> DEFINE N == Len(content)
           Base == [at |-> 0, line |-> line]
           Next(i, v) == LineRound(content, v)
           Solves(f, n) == f = [i \in 0..n |-> IF i = 0 THEN Base ELSE Next(i, f[i - 1])]
           X == LineRounds(content, line)
           G == {n \in 0..N : \E f : Solves(f, n)}
<1>1. N \in Nat
  OBVIOUS
<1>2. X = CHOOSE f : Solves(f, N)
  BY DEF LineRounds
<1> HIDE DEF N, Base, Next, X
<1>3. 0 \in G
  <2>1. Solves([i \in 0..0 |-> Base], 0)
    OBVIOUS
  <2> HIDE DEF Solves
  <2> QED
    BY <1>1, <2>1
<1>4. ASSUME NEW n \in 0..(N - 1), n \in G
      PROVE  n + 1 \in G
  <2>1. PICK f : Solves(f, n)
    BY <1>4
  <2> DEFINE g == [i \in 0..(n + 1) |-> IF i = n + 1 THEN Next(n + 1, f[n]) ELSE f[i]]
  <2>2. \A i \in 0..(n + 1) : g[i] = IF i = 0 THEN Base ELSE Next(i, g[i - 1])
    <3> SUFFICES ASSUME NEW i \in 0..(n + 1)
                 PROVE  g[i] = IF i = 0 THEN Base ELSE Next(i, g[i - 1])
      OBVIOUS
    <3>1. CASE i = 0
      BY <2>1, <3>1
    <3>2. CASE i \in 1..n
      <4>1. g[i] = f[i] /\ g[i - 1] = f[i - 1]
        BY <3>2
      <4> QED
        BY <2>1, <3>2, <4>1
    <3>3. CASE i = n + 1
      <4>1. g[i] = Next(n + 1, f[n]) /\ i - 1 = n /\ g[n] = f[n]
        BY <3>3
      <4> QED
        BY <3>3, <4>1
    <3> QED
      BY <3>1, <3>2, <3>3
  <2>3. Solves(g, n + 1)
    BY <2>2
  <2> HIDE DEF g, Solves
  <2> QED
    BY <1>1, <2>3
<1>5. \E f : Solves(f, N)
  <2>1. \A n \in 0..N : n \in G
    <3> HIDE DEF G
    <3> QED
      BY <1>1, <1>3, <1>4, Induct
  <2> QED
    BY <1>1, <2>1
<1>6. Solves(X, N)
  <2> HIDE DEF Solves
  <2> QED
    BY <1>2, <1>5
<1>7. DOMAIN X = 0..N /\ X[0] = Base /\ \A i \in 1..N : X[i] = Next(i, X[i - 1])
  BY <1>1, <1>6
<1> QED
  BY <1>7 DEF N, Base, Next, X

LEMMA PositionsDef ==
  ASSUME NEW content \in Seq(Octets)
  PROVE  /\ DOMAIN Positions(content) = 0..Len(content)
         /\ Positions(content)[0] = [line |-> 0, character |-> 0]
         /\ \A i \in 1..Len(content) :
              Positions(content)[i] = Pass(Positions(content)[i - 1], content[i])
<1> DEFINE N == Len(content)
           Base == [line |-> 0, character |-> 0]
           Next(i, v) == Pass(v, content[i])
           Solves(f, n) == f = [i \in 0..n |-> IF i = 0 THEN Base ELSE Next(i, f[i - 1])]
           X == Positions(content)
           G == {n \in 0..N : \E f : Solves(f, n)}
<1>1. N \in Nat
  OBVIOUS
<1>2. X = CHOOSE f : Solves(f, N)
  BY DEF Positions
<1> HIDE DEF N, Base, Next, X
<1>3. 0 \in G
  <2>1. Solves([i \in 0..0 |-> Base], 0)
    OBVIOUS
  <2> HIDE DEF Solves
  <2> QED
    BY <1>1, <2>1
<1>4. ASSUME NEW n \in 0..(N - 1), n \in G
      PROVE  n + 1 \in G
  <2>1. PICK f : Solves(f, n)
    BY <1>4
  <2> DEFINE g == [i \in 0..(n + 1) |-> IF i = n + 1 THEN Next(n + 1, f[n]) ELSE f[i]]
  <2>2. \A i \in 0..(n + 1) : g[i] = IF i = 0 THEN Base ELSE Next(i, g[i - 1])
    <3> SUFFICES ASSUME NEW i \in 0..(n + 1)
                 PROVE  g[i] = IF i = 0 THEN Base ELSE Next(i, g[i - 1])
      OBVIOUS
    <3>1. CASE i = 0
      BY <2>1, <3>1
    <3>2. CASE i \in 1..n
      <4>1. g[i] = f[i] /\ g[i - 1] = f[i - 1]
        BY <3>2
      <4> QED
        BY <2>1, <3>2, <4>1
    <3>3. CASE i = n + 1
      <4>1. g[i] = Next(n + 1, f[n]) /\ i - 1 = n /\ g[n] = f[n]
        BY <3>3
      <4> QED
        BY <3>3, <4>1
    <3> QED
      BY <3>1, <3>2, <3>3
  <2>3. Solves(g, n + 1)
    BY <2>2
  <2> HIDE DEF g, Solves
  <2> QED
    BY <1>1, <2>3
<1>5. \E f : Solves(f, N)
  <2>1. \A n \in 0..N : n \in G
    <3> HIDE DEF G
    <3> QED
      BY <1>1, <1>3, <1>4, Induct
  <2> QED
    BY <1>1, <2>1
<1>6. Solves(X, N)
  <2> HIDE DEF Solves
  <2> QED
    BY <1>2, <1>5
<1>7. DOMAIN X = 0..N /\ X[0] = Base /\ \A i \in 1..N : X[i] = Next(i, X[i - 1])
  BY <1>1, <1>6
<1> QED
  BY <1>7 DEF N, Base, Next, X

LEMMA Utf8LinesDef ==
  ASSUME NEW content \in Seq(Octets)
  PROVE  /\ DOMAIN Utf8Lines(content) = 0..Len(content)
         /\ Utf8Lines(content)[0] = [line |-> 0, start |-> 0]
         /\ \A i \in 1..Len(content) :
              Utf8Lines(content)[i] = PassUtf8(Utf8Lines(content)[i - 1], i, content[i])
<1> DEFINE N == Len(content)
           Base == [line |-> 0, start |-> 0]
           Next(i, v) == PassUtf8(v, i, content[i])
           Solves(f, n) == f = [i \in 0..n |-> IF i = 0 THEN Base ELSE Next(i, f[i - 1])]
           X == Utf8Lines(content)
           G == {n \in 0..N : \E f : Solves(f, n)}
<1>1. N \in Nat
  OBVIOUS
<1>2. X = CHOOSE f : Solves(f, N)
  BY DEF Utf8Lines
<1> HIDE DEF N, Base, Next, X
<1>3. 0 \in G
  <2>1. Solves([i \in 0..0 |-> Base], 0)
    OBVIOUS
  <2> HIDE DEF Solves
  <2> QED
    BY <1>1, <2>1
<1>4. ASSUME NEW n \in 0..(N - 1), n \in G
      PROVE  n + 1 \in G
  <2>1. PICK f : Solves(f, n)
    BY <1>4
  <2> DEFINE g == [i \in 0..(n + 1) |-> IF i = n + 1 THEN Next(n + 1, f[n]) ELSE f[i]]
  <2>2. \A i \in 0..(n + 1) : g[i] = IF i = 0 THEN Base ELSE Next(i, g[i - 1])
    <3> SUFFICES ASSUME NEW i \in 0..(n + 1)
                 PROVE  g[i] = IF i = 0 THEN Base ELSE Next(i, g[i - 1])
      OBVIOUS
    <3>1. CASE i = 0
      BY <2>1, <3>1
    <3>2. CASE i \in 1..n
      <4>1. g[i] = f[i] /\ g[i - 1] = f[i - 1]
        BY <3>2
      <4> QED
        BY <2>1, <3>2, <4>1
    <3>3. CASE i = n + 1
      <4>1. g[i] = Next(n + 1, f[n]) /\ i - 1 = n /\ g[n] = f[n]
        BY <3>3
      <4> QED
        BY <3>3, <4>1
    <3> QED
      BY <3>1, <3>2, <3>3
  <2>3. Solves(g, n + 1)
    BY <2>2
  <2> HIDE DEF g, Solves
  <2> QED
    BY <1>1, <2>3
<1>5. \E f : Solves(f, N)
  <2>1. \A n \in 0..N : n \in G
    <3> HIDE DEF G
    <3> QED
      BY <1>1, <1>3, <1>4, Induct
  <2> QED
    BY <1>1, <2>1
<1>6. Solves(X, N)
  <2> HIDE DEF Solves
  <2> QED
    BY <1>2, <1>5
<1>7. DOMAIN X = 0..N /\ X[0] = Base /\ \A i \in 1..N : X[i] = Next(i, X[i - 1])
  BY <1>1, <1>6
<1> QED
  BY <1>7 DEF N, Base, Next, X

LEMMA CursorDef ==
  ASSUME NEW text \in Seq(Characters)
  PROVE  /\ DOMAIN Cursor(text) = 0..Len(text)
         /\ Cursor(text)[0] = [line |-> 0, character |-> 0]
         /\ \A i \in 1..Len(text) :
              Cursor(text)[i] =
                IF text[i] = "n" THEN [line |-> Cursor(text)[i - 1].line + 1, character |-> 0]
                ELSE [line |-> Cursor(text)[i - 1].line,
                      character |-> Cursor(text)[i - 1].character + (IF text[i] = "g" THEN 2 ELSE 1)]
<1> DEFINE N == Len(text)
           Base == [line |-> 0, character |-> 0]
           Next(i, v) ==
                IF text[i] = "n" THEN [line |-> v.line + 1, character |-> 0]
                ELSE [line |-> v.line,
                      character |-> v.character + (IF text[i] = "g" THEN 2 ELSE 1)]
           Solves(f, n) == f = [i \in 0..n |-> IF i = 0 THEN Base ELSE Next(i, f[i - 1])]
           X == Cursor(text)
           G == {n \in 0..N : \E f : Solves(f, n)}
<1>1. N \in Nat
  OBVIOUS
<1>2. X = CHOOSE f : Solves(f, N)
  BY DEF Cursor
<1> HIDE DEF N, Base, Next, X
<1>3. 0 \in G
  <2>1. Solves([i \in 0..0 |-> Base], 0)
    OBVIOUS
  <2> HIDE DEF Solves
  <2> QED
    BY <1>1, <2>1
<1>4. ASSUME NEW n \in 0..(N - 1), n \in G
      PROVE  n + 1 \in G
  <2>1. PICK f : Solves(f, n)
    BY <1>4
  <2> DEFINE g == [i \in 0..(n + 1) |-> IF i = n + 1 THEN Next(n + 1, f[n]) ELSE f[i]]
  <2>2. \A i \in 0..(n + 1) : g[i] = IF i = 0 THEN Base ELSE Next(i, g[i - 1])
    <3> SUFFICES ASSUME NEW i \in 0..(n + 1)
                 PROVE  g[i] = IF i = 0 THEN Base ELSE Next(i, g[i - 1])
      OBVIOUS
    <3>1. CASE i = 0
      BY <2>1, <3>1
    <3>2. CASE i \in 1..n
      <4>1. g[i] = f[i] /\ g[i - 1] = f[i - 1]
        BY <3>2
      <4> QED
        BY <2>1, <3>2, <4>1
    <3>3. CASE i = n + 1
      <4>1. g[i] = Next(n + 1, f[n]) /\ i - 1 = n /\ g[n] = f[n]
        BY <3>3
      <4> QED
        BY <3>3, <4>1
    <3> QED
      BY <3>1, <3>2, <3>3
  <2>3. Solves(g, n + 1)
    BY <2>2
  <2> HIDE DEF g, Solves
  <2> QED
    BY <1>1, <2>3
<1>5. \E f : Solves(f, N)
  <2>1. \A n \in 0..N : n \in G
    <3> HIDE DEF G
    <3> QED
      BY <1>1, <1>3, <1>4, Induct
  <2> QED
    BY <1>1, <2>1
<1>6. Solves(X, N)
  <2> HIDE DEF Solves
  <2> QED
    BY <1>2, <1>5
<1>7. DOMAIN X = 0..N /\ X[0] = Base /\ \A i \in 1..N : X[i] = Next(i, X[i - 1])
  BY <1>1, <1>6
<1> QED
  BY <1>7 DEF N, Base, Next, X

LEMMA ChangesDef ==
  ASSUME NEW text, NEW file, NEW diffs \in Seq(Diffs)
  PROVE  /\ DOMAIN Changes(text, file, diffs) = 0..Len(diffs)
         /\ Changes(text, file, diffs)[0] = [text |-> text, file |-> file]
         /\ \A i \in 1..Len(diffs) :
              Changes(text, file, diffs)[i] = Changed(Changes(text, file, diffs)[i - 1], diffs[i])
<1> DEFINE N == Len(diffs)
           Base == [text |-> text, file |-> file]
           Next(i, v) == Changed(v, diffs[i])
           Solves(f, n) == f = [i \in 0..n |-> IF i = 0 THEN Base ELSE Next(i, f[i - 1])]
           X == Changes(text, file, diffs)
           G == {n \in 0..N : \E f : Solves(f, n)}
<1>1. N \in Nat
  OBVIOUS
<1>2. X = CHOOSE f : Solves(f, N)
  BY DEF Changes
<1> HIDE DEF N, Base, Next, X
<1>3. 0 \in G
  <2>1. Solves([i \in 0..0 |-> Base], 0)
    OBVIOUS
  <2> HIDE DEF Solves
  <2> QED
    BY <1>1, <2>1
<1>4. ASSUME NEW n \in 0..(N - 1), n \in G
      PROVE  n + 1 \in G
  <2>1. PICK f : Solves(f, n)
    BY <1>4
  <2> DEFINE g == [i \in 0..(n + 1) |-> IF i = n + 1 THEN Next(n + 1, f[n]) ELSE f[i]]
  <2>2. \A i \in 0..(n + 1) : g[i] = IF i = 0 THEN Base ELSE Next(i, g[i - 1])
    <3> SUFFICES ASSUME NEW i \in 0..(n + 1)
                 PROVE  g[i] = IF i = 0 THEN Base ELSE Next(i, g[i - 1])
      OBVIOUS
    <3>1. CASE i = 0
      BY <2>1, <3>1
    <3>2. CASE i \in 1..n
      <4>1. g[i] = f[i] /\ g[i - 1] = f[i - 1]
        BY <3>2
      <4> QED
        BY <2>1, <3>2, <4>1
    <3>3. CASE i = n + 1
      <4>1. g[i] = Next(n + 1, f[n]) /\ i - 1 = n /\ g[n] = f[n]
        BY <3>3
      <4> QED
        BY <3>3, <4>1
    <3> QED
      BY <3>1, <3>2, <3>3
  <2>3. Solves(g, n + 1)
    BY <2>2
  <2> HIDE DEF g, Solves
  <2> QED
    BY <1>1, <2>3
<1>5. \E f : Solves(f, N)
  <2>1. \A n \in 0..N : n \in G
    <3> HIDE DEF G
    <3> QED
      BY <1>1, <1>3, <1>4, Induct
  <2> QED
    BY <1>1, <2>1
<1>6. Solves(X, N)
  <2> HIDE DEF Solves
  <2> QED
    BY <1>2, <1>5
<1>7. DOMAIN X = 0..N /\ X[0] = Base /\ \A i \in 1..N : X[i] = Next(i, X[i - 1])
  BY <1>1, <1>6
<1> QED
  BY <1>7 DEF N, Base, Next, X

-----------------------------------------------------------------------------
(***************************************************************************)
(* Characters in the bytes.                                                *)
(***************************************************************************)
\* The bytes before character i + 1.
Offset(text, i) == Len(Encoded(text)[i])

CharUnits(c) == IF c = "g" THEN 2 ELSE 1

\* A character begins with a byte that tells what it is, and goes on with
\* continuation bytes.
LEMMA CharShape ==
  ASSUME NEW c \in Characters
  PROVE  /\ Len(EncodeChar(c)) \in 1..4
         /\ EncodeChar(c)[1] \in Octets \ {"cont"}
         /\ EncodeChar(c)[1] = "n" <=> c = "n"
         /\ EncodeChar(c)[1] \in {"a", "n"} <=> Len(EncodeChar(c)) = 1
         /\ Units(EncodeChar(c)[1]) = CharUnits(c)
         /\ \A k \in 2..Len(EncodeChar(c)) : EncodeChar(c)[k] = "cont"
<1>1. CASE c = "e"
  <2>1. EncodeChar(c) = <<"lead2", "cont">>
    BY <1>1 DEF EncodeChar
  <2> QED
    BY <1>1, <2>1 DEF Octets, Units, CharUnits
<1>2. CASE c = "g"
  <2>1. EncodeChar(c) = <<"lead4", "cont", "cont", "cont">>
    BY <1>2 DEF EncodeChar
  <2> QED
    BY <1>2, <2>1 DEF Octets, Units, CharUnits
<1>3. CASE c \in {"a", "n"}
  <2>1. EncodeChar(c) = <<c>>
    BY <1>3 DEF EncodeChar
  <2> QED
    BY <1>3, <2>1 DEF Octets, Units, CharUnits
<1> QED
  BY <1>1, <1>2, <1>3 DEF Characters

LEMMA EncodedType ==
  ASSUME NEW text \in Seq(Characters)
  PROVE  \A i \in 0..Len(text) : Encoded(text)[i] \in Seq(Octets) /\ Offset(text, i) \in Nat
<1> DEFINE G == {i \in 0..Len(text) : Encoded(text)[i] \in Seq(Octets)}
<1>1. 0 \in G
  <2>1. Encoded(text)[0] = <<>>
    BY EncodedDef
  <2>2. <<>> \in Seq(Octets)
    OBVIOUS
  <2>3. Encoded(text)[0] \in Seq(Octets)
    BY <2>1, <2>2, Zenon
  <2>4. 0 \in 0..Len(text)
    OBVIOUS
  <2> QED
    BY <2>3, <2>4
<1>2. ASSUME NEW i \in 0..(Len(text) - 1), i \in G
      PROVE  i + 1 \in G
  <2>1. i + 1 \in 1..Len(text) /\ (i + 1) - 1 = i /\ Encoded(text)[i] \in Seq(Octets)
    BY <1>2
  <2>2. Encoded(text)[i + 1] = Encoded(text)[i] \o EncodeChar(text[i + 1])
    BY <2>1, EncodedDef
  <2>3. EncodeChar(text[i + 1]) \in Seq(Octets)
    BY <2>1, CharBytes
  <2>4. Encoded(text)[i + 1] \in Seq(Octets)
    BY <2>1, <2>2, <2>3, Joined
  <2> QED
    BY <2>1, <2>4
<1>3. \A i \in 0..Len(text) : i \in G
  <2> HIDE DEF G
  <2> QED
    BY <1>1, <1>2, Induct
<1> QED
  BY <1>3 DEF Offset

LEMMA OffsetZero ==
  ASSUME NEW text \in Seq(Characters)
  PROVE  Offset(text, 0) = 0
<1>1. Encoded(text)[0] = <<>>
  BY EncodedDef
<1>2. Len(<<>>) = 0
  OBVIOUS
<1> QED
  BY <1>1, <1>2, Zenon DEF Offset

\* The bytes of i characters are the first bytes of those of j >= i.
LEMMA EncodedPrefix ==
  ASSUME NEW text \in Seq(Characters), NEW i \in 0..Len(text), NEW j \in i..Len(text)
  PROVE  /\ Offset(text, i) <= Offset(text, j)
         /\ \A k \in 1..Offset(text, i) : Encoded(text)[j][k] = Encoded(text)[i][k]
<1> DEFINE P(m) == /\ Offset(text, i) <= Offset(text, m)
                   /\ \A k \in 1..Offset(text, i) : Encoded(text)[m][k] = Encoded(text)[i][k]
           G == {d \in 0..(Len(text) - i) : P(i + d)}
<1>1. 0 \in G
  <2>1. i + 0 = i
    OBVIOUS
  <2>2. P(i)
    BY EncodedType
  <2> QED
    BY <2>1, <2>2
<1>2. ASSUME NEW d \in 0..((Len(text) - i) - 1), d \in G
      PROVE  d + 1 \in G
  <2> DEFINE m == i + d
  <2>1. m + 1 \in 1..Len(text) /\ m \in 0..Len(text) /\ (m + 1) - 1 = m /\ i + (d + 1) = m + 1
    OBVIOUS
  <2>2. P(m)
    BY <1>2
  <2>3. Encoded(text)[m + 1] = Encoded(text)[m] \o EncodeChar(text[m + 1])
    BY <2>1, EncodedDef
  <2>4. EncodeChar(text[m + 1]) \in Seq(Octets) /\ Encoded(text)[m] \in Seq(Octets)
    BY <2>1, CharBytes, EncodedType
  <2> HIDE DEF m
  <2>5. Offset(text, m) \in Nat /\ Offset(text, i) \in Nat
    BY <2>1, EncodedType
  <2>6. /\ Offset(text, m) <= Offset(text, m + 1)
        /\ \A k \in 1..Offset(text, m) : Encoded(text)[m + 1][k] = Encoded(text)[m][k]
    <3> DEFINE s == Encoded(text)[m]
               t == EncodeChar(text[m + 1])
    <3>1. Len(s) <= Len(s \o t) /\ \A k \in 1..Len(s) : (s \o t)[k] = s[k]
      <4> HIDE DEF s, t
      <4>1. s \in Seq(Octets) /\ t \in Seq(Octets)
        BY <2>4 DEF s, t
      <4> QED
        BY <4>1, Joined
    <3> QED
      BY <2>3, <3>1 DEF Offset
  <2>7. P(m + 1)
    <3>1. Offset(text, m + 1) \in Nat
      BY <2>1, EncodedType
    <3> QED
      BY <2>2, <2>5, <2>6, <3>1
  <2> QED
    BY <2>1, <2>7
<1>3. Len(text) - i \in Nat /\ j - i \in 0..(Len(text) - i)
  OBVIOUS
<1>4. \A d \in 0..(Len(text) - i) : d \in G
  <2> HIDE DEF G
  <2> QED
    BY <1>1, <1>2, <1>3, Induct
<1>5. P(i + (j - i))
  BY <1>3, <1>4
<1>6. i + (j - i) = j
  OBVIOUS
<1> QED
  BY <1>5, <1>6

\* Character i in the bytes of a text.
LEMMA CharAt ==
  ASSUME NEW text \in Seq(Characters), NEW i \in 1..Len(text)
  PROVE  /\ Encode(text) \in Seq(Octets)
         /\ Len(Encode(text)) = Offset(text, Len(text))
         /\ Offset(text, i - 1) \in Nat
         /\ Offset(text, i) = Offset(text, i - 1) + Len(EncodeChar(text[i]))
         /\ Offset(text, i) <= Len(Encode(text))
         /\ \A k \in 1..Len(EncodeChar(text[i])) :
              Encode(text)[Offset(text, i - 1) + k] = EncodeChar(text[i])[k]
<1> DEFINE b == Encoded(text)[i - 1]
           c == EncodeChar(text[i])
<1>1. Len(text) \in Nat /\ i - 1 \in 0..Len(text) /\ i \in 0..Len(text) /\ Len(text) \in i..Len(text)
  OBVIOUS
<1>2. Encode(text) \in Seq(Octets) /\ Len(Encode(text)) = Offset(text, Len(text))
  BY <1>1, EncodedType DEF Encode, Offset
<1>3. b \in Seq(Octets) /\ c \in Seq(Octets) /\ Encoded(text)[i] = b \o c
  <2>1. b \in Seq(Octets)
    BY <1>1, EncodedType
  <2>2. c \in Seq(Octets)
    BY CharBytes
  <2>3. Encoded(text)[i] = b \o c
    BY <1>1, EncodedDef
  <2> QED
    BY <2>1, <2>2, <2>3
<1>4. Len(b) = Offset(text, i - 1) /\ Offset(text, i) = Len(b \o c)
  BY <1>3 DEF Offset
<1>5. /\ Offset(text, i) <= Offset(text, Len(text))
      /\ \A k \in 1..Offset(text, i) : Encode(text)[k] = Encoded(text)[i][k]
  BY <1>1, EncodedPrefix DEF Encode
<1> HIDE DEF b, c
<1>6. \A k \in 1..Len(c) : Len(b) + k \in 1..Len(b \o c) /\ (b \o c)[Len(b) + k] = c[k]
  BY <1>3
<1>7. Offset(text, i) = Len(b) + Len(c)
  BY <1>3, <1>4, Joined
<1>8. \A k \in 1..Len(c) : Encode(text)[Len(b) + k] = c[k]
  BY <1>3, <1>4, <1>5, <1>6
<1>9. Offset(text, i - 1) \in Nat
  BY <1>1, EncodedType
<1> QED
  BY <1>2, <1>4, <1>5, <1>7, <1>8, <1>9 DEF c

LEMMA SkipDef ==
  ASSUME NEW content \in Seq(Octets), NEW i \in 0..Len(content)
  PROVE  /\ SkipContinuation(content, i) \in i..Len(content)
         /\ \A k \in (i + 1)..SkipContinuation(content, i) : content[k] = "cont"
         /\ SkipContinuation(content, i) < Len(content) =>
              content[SkipContinuation(content, i) + 1] # "cont"
<1> DEFINE T == {j \in i..Len(content) : j < Len(content) => content[j + 1] # "cont"}
           P(j) == /\ \A k \in (i + 1)..j : content[k] = "cont"
                   /\ j < Len(content) => content[j + 1] # "cont"
<1>1. Len(content) \in T /\ T \in SUBSET Nat
  OBVIOUS
<1>2. PICK j \in T : \A y \in T : j <= y
  <2> HIDE DEF T
  <2> QED
    BY <1>1, LeastNat
<1>3. ASSUME NEW k \in (i + 1)..j
      PROVE  content[k] = "cont"
  <2>1. j \in i..Len(content)
    OBVIOUS
  <2>2. k - 1 \in i..Len(content) /\ (k - 1) + 1 = k /\ ~(j <= k - 1)
    BY <2>1
  <2>3. k - 1 \notin T
    <3> HIDE DEF T
    <3> QED
      BY <1>2, <2>2
  <2> QED
    BY <2>2, <2>3
<1>4. j \in i..Len(content) /\ P(j)
  BY <1>2, <1>3
<1>5. SkipContinuation(content, i) = CHOOSE x \in i..Len(content) : P(x)
  BY DEF SkipContinuation
<1> HIDE DEF P
<1>6. SkipContinuation(content, i) \in i..Len(content) /\ P(SkipContinuation(content, i))
  BY <1>4, <1>5
<1> QED
  BY <1>6 DEF P

LEMMA SkipIs ==
  ASSUME NEW content \in Seq(Octets), NEW i \in 0..Len(content), NEW m \in i..Len(content),
         \A k \in (i + 1)..m : content[k] = "cont",
         m < Len(content) => content[m + 1] # "cont"
  PROVE  SkipContinuation(content, i) = m
<1> DEFINE j == SkipContinuation(content, i)
<1>1. /\ j \in i..Len(content)
      /\ \A k \in (i + 1)..j : content[k] = "cont"
      /\ j < Len(content) => content[j + 1] # "cont"
  BY SkipDef
<1> HIDE DEF j
<1>2. ~(j < m)
  <2> SUFFICES ASSUME j < m
               PROVE  FALSE
    OBVIOUS
  <2>1. j + 1 \in (i + 1)..m /\ j < Len(content)
    BY <1>1
  <2> QED
    BY <1>1, <2>1
<1>3. ~(m < j)
  <2> SUFFICES ASSUME m < j
               PROVE  FALSE
    OBVIOUS
  <2>1. m + 1 \in (i + 1)..j /\ m < Len(content)
    BY <1>1
  <2> QED
    BY <1>1, <2>1
<1> QED
  BY <1>1, <1>2, <1>3 DEF j

\* A character is not followed by a continuation byte.
LEMMA AfterChar ==
  ASSUME NEW text \in Seq(Characters), NEW i \in 0..Len(text),
         Offset(text, i) < Len(Encode(text))
  PROVE  Encode(text)[Offset(text, i) + 1] # "cont"
<1>1. CASE i = Len(text)
  <2>1. Len(Encode(text)) = Offset(text, i)
    BY <1>1 DEF Encode, Offset
  <2>2. Offset(text, i) \in Nat
    BY EncodedType
  <2> QED
    BY <2>1, <2>2
<1>2. CASE i # Len(text)
  <2>1. i + 1 \in 1..Len(text) /\ (i + 1) - 1 = i
    BY <1>2
  <2>2. text[i + 1] \in Characters
    BY <2>1
  <2>3. 1 \in 1..Len(EncodeChar(text[i + 1])) /\ EncodeChar(text[i + 1])[1] # "cont"
    BY <2>2, CharShape
  <2>4. Encode(text)[Offset(text, i) + 1] = EncodeChar(text[i + 1])[1]
    BY <2>1, <2>3, CharAt
  <2> QED
    BY <2>3, <2>4
<1> QED
  BY <1>1, <1>2

\* One round of the loop passes one character.
LEMMA RoundChar ==
  ASSUME NEW text \in Seq(Characters), NEW i \in 1..Len(text),
         NEW u \in Nat, u >= CharUnits(text[i])
  PROVE  Round(Encode(text), [at |-> Offset(text, i - 1), left |-> u])
           = [at |-> Offset(text, i), left |-> u - CharUnits(text[i])]
<1> DEFINE enc == Encode(text)
           b == Offset(text, i - 1)
           e == Offset(text, i)
           c == EncodeChar(text[i])
           lead == enc[b + 1]
           s == [at |-> b, left |-> u]
<1>1. text[i] \in Characters
  OBVIOUS
<1>2. /\ Len(c) \in 1..4 /\ c[1] \in Octets \ {"cont"}
      /\ c[1] \in {"a", "n"} <=> Len(c) = 1
      /\ Units(c[1]) = CharUnits(text[i])
      /\ \A k \in 2..Len(c) : c[k] = "cont"
  BY <1>1, CharShape
<1>3. /\ enc \in Seq(Octets) /\ b \in Nat /\ e = b + Len(c) /\ e <= Len(enc)
      /\ \A k \in 1..Len(c) : enc[b + k] = c[k]
  BY CharAt
<1>4. e < Len(enc) => enc[e + 1] # "cont"
  <2>1. i \in 0..Len(text)
    OBVIOUS
  <2> QED
    BY <2>1, AfterChar
<1>5. CharUnits(text[i]) \in {1, 2}
  BY DEF CharUnits
<1> HIDE DEF enc, b, e, c
<1>6. lead = c[1]
  BY <1>2, <1>3
<1>7. (IF lead \in {"a", "n"} THEN b + 1 ELSE SkipContinuation(enc, b + 1)) = e
  <2>1. CASE Len(c) = 1
    BY <1>2, <1>3, <1>6, <2>1
  <2>2. CASE Len(c) # 1
    <3>1. b + 1 \in 0..Len(enc) /\ e \in (b + 1)..Len(enc)
      BY <1>2, <1>3
    <3>2. \A k \in ((b + 1) + 1)..e : enc[k] = "cont"
      <4> SUFFICES ASSUME NEW k \in ((b + 1) + 1)..e
                   PROVE  enc[k] = "cont"
        OBVIOUS
      <4>1. k - b \in 2..Len(c) /\ b + (k - b) = k
        BY <1>2, <1>3
      <4>2. k - b \in 1..Len(c)
        BY <4>1, <1>2
      <4>3. enc[b + (k - b)] = c[k - b]
        BY <1>3, <4>2
      <4> QED
        BY <1>2, <4>1, <4>3
    <3>3. SkipContinuation(enc, b + 1) = e
      BY <1>3, <1>4, <3>1, <3>2, SkipIs
    <3> QED
      BY <1>2, <1>6, <2>2, <3>3
  <2> QED
    BY <2>1, <2>2
<1>8. s.left = u /\ s.at = b
  OBVIOUS
<1>9. ~(s.left = 0 \/ s.at >= Len(enc))
  BY <1>2, <1>3, <1>5, <1>8
<1>10. (IF s.left < Units(lead) THEN 0 ELSE s.left - Units(lead)) = u - CharUnits(text[i])
  BY <1>2, <1>5, <1>6, <1>8
<1>11. Round(enc, s) = [at |-> IF lead \in {"a", "n"} THEN b + 1 ELSE SkipContinuation(enc, b + 1),
                        left |-> IF s.left < Units(lead) THEN 0 ELSE s.left - Units(lead)]
  BY <1>8, <1>9 DEF Round
<1>12. Round(enc, s) = [at |-> e, left |-> u - CharUnits(text[i])]
  BY <1>7, <1>10, <1>11
<1> QED
  BY <1>12 DEF enc, b, e

-----------------------------------------------------------------------------
(***************************************************************************)
(* The editor's cursor.                                                    *)
(***************************************************************************)
LEMMA CursorType ==
  ASSUME NEW text \in Seq(Characters)
  PROVE  \A i \in 0..Len(text) : /\ Cursor(text)[i] \in [line : Nat, character : Nat]
                                 /\ Cursor(text)[i].line \in Nat
                                 /\ Cursor(text)[i].character \in Nat
<1> DEFINE S == [line : Nat, character : Nat]
           G == {i \in 0..Len(text) : Cursor(text)[i] \in S}
<1>1. 0 \in G
  <2>1. Cursor(text)[0] = [line |-> 0, character |-> 0]
    BY CursorDef
  <2> QED
    BY <2>1
<1>2. ASSUME NEW i \in 0..(Len(text) - 1), i \in G
      PROVE  i + 1 \in G
  <2>1. i + 1 \in 1..Len(text) /\ (i + 1) - 1 = i /\ Cursor(text)[i] \in S
    BY <1>2
  <2>2. Cursor(text)[i + 1] = IF text[i + 1] = "n"
                              THEN [line |-> Cursor(text)[i].line + 1, character |-> 0]
                              ELSE [line |-> Cursor(text)[i].line,
                                    character |-> Cursor(text)[i].character
                                                    + (IF text[i + 1] = "g" THEN 2 ELSE 1)]
    BY <2>1, CursorDef
  <2>3. Cursor(text)[i + 1] \in S
    BY <2>1, <2>2
  <2> QED
    BY <2>1, <2>3
<1>3. \A i \in 0..Len(text) : i \in G
  <2> HIDE DEF G
  <2> QED
    BY <1>1, <1>2, Induct
<1> QED
  BY <1>3

LEMMA CursorStep ==
  ASSUME NEW text \in Seq(Characters), NEW i \in 1..Len(text)
  PROVE  /\ text[i] = "n" => /\ Cursor(text)[i].line = Cursor(text)[i - 1].line + 1
                             /\ Cursor(text)[i].character = 0
         /\ text[i] # "n" => /\ Cursor(text)[i].line = Cursor(text)[i - 1].line
                             /\ Cursor(text)[i].character
                                  = Cursor(text)[i - 1].character + CharUnits(text[i])
<1>1. Cursor(text)[i] = IF text[i] = "n"
                        THEN [line |-> Cursor(text)[i - 1].line + 1, character |-> 0]
                        ELSE [line |-> Cursor(text)[i - 1].line,
                              character |-> Cursor(text)[i - 1].character
                                              + (IF text[i] = "g" THEN 2 ELSE 1)]
  BY CursorDef
<1> QED
  BY <1>1 DEF CharUnits

\* Along a line the cursor moves to the right.
LEMMA CursorOnLine ==
  ASSUME NEW text \in Seq(Characters), NEW j \in 0..Len(text), NEW i \in j..Len(text),
         \A m \in (j + 1)..i : text[m] # "n"
  PROVE  /\ Cursor(text)[i].line = Cursor(text)[j].line
         /\ Cursor(text)[j].character <= Cursor(text)[i].character
<1> DEFINE P(m) == /\ Cursor(text)[m].line = Cursor(text)[j].line
                   /\ Cursor(text)[j].character <= Cursor(text)[m].character
           G == {d \in 0..(i - j) : P(j + d)}
<1>1. 0 \in G
  <2>1. j + 0 = j /\ P(j)
    BY CursorType
  <2> QED
    BY <2>1
<1>2. ASSUME NEW d \in 0..((i - j) - 1), d \in G
      PROVE  d + 1 \in G
  <2> DEFINE m == j + d
  <2>1. /\ m + 1 \in 1..Len(text) /\ m \in 0..Len(text) /\ (m + 1) - 1 = m
        /\ j + (d + 1) = m + 1 /\ m + 1 \in (j + 1)..i
    OBVIOUS
  <2>2. P(m)
    BY <1>2
  <2> HIDE DEF m
  <2>3. /\ Cursor(text)[m + 1].line = Cursor(text)[m].line
        /\ Cursor(text)[m + 1].character = Cursor(text)[m].character + CharUnits(text[m + 1])
    BY <2>1, CursorStep
  <2>4. CharUnits(text[m + 1]) \in {1, 2}
    BY DEF CharUnits
  <2>5. P(m + 1)
    BY <2>1, <2>2, <2>3, <2>4, CursorType
  <2> QED
    BY <2>1, <2>5
<1>3. i - j \in Nat /\ i - j \in 0..(i - j) /\ j + (i - j) = i
  OBVIOUS
<1>4. \A d \in 0..(i - j) : d \in G
  <2> HIDE DEF G
  <2> QED
    BY <1>1, <1>2, <1>3, Induct
<1>5. P(j + (i - j))
  BY <1>3, <1>4
<1> QED
  BY <1>3, <1>5

\* A text has at least as many bytes as characters.
LEMMA OffsetGrows ==
  ASSUME NEW text \in Seq(Characters), NEW i \in 0..Len(text), NEW j \in i..Len(text)
  PROVE  /\ Offset(text, i) \in Nat /\ Offset(text, j) \in Nat
         /\ j - i <= Offset(text, j) - Offset(text, i)
         /\ Offset(text, j) <= Len(Encode(text))
<1> DEFINE P(m) == m - i <= Offset(text, m) - Offset(text, i)
           G == {d \in 0..(Len(text) - i) : P(i + d)}
<1>0. Offset(text, i) \in Nat
  BY EncodedType
<1>1. 0 \in G
  <2>1. i + 0 = i /\ P(i)
    BY <1>0
  <2> QED
    BY <2>1
<1>2. ASSUME NEW d \in 0..((Len(text) - i) - 1), d \in G
      PROVE  d + 1 \in G
  <2> DEFINE m == i + d
  <2>1. m + 1 \in 1..Len(text) /\ m \in 0..Len(text) /\ (m + 1) - 1 = m /\ i + (d + 1) = m + 1
    OBVIOUS
  <2>2. P(m)
    BY <1>2
  <2> HIDE DEF m
  <2>3. Offset(text, m + 1) = Offset(text, m) + Len(EncodeChar(text[m + 1])) /\ Offset(text, m) \in Nat
    BY <2>1, CharAt
  <2>4. text[m + 1] \in Characters
    BY <2>1
  <2>5. Len(EncodeChar(text[m + 1])) \in 1..4
    BY <2>4, CharShape
  <2>6. P(m + 1)
    <3>1. \A x, y, z, t \in Nat, w \in 1..4 : x - i <= y - z /\ t = y + w => (x + 1) - i <= t - z
      OBVIOUS
    <3>2. m \in Nat /\ Offset(text, m + 1) \in Nat
      BY <2>1, <2>3, <2>5
    <3> QED
      BY <1>0, <2>2, <2>3, <2>5, <3>1, <3>2
  <2> QED
    BY <2>1, <2>6
<1>3. Len(text) - i \in Nat /\ j - i \in 0..(Len(text) - i) /\ i + (j - i) = j
  OBVIOUS
<1>4. \A d \in 0..(Len(text) - i) : d \in G
  <2> HIDE DEF G
  <2> QED
    BY <1>1, <1>2, <1>3, Induct
<1>5. P(i + (j - i))
  BY <1>3, <1>4
<1>6. j \in 0..Len(text) /\ Len(text) \in j..Len(text)
  OBVIOUS
<1>7. Offset(text, j) <= Offset(text, Len(text)) /\ Offset(text, j) \in Nat
  BY <1>6, EncodedPrefix, EncodedType
<1>8. Offset(text, Len(text)) = Len(Encode(text))
  BY DEF Offset, Encode
<1> QED
  BY <1>0, <1>3, <1>5, <1>7, <1>8

\* From a character over a part of its line, the second loop goes to the character
\* the cursor is at.
LEMMA AdvanceChars ==
  ASSUME NEW text \in Seq(Characters), NEW j \in 0..Len(text), NEW i \in j..Len(text),
         \A m \in (j + 1)..i : text[m] # "n"
  PROVE  Advance(Encode(text), Offset(text, j),
                 Cursor(text)[i].character - Cursor(text)[j].character) = Offset(text, i)
<1> DEFINE enc == Encode(text)
           u(m) == Cursor(text)[i].character - Cursor(text)[m].character
           R == Rounds(enc, Offset(text, j), u(j))
           Here(m) == [at |-> Offset(text, m), left |-> u(m)]
           To(k) == IF k <= i - j THEN j + k ELSE i
           G == {k \in 0..Len(enc) : R[k] = Here(To(k))}
<1>0. enc \in Seq(Octets) /\ Len(enc) \in Nat /\ i \in 0..Len(text) /\ i - j \in Nat
  <2>1. Len(text) \in 0..Len(text)
    OBVIOUS
  <2> QED
    BY <2>1, EncodedType DEF Encode
<1>1. /\ R[0] = Here(j)
      /\ \A k \in 1..Len(enc) : R[k] = Round(enc, R[k - 1])
  BY <1>0, RoundsDef
<1>2. 0 \in G
  <2>1. To(0) = j
    BY <1>0
  <2> HIDE DEF R, Here, enc, To
  <2> QED
    BY <1>0, <1>1, <2>1
<1>3. \A m \in j..i : u(m) \in Nat
  <2> SUFFICES ASSUME NEW m \in j..i
               PROVE  u(m) \in Nat
    OBVIOUS
  <2>1. m \in 0..Len(text) /\ i \in m..Len(text) /\ \A n \in (m + 1)..i : text[n] # "n"
    OBVIOUS
  <2>2. Cursor(text)[m].character <= Cursor(text)[i].character
    BY <2>1, CursorOnLine
  <2>3. Cursor(text)[m].character \in Nat /\ Cursor(text)[i].character \in Nat
    BY <1>0, <2>1, CursorType
  <2> QED
    BY <2>2, <2>3
<1>4. ASSUME NEW k \in 0..(Len(enc) - 1), k \in G
      PROVE  k + 1 \in G
  <2>1. k + 1 \in 1..Len(enc) /\ (k + 1) - 1 = k /\ k + 1 \in 0..Len(enc)
    BY <1>0
  <2>2. R[k + 1] = Round(enc, R[k])
    <3> HIDE DEF R, enc
    <3> QED
      BY <1>1, <2>1
  <2>3. R[k] = Here(To(k))
    BY <1>4
  <2>4. Round(enc, Here(To(k))) = Here(To(k + 1))
    <3>1. CASE k < i - j
      <4> DEFINE m == j + k
      <4>1. /\ To(k) = m /\ To(k + 1) = m + 1 /\ m + 1 \in 1..Len(text) /\ (m + 1) - 1 = m
            /\ m + 1 \in (j + 1)..i /\ m \in j..i /\ m + 1 \in j..i /\ m \in 0..Len(text)
        BY <1>0, <3>1
      <4> HIDE DEF m, To
      <4>2. Cursor(text)[m + 1].character = Cursor(text)[m].character + CharUnits(text[m + 1])
        BY <4>1, CursorStep
      <4>3. CharUnits(text[m + 1]) \in {1, 2}
        BY DEF CharUnits
      <4>4. /\ Cursor(text)[m].character \in Nat /\ Cursor(text)[i].character \in Nat
            /\ u(m) \in Nat /\ u(m + 1) \in Nat
        BY <1>0, <1>3, <4>1, CursorType
      <4>5. u(m) >= CharUnits(text[m + 1]) /\ u(m + 1) = u(m) - CharUnits(text[m + 1])
        <5> DEFINE x == Cursor(text)[i].character
                   y == Cursor(text)[m].character
                   z == Cursor(text)[m + 1].character
                   w == CharUnits(text[m + 1])
        <5>1. x \in Nat /\ y \in Nat /\ w \in {1, 2} /\ z = y + w /\ x - y \in Nat /\ x - z \in Nat
          BY <4>2, <4>3, <4>4, Zenon DEF u
        <5> HIDE DEF x, y, z, w
        <5>2. x - y >= w /\ x - z = (x - y) - w
          BY <5>1
        <5> QED
          BY <5>2 DEF u, x, y, z, w
      <4> HIDE DEF u
      <4>6. Round(enc, [at |-> Offset(text, m), left |-> u(m)])
              = [at |-> Offset(text, m + 1), left |-> u(m) - CharUnits(text[m + 1])]
        BY <4>1, <4>4, <4>5, RoundChar
      <4>7. Round(enc, Here(m)) = Here(m + 1)
        BY <4>5, <4>6
      <4> QED
        BY <4>1, <4>7
    <3>2. CASE ~(k < i - j)
      <4>1. To(k) = i /\ To(k + 1) = i
        BY <1>0, <3>2
      <4>2. u(i) = 0
        BY <1>0, CursorType
      <4>3. Here(i).left = 0
        BY <4>2
      <4>4. Round(enc, Here(i)) = Here(i)
        BY <4>3 DEF Round
      <4> QED
        BY <4>1, <4>4
    <3> QED
      BY <3>1, <3>2
  <2> HIDE DEF R, Here, enc, To
  <2> QED
    BY <2>1, <2>2, <2>3, <2>4
<1>5. \A k \in 0..Len(enc) : k \in G
  <2> HIDE DEF G, enc
  <2> QED
    BY <1>0, <1>2, <1>4, Induct
<1>6. To(Len(enc)) = i
  <2>1. i - j <= Len(enc)
    BY <1>0, OffsetGrows
  <2> QED
    BY <1>0, <2>1
<1>7. R[Len(enc)] = Here(i)
  <2>1. Len(enc) \in 0..Len(enc)
    BY <1>0
  <2> HIDE DEF R, Here, enc, To
  <2> QED
    BY <1>5, <1>6, <2>1
<1>8. Here(i).at = Offset(text, i)
  OBVIOUS
<1> QED
  BY <1>7, <1>8 DEF Advance

-----------------------------------------------------------------------------
(***************************************************************************)
(* The table of lines.                                                     *)
(***************************************************************************)
\* The start of the line that holds the n-th byte's end.
LastStart(content, n) == LineStarts(content)[n][Len(LineStarts(content)[n])]

LEMMA Appended ==
  ASSUME NEW S, NEW s \in Seq(S), NEW e \in S
  PROVE  /\ Append(s, e) \in Seq(S) /\ Len(s) \in Nat
         /\ Len(Append(s, e)) = Len(s) + 1
         /\ Append(s, e)[Len(s) + 1] = e
         /\ \A k \in 1..Len(s) : Append(s, e)[k] = s[k]
OBVIOUS

LEMMA LineTable ==
  ASSUME NEW content \in Seq(Octets)
  PROVE  \A n \in 0..Len(content) :
           /\ LineStarts(content)[n] \in Seq(Nat)
           /\ Len(LineStarts(content)[n]) \in Nat \ {0}
           /\ LastStart(content, n) \in 0..n
           /\ \A k \in (LastStart(content, n) + 1)..n : content[k] # "n"
<1> DEFINE L(n) == LineStarts(content)[n]
           last(n) == L(n)[Len(L(n))]
           P(n) == /\ L(n) \in Seq(Nat)
                   /\ Len(L(n)) \in Nat \ {0}
                   /\ last(n) \in 0..n
                   /\ \A k \in (last(n) + 1)..n : content[k] # "n"
           G == {n \in 0..Len(content) : P(n)}
<1>1. 0 \in G
  <2>1. L(0) = <<0>>
    BY LineStartsDef
  <2>2. <<0>> \in Seq(Nat) /\ Len(<<0>>) = 1 /\ <<0>>[1] = 0
    OBVIOUS
  <2> HIDE DEF L
  <2>3. L(0) \in Seq(Nat) /\ Len(L(0)) = 1 /\ last(0) = 0
    BY <2>1, <2>2
  <2>4. P(0)
    BY <2>3
  <2> QED
    BY <2>4
<1>2. ASSUME NEW n \in 0..(Len(content) - 1), n \in G
      PROVE  n + 1 \in G
  <2>1. n + 1 \in 1..Len(content) /\ (n + 1) - 1 = n /\ n + 1 \in 0..Len(content)
    OBVIOUS
  <2>2. P(n)
    BY <1>2
  <2>3. L(n + 1) = IF content[n + 1] = "n" THEN Append(L(n), n + 1) ELSE L(n)
    BY <2>1, LineStartsDef
  <2> HIDE DEF L
  <2>4. CASE content[n + 1] = "n"
    <3>1. L(n + 1) = Append(L(n), n + 1)
      BY <2>3, <2>4
    <3>2. /\ L(n + 1) \in Seq(Nat)
          /\ Len(L(n + 1)) = Len(L(n)) + 1
          /\ L(n + 1)[Len(L(n)) + 1] = n + 1
      <4> DEFINE s == L(n)
                 e == n + 1
      <4>1. s \in Seq(Nat) /\ e \in Nat
        BY <2>1, <2>2
      <4> HIDE DEF s, e
      <4>2. /\ Append(s, e) \in Seq(Nat)
            /\ Len(Append(s, e)) = Len(s) + 1
            /\ Append(s, e)[Len(s) + 1] = e
        BY <4>1, Appended
      <4> QED
        BY <3>1, <4>2, Zenon DEF s, e
    <3>3. last(n + 1) = n + 1 /\ Len(L(n + 1)) \in Nat \ {0}
      BY <2>2, <3>2
    <3>4. P(n + 1)
      BY <3>2, <3>3
    <3> QED
      BY <2>1, <3>4
  <2>5. CASE content[n + 1] # "n"
    <3>1. L(n + 1) = L(n)
      BY <2>3, <2>5
    <3>2. last(n + 1) = last(n)
      BY <3>1
    <3>3. last(n + 1) \in 0..(n + 1)
      BY <2>2, <3>2
    <3>4. ASSUME NEW k \in (last(n + 1) + 1)..(n + 1)
          PROVE  content[k] # "n"
      <4>1. CASE k = n + 1
        BY <2>5, <4>1
      <4>2. CASE k # n + 1
        <5>1. k \in (last(n) + 1)..n
          BY <2>2, <3>2, <4>2
        <5> QED
          BY <2>2, <5>1
      <4> QED
        BY <4>1, <4>2
    <3>5. P(n + 1)
      <4>1. L(n + 1) \in Seq(Nat) /\ Len(L(n + 1)) \in Nat \ {0}
        BY <2>2, <3>1, Zenon
      <4> QED
        BY <4>1, <3>3, <3>4
    <3> QED
      BY <2>1, <3>5
  <2> QED
    BY <2>4, <2>5
<1>3. \A n \in 0..Len(content) : n \in G
  <2> HIDE DEF G
  <2>1. Len(content) \in Nat
    OBVIOUS
  <2> QED
    BY <1>1, <1>2, <2>1, Induct
<1> QED
  BY <1>3 DEF LastStart

\* The table of a part of the bytes is the beginning of the table of more of them.
LEMMA LinesGrow ==
  ASSUME NEW content \in Seq(Octets), NEW n \in 0..Len(content), NEW m \in n..Len(content)
  PROVE  /\ Len(LineStarts(content)[n]) <= Len(LineStarts(content)[m])
         /\ \A k \in 1..Len(LineStarts(content)[n]) :
              LineStarts(content)[m][k] = LineStarts(content)[n][k]
<1> DEFINE L(x) == LineStarts(content)[x]
           P(x) == /\ Len(L(n)) <= Len(L(x))
                   /\ \A k \in 1..Len(L(n)) : L(x)[k] = L(n)[k]
           G == {d \in 0..(Len(content) - n) : P(n + d)}
<1>0. \A x \in 0..Len(content) : L(x) \in Seq(Nat) /\ Len(L(x)) \in Nat
  BY LineTable
<1>1. 0 \in G
  <2>1. n + 0 = n
    OBVIOUS
  <2> HIDE DEF L
  <2>2. P(n)
    BY <1>0
  <2> QED
    BY <2>1, <2>2
<1>2. ASSUME NEW d \in 0..((Len(content) - n) - 1), d \in G
      PROVE  d + 1 \in G
  <2> DEFINE x == n + d
  <2>1. /\ x + 1 \in 1..Len(content) /\ x \in 0..Len(content) /\ (x + 1) - 1 = x
        /\ n + (d + 1) = x + 1 /\ x + 1 \in 0..Len(content) /\ x + 1 \in Nat
    OBVIOUS
  <2>2. P(x)
    BY <1>2
  <2> HIDE DEF x
  <2>3. L(x + 1) = IF content[x + 1] = "n" THEN Append(L(x), x + 1) ELSE L(x)
    BY <2>1, LineStartsDef
  <2> HIDE DEF L
  <2>4. L(x) \in Seq(Nat) /\ Len(L(x)) \in Nat /\ Len(L(n)) \in Nat
    BY <1>0, <2>1
  <2>5. CASE content[x + 1] = "n"
    <3>1. L(x + 1) = Append(L(x), x + 1)
      BY <2>3, <2>5
    <3>2. /\ Len(L(x + 1)) = Len(L(x)) + 1
          /\ \A k \in 1..Len(L(x)) : L(x + 1)[k] = L(x)[k]
      <4> DEFINE s == L(x)
                 e == x + 1
      <4>1. s \in Seq(Nat) /\ e \in Nat
        BY <2>1, <2>4
      <4> HIDE DEF s, e
      <4>2. /\ Len(Append(s, e)) = Len(s) + 1
            /\ \A k \in 1..Len(s) : Append(s, e)[k] = s[k]
        BY <4>1, Appended
      <4> QED
        BY <3>1, <4>2, Zenon DEF s, e
    <3>3. \A k \in 1..Len(L(n)) : k \in 1..Len(L(x))
      BY <2>2, <2>4
    <3>4. P(x + 1)
      BY <2>2, <2>4, <3>2, <3>3
    <3> QED
      BY <2>1, <3>4
  <2>6. CASE content[x + 1] # "n"
    <3>1. L(x + 1) = L(x)
      BY <2>3, <2>6
    <3>2. P(x + 1)
      BY <2>2, <3>1, Zenon
    <3> QED
      BY <2>1, <3>2
  <2> QED
    BY <2>5, <2>6
<1>3. Len(content) - n \in Nat /\ m - n \in 0..(Len(content) - n) /\ n + (m - n) = m
  OBVIOUS
<1>4. \A d \in 0..(Len(content) - n) : d \in G
  <2> HIDE DEF G
  <2> QED
    BY <1>1, <1>2, <1>3, Induct
<1>5. P(n + (m - n))
  BY <1>3, <1>4
<1> QED
  BY <1>3, <1>5

\* Bytes without a line feed add no line.
LEMMA LinesSame ==
  ASSUME NEW content \in Seq(Octets), NEW n \in 0..Len(content), NEW m \in n..Len(content),
         \A k \in (n + 1)..m : content[k] # "n"
  PROVE  LineStarts(content)[m] = LineStarts(content)[n]
<1> DEFINE P(x) == LineStarts(content)[x] = LineStarts(content)[n]
           G == {d \in 0..(m - n) : P(n + d)}
<1>1. 0 \in G
  <2>1. n + 0 = n
    OBVIOUS
  <2> QED
    BY <2>1
<1>2. ASSUME NEW d \in 0..((m - n) - 1), d \in G
      PROVE  d + 1 \in G
  <2> DEFINE x == n + d
  <2>1. /\ x + 1 \in 1..Len(content) /\ (x + 1) - 1 = x
        /\ n + (d + 1) = x + 1 /\ x + 1 \in (n + 1)..m
    OBVIOUS
  <2>2. P(x)
    BY <1>2
  <2> HIDE DEF x
  <2>3. LineStarts(content)[x + 1] = LineStarts(content)[x]
    BY <2>1, LineStartsDef
  <2> QED
    BY <2>1, <2>2, <2>3
<1>3. m - n \in Nat /\ m - n \in 0..(m - n) /\ n + (m - n) = m
  OBVIOUS
<1>4. \A d \in 0..(m - n) : d \in G
  <2> HIDE DEF G
  <2> QED
    BY <1>1, <1>2, <1>3, Induct
<1>5. P(n + (m - n))
  BY <1>3, <1>4
<1> QED
  BY <1>3, <1>5

\* The first loop of GetOffsetForPosition finds what the table holds.
LEMMA SkipLinesFinds ==
  ASSUME NEW content \in Seq(Octets), NEW line \in Nat
  PROVE  SkipLines(content, line) = IF line < Len(BuildLineOffsets(content))
                                    THEN BuildLineOffsets(content)[line + 1] ELSE Len(content)
<1> DEFINE N == Len(content)
           L(k) == LineStarts(content)[k]
           R == LineRounds(content, line)
           P(k) == R[k] = IF Len(L(k)) <= line
                          THEN [at |-> k, line |-> (line + 1) - Len(L(k))]
                          ELSE [at |-> L(k)[line + 1], line |-> 0]
           G == {k \in 0..N : P(k)}
<1>0. N \in Nat
  OBVIOUS
<1>1. /\ R[0] = [at |-> 0, line |-> line]
      /\ \A k \in 1..N : R[k] = LineRound(content, R[k - 1])
  BY LineRoundsDef
<1>2. \A k \in 0..N : L(k) \in Seq(Nat) /\ Len(L(k)) \in Nat \ {0}
  BY LineTable
<1>3. 0 \in G
  <2>1. L(0) = <<0>>
    BY LineStartsDef
  <2>2. Len(L(0)) = 1 /\ L(0)[1] = 0
    BY <2>1
  <2> HIDE DEF L, R
  <2>3. CASE 1 <= line
    <3>1. (line + 1) - 1 = line
      OBVIOUS
    <3>2. P(0)
      BY <1>1, <2>2, <2>3, <3>1
    <3> QED
      BY <1>0, <3>2
  <2>4. CASE line = 0
    <3>1. P(0)
      BY <1>1, <2>2, <2>4
    <3> QED
      BY <1>0, <3>1
  <2> QED
    BY <2>3, <2>4
<1>4. ASSUME NEW k \in 0..(N - 1), k \in G
      PROVE  k + 1 \in G
  <2>1. k + 1 \in 1..N /\ (k + 1) - 1 = k /\ k + 1 \in 0..N /\ k \in 0..N /\ k + 1 \in Nat
    BY <1>0
  <2>2. R[k + 1] = LineRound(content, R[k]) /\ P(k)
    <3>1. P(k)
      BY <1>4
    <3> HIDE DEF R
    <3> QED
      BY <1>1, <2>1, <3>1
  <2>3. L(k + 1) = IF content[k + 1] = "n" THEN Append(L(k), k + 1) ELSE L(k)
    BY <2>1, LineStartsDef
  <2>4. L(k) \in Seq(Nat) /\ Len(L(k)) \in Nat \ {0}
    BY <1>2, <2>1
  <2>5. /\ Len(Append(L(k), k + 1)) = Len(L(k)) + 1
        /\ Append(L(k), k + 1)[Len(L(k)) + 1] = k + 1
        /\ \A x \in 1..Len(L(k)) : Append(L(k), k + 1)[x] = L(k)[x]
    <3> DEFINE s == L(k)
               e == k + 1
    <3>1. s \in Seq(Nat) /\ e \in Nat
      BY <2>1, <2>4
    <3> HIDE DEF s, e
    <3>2. /\ Len(Append(s, e)) = Len(s) + 1
          /\ Append(s, e)[Len(s) + 1] = e
          /\ \A x \in 1..Len(s) : Append(s, e)[x] = s[x]
      BY <3>1, Appended
    <3> QED
      BY <3>2, Zenon DEF s, e
  <2> HIDE DEF L, R
  <2>6. CASE Len(L(k)) <= line
    <3> DEFINE s == R[k]
    <3>1. s = [at |-> k, line |-> (line + 1) - Len(L(k))]
      BY <2>2, <2>6
    <3>2. s.line = (line + 1) - Len(L(k)) /\ s.at = k /\ s.line # 0
      <4>1. s.line = (line + 1) - Len(L(k)) /\ s.at = k
        BY <3>1
      <4>2. (line + 1) - Len(L(k)) # 0
        BY <2>4, <2>6
      <4> QED
        BY <4>1, <4>2
    <3> HIDE DEF s
    <3>3. LineRound(content, s) = [at |-> k + 1,
                                   line |-> IF content[k + 1] = "n"
                                            THEN ((line + 1) - Len(L(k))) - 1
                                            ELSE (line + 1) - Len(L(k))]
      BY <3>2 DEF LineRound
    <3>4. CASE content[k + 1] = "n"
      <4>1. LineRound(content, s) = [at |-> k + 1, line |-> ((line + 1) - Len(L(k))) - 1]
        BY <3>3, <3>4
      <4>2. L(k + 1) = Append(L(k), k + 1)
        BY <2>3, <3>4
      <4>3. Len(L(k + 1)) = Len(L(k)) + 1 /\ L(k + 1)[Len(L(k)) + 1] = k + 1
        BY <2>5, <4>2, Zenon
      <4>4. ((line + 1) - Len(L(k))) - 1 = (line + 1) - Len(L(k + 1))
        BY <2>4, <4>3
      <4>5. CASE Len(L(k + 1)) <= line
        <5>1. R[k + 1] = [at |-> k + 1, line |-> (line + 1) - Len(L(k + 1))]
          BY <2>2, <4>1, <4>4 DEF s
        <5>2. P(k + 1)
          BY <4>5, <5>1
        <5> QED
          BY <2>1, <5>2
      <4>6. CASE ~(Len(L(k + 1)) <= line)
        <5>1. line = Len(L(k)) /\ (line + 1) - Len(L(k + 1)) = 0
          BY <2>4, <2>6, <4>3, <4>6
        <5>2. R[k + 1] = [at |-> L(k + 1)[line + 1], line |-> 0]
          BY <2>2, <4>1, <4>3, <4>4, <5>1 DEF s
        <5>3. P(k + 1)
          BY <4>6, <5>2
        <5> QED
          BY <2>1, <5>3
      <4> QED
        BY <4>5, <4>6
    <3>5. CASE content[k + 1] # "n"
      <4>1. LineRound(content, s) = [at |-> k + 1, line |-> (line + 1) - Len(L(k))]
        BY <3>3, <3>5
      <4>2. L(k + 1) = L(k)
        BY <2>3, <3>5
      <4>3. R[k + 1] = [at |-> k + 1, line |-> (line + 1) - Len(L(k + 1))] /\ Len(L(k + 1)) <= line
        BY <2>2, <2>6, <4>1, <4>2 DEF s
      <4>4. P(k + 1)
        BY <4>3
      <4> QED
        BY <2>1, <4>4
    <3> QED
      BY <3>4, <3>5
  <2>7. CASE ~(Len(L(k)) <= line)
    <3>1. R[k] = [at |-> L(k)[line + 1], line |-> 0]
      BY <2>2, <2>7
    <3>2. R[k].line = 0
      BY <3>1
    <3>3. R[k + 1] = R[k]
      BY <2>2, <3>2 DEF LineRound
    <3>4. line + 1 \in 1..Len(L(k))
      BY <2>4, <2>7
    <3>5. L(k + 1)[line + 1] = L(k)[line + 1] /\ ~(Len(L(k + 1)) <= line)
      <4>1. CASE content[k + 1] = "n"
        <5>1. L(k + 1) = Append(L(k), k + 1)
          BY <2>3, <4>1
        <5>2. L(k + 1)[line + 1] = L(k)[line + 1] /\ Len(L(k + 1)) = Len(L(k)) + 1
          BY <2>5, <3>4, <5>1, Zenon
        <5> QED
          BY <2>4, <2>7, <5>2
      <4>2. CASE content[k + 1] # "n"
        BY <2>3, <2>7, <4>2
      <4> QED
        BY <4>1, <4>2
    <3>6. P(k + 1)
      BY <3>1, <3>3, <3>5
    <3> QED
      BY <2>1, <3>6
  <2> QED
    BY <2>6, <2>7
<1>5. \A k \in 0..N : k \in G
  <2> HIDE DEF G, N
  <2> QED
    BY <1>0, <1>3, <1>4, Induct
<1>6. P(N) /\ Len(L(N)) \in Nat
  <2>1. N \in 0..N
    BY <1>0
  <2> QED
    BY <1>2, <1>5, <2>1
<1>7. SkipLines(content, line) = R[N].at /\ BuildLineOffsets(content) = L(N)
  BY DEF SkipLines, BuildLineOffsets
<1> HIDE DEF L, R, N
<1>8. R[N].at = IF Len(L(N)) <= line THEN N ELSE L(N)[line + 1]
  BY <1>6
<1>9. Len(L(N)) <= line <=> ~(line < Len(L(N)))
  BY <1>6
<1> QED
  BY <1>7, <1>8, <1>9 DEF N

\* The bytes of a character other than a line feed hold none.
LEMMA NoFeed ==
  ASSUME NEW text \in Seq(Characters), NEW i \in 1..Len(text), text[i] # "n"
  PROVE  \A k \in (Offset(text, i - 1) + 1)..Offset(text, i) : Encode(text)[k] # "n"
<1> DEFINE b == Offset(text, i - 1)
           e == Offset(text, i)
           c == EncodeChar(text[i])
           enc == Encode(text)
<1>1. text[i] \in Characters
  OBVIOUS
<1>2. /\ Len(c) \in 1..4 /\ c[1] # "n"
      /\ \A k \in 2..Len(c) : c[k] = "cont"
  BY <1>1, CharShape
<1>3. b \in Nat /\ e = b + Len(c) /\ \A k \in 1..Len(c) : enc[b + k] = c[k]
  BY CharAt
<1> HIDE DEF b, e, c, enc
<1>4. ASSUME NEW k \in (b + 1)..e
      PROVE  enc[k] # "n"
  <2>1. k - b \in 1..Len(c) /\ b + (k - b) = k
    BY <1>2, <1>3
  <2>2. enc[k] = c[k - b]
    BY <1>3, <2>1
  <2>3. c[k - b] # "n"
    <3>1. CASE k - b = 1
      BY <1>2, <3>1
    <3>2. CASE k - b # 1
      <4>1. k - b \in 2..Len(c)
        BY <1>2, <2>1, <3>2
      <4> QED
        BY <1>2, <4>1
    <3> QED
      BY <3>1, <3>2
  <2> QED
    BY <2>2, <2>3
<1> QED
  BY <1>4 DEF b, e, enc

\* The line of the cursor is the line its byte is on, and that line starts at a
\* character with the cursor in its first column.
LEMMA CursorLine ==
  ASSUME NEW text \in Seq(Characters)
  PROVE  \A i \in 0..Len(text) :
           /\ Len(LineStarts(Encode(text))[Offset(text, i)]) = Cursor(text)[i].line + 1
           /\ \E j \in 0..i : /\ LastStart(Encode(text), Offset(text, i)) = Offset(text, j)
                              /\ Cursor(text)[j].character = 0
                              /\ \A m \in (j + 1)..i : text[m] # "n"
<1> DEFINE enc == Encode(text)
           L(i) == LineStarts(enc)[Offset(text, i)]
           Starts(i, j) == /\ LastStart(enc, Offset(text, i)) = Offset(text, j)
                           /\ Cursor(text)[j].character = 0
                           /\ \A m \in (j + 1)..i : text[m] # "n"
           P(i) == /\ Len(L(i)) = Cursor(text)[i].line + 1
                   /\ \E j \in 0..i : Starts(i, j)
           G == {i \in 0..Len(text) : P(i)}
<1>0. enc \in Seq(Octets) /\ Len(text) \in Nat
  <2>1. Len(text) \in 0..Len(text)
    OBVIOUS
  <2> QED
    BY <2>1, EncodedType DEF Encode
<1>1. 0 \in G
  <2>1. Offset(text, 0) = 0
    BY OffsetZero
  <2>2. Cursor(text)[0] = [line |-> 0, character |-> 0]
    BY CursorDef
  <2>3. LineStarts(enc)[0] = <<0>>
    BY <1>0, LineStartsDef
  <2>4. Len(L(0)) = 1
    <3>1. Len(<<0>>) = 1
      OBVIOUS
    <3> QED
      BY <2>1, <2>3, <3>1, Zenon
  <2>5. LastStart(enc, 0) = 0
    BY <2>3 DEF LastStart
  <2>6. Starts(0, 0)
    BY <2>1, <2>2, <2>5
  <2>7. 0 \in 0..0 /\ 0 \in 0..Len(text)
    OBVIOUS
  <2>8. \E j \in 0..0 : Starts(0, j)
    BY <2>6, <2>7
  <2>9. Len(L(0)) = Cursor(text)[0].line + 1
    BY <2>2, <2>4
  <2> QED
    BY <2>7, <2>8, <2>9
<1>2. ASSUME NEW i \in 0..(Len(text) - 1), i \in G
      PROVE  i + 1 \in G
  <2>1. /\ i + 1 \in 1..Len(text) /\ (i + 1) - 1 = i /\ i + 1 \in 0..Len(text)
        /\ i \in 0..Len(text) /\ i + 1 \in i..Len(text) /\ text[i + 1] \in Characters
    BY <1>0
  <2>2. P(i)
    BY <1>2
  <2>3. /\ Offset(text, i) \in Nat /\ Offset(text, i + 1) \in Nat
        /\ Offset(text, i + 1) = Offset(text, i) + Len(EncodeChar(text[i + 1]))
        /\ Offset(text, i + 1) <= Len(enc)
        /\ \A k \in 1..Len(EncodeChar(text[i + 1])) :
             enc[Offset(text, i) + k] = EncodeChar(text[i + 1])[k]
    BY <2>1, CharAt, EncodedType
  <2>4. Len(EncodeChar(text[i + 1])) \in 1..4
    BY <2>1, CharShape
  <2>5. Cursor(text)[i].line \in Nat
    BY <2>1, CursorType
  <2>6. CASE text[i + 1] = "n"
    <3>1. EncodeChar(text[i + 1]) = <<"n">>
      BY <2>6 DEF EncodeChar
    <3>2. Len(EncodeChar(text[i + 1])) = 1 /\ EncodeChar(text[i + 1])[1] = "n"
      BY <3>1
    <3>3. Offset(text, i + 1) = Offset(text, i) + 1 /\ enc[Offset(text, i) + 1] = "n"
      BY <2>3, <3>2
    <3> DEFINE o == Offset(text, i)
    <3> HIDE DEF enc
    <3>4. o + 1 \in 1..Len(enc) /\ (o + 1) - 1 = o /\ o \in 0..Len(enc) /\ o + 1 \in Nat
      BY <1>0, <2>3, <3>3
    <3> HIDE DEF o
    <3>5. LineStarts(enc)[o + 1] = Append(LineStarts(enc)[o], o + 1)
      BY <1>0, <3>3, <3>4, LineStartsDef DEF o
    <3> DEFINE s == LineStarts(enc)[o]
               e == o + 1
    <3>6. s \in Seq(Nat) /\ e \in Nat
      BY <1>0, <3>4, LineTable
    <3> HIDE DEF s, e
    <3>7. Len(Append(s, e)) = Len(s) + 1 /\ Append(s, e)[Len(s) + 1] = e
      BY <3>6, Appended
    <3>8. Len(L(i + 1)) = Len(L(i)) + 1
      BY <3>3, <3>5, <3>7, Zenon DEF s, e, o
    <3>9. LastStart(enc, Offset(text, i + 1)) = Offset(text, i + 1)
      BY <3>3, <3>5, <3>7, Zenon DEF s, e, o, LastStart
    <3>10. /\ Cursor(text)[i + 1].line = Cursor(text)[i].line + 1
           /\ Cursor(text)[i + 1].character = 0
      BY <2>1, <2>6, CursorStep
    <3>11. Len(L(i + 1)) = Cursor(text)[i + 1].line + 1
      BY <2>2, <3>8, <3>10, Zenon
    <3>12. Starts(i + 1, i + 1)
      BY <2>1, <3>9, <3>10
    <3>13. i + 1 \in 0..(i + 1)
      BY <2>1
    <3>14. \E j \in 0..(i + 1) : Starts(i + 1, j)
      BY <3>12, <3>13
    <3> QED
      BY <2>1, <3>11, <3>14
  <2>7. CASE text[i + 1] # "n"
    <3>1. \A k \in (Offset(text, i) + 1)..Offset(text, i + 1) : enc[k] # "n"
      BY <2>1, <2>7, NoFeed
    <3>2. Offset(text, i) \in 0..Len(enc) /\ Offset(text, i + 1) \in Offset(text, i)..Len(enc)
      <4> HIDE DEF enc
      <4> QED
        BY <1>0, <2>3, <2>4
    <3>3. LineStarts(enc)[Offset(text, i + 1)] = LineStarts(enc)[Offset(text, i)]
      <4> HIDE DEF enc
      <4> QED
        BY <1>0, <3>1, <3>2, LinesSame
    <3>4. Cursor(text)[i + 1].line = Cursor(text)[i].line
      BY <2>1, <2>7, CursorStep
    <3>5. Len(L(i + 1)) = Cursor(text)[i + 1].line + 1
      BY <2>2, <3>3, <3>4
    <3>6. PICK j \in 0..i : Starts(i, j)
      BY <2>2
    <3>7. LastStart(enc, Offset(text, i + 1)) = LastStart(enc, Offset(text, i))
      BY <3>3 DEF LastStart
    <3>8. ASSUME NEW m \in (j + 1)..(i + 1)
          PROVE  text[m] # "n"
      <4>1. CASE m = i + 1
        BY <2>7, <4>1
      <4>2. CASE m # i + 1
        <5>1. m \in (j + 1)..i
          BY <4>2
        <5> QED
          BY <3>6, <5>1
      <4> QED
        BY <4>1, <4>2
    <3>9. Starts(i + 1, j)
      BY <3>6, <3>7, <3>8
    <3>10. j \in 0..(i + 1)
      OBVIOUS
    <3>11. \E n \in 0..(i + 1) : Starts(i + 1, n)
      BY <3>9, <3>10
    <3> QED
      BY <2>1, <3>5, <3>11
  <2> QED
    BY <2>6, <2>7
<1>3. \A i \in 0..Len(text) : i \in G
  <2> HIDE DEF G
  <2> QED
    BY <1>0, <1>1, <1>2, Induct
<1> QED
  BY <1>3

\* A cursor leads to its byte.
LEMMA CursorFound ==
  ASSUME NEW text \in Seq(Characters), NEW i \in 0..Len(text)
  PROVE  /\ GetOffsetForPosition(Cursor(text)[i], Encode(text)) = Offset(text, i)
         /\ \A file : file.content = Encode(text) /\ file.lineOffsets = BuildLineOffsets(Encode(text)) =>
              CachedOffsetForPosition(file, Cursor(text)[i]) = Offset(text, i)
<1> DEFINE enc == Encode(text)
           o == Offset(text, i)
           p == Cursor(text)[i]
           T == BuildLineOffsets(enc)
<1>1. enc \in Seq(Octets) /\ Len(enc) \in Nat
  <2>1. Len(text) \in 0..Len(text)
    OBVIOUS
  <2> QED
    BY <2>1, EncodedType DEF Encode
<1>2. o \in 0..Len(enc) /\ Len(enc) \in o..Len(enc)
  <2>1. i \in i..Len(text)
    OBVIOUS
  <2>2. o \in Nat /\ o <= Len(enc)
    BY <2>1, OffsetGrows
  <2> QED
    BY <1>1, <2>2
<1>3. p.line \in Nat /\ p.character \in Nat
  BY CursorType
<1>4. /\ Len(LineStarts(enc)[o]) = p.line + 1
      /\ \E j \in 0..i : /\ LastStart(enc, o) = Offset(text, j)
                         /\ Cursor(text)[j].character = 0
                         /\ \A m \in (j + 1)..i : text[m] # "n"
  BY CursorLine
<1>5. PICK j \in 0..i : /\ LastStart(enc, o) = Offset(text, j)
                        /\ Cursor(text)[j].character = 0
                        /\ \A m \in (j + 1)..i : text[m] # "n"
  BY <1>4
<1>6. T[p.line + 1] = Offset(text, j) /\ p.line < Len(T)
  <2> HIDE DEF enc, o, p
  <2>1. T = LineStarts(enc)[Len(enc)]
    BY DEF BuildLineOffsets
  <2>2. /\ Len(LineStarts(enc)[o]) <= Len(T)
        /\ \A k \in 1..Len(LineStarts(enc)[o]) : T[k] = LineStarts(enc)[o][k]
    BY <1>1, <1>2, <2>1, LinesGrow
  <2>3. Len(T) \in Nat
    <3>1. Len(enc) \in 0..Len(enc)
      BY <1>1
    <3> QED
      BY <1>1, <2>1, <3>1, LineTable
  <2> HIDE DEF T
  <2>4. p.line + 1 \in 1..Len(LineStarts(enc)[o])
    BY <1>3, <1>4
  <2>5. T[p.line + 1] = LineStarts(enc)[o][p.line + 1]
    BY <2>2, <2>4
  <2>6. LineStarts(enc)[o][p.line + 1] = LastStart(enc, o)
    BY <1>4 DEF LastStart
  <2>7. p.line < Len(T)
    BY <1>3, <1>4, <2>2, <2>3
  <2> QED
    BY <1>5, <2>5, <2>6, <2>7
<1>7. Advance(enc, Offset(text, j), p.character) = o
  <2>1. j \in 0..Len(text) /\ i \in j..Len(text)
    OBVIOUS
  <2>2. Advance(enc, Offset(text, j), p.character - Cursor(text)[j].character) = o
    BY <1>5, <2>1, AdvanceChars
  <2>3. p.character - Cursor(text)[j].character = p.character
    BY <1>3, <1>5
  <2> QED
    BY <2>2, <2>3
<1>8. SkipLines(enc, p.line) = Offset(text, j)
  <2> HIDE DEF enc, p
  <2>1. SkipLines(enc, p.line) = IF p.line < Len(T) THEN T[p.line + 1] ELSE Len(enc)
    BY <1>1, <1>3, SkipLinesFinds
  <2> HIDE DEF T
  <2> QED
    BY <1>6, <2>1
<1>9. GetOffsetForPosition(p, enc) = o
  BY <1>7, <1>8 DEF GetOffsetForPosition
<1>10. ASSUME NEW file, file.content = enc, file.lineOffsets = T
       PROVE  CachedOffsetForPosition(file, p) = o
  <2> HIDE DEF T, enc, p, o
  <2>1. p.line < Len(file.lineOffsets) /\ file.lineOffsets[p.line + 1] = Offset(text, j)
    BY <1>6, <1>10
  <2>2. CachedOffsetForPosition(file, p) = Advance(file.content, Offset(text, j), p.character)
    BY <2>1 DEF CachedOffsetForPosition
  <2> QED
    BY <1>7, <1>10, <2>2
<1> QED
  BY <1>9, <1>10

\* Continuation bytes do not move a position.
LEMMA PositionsSame ==
  ASSUME NEW content \in Seq(Octets), NEW n \in 0..Len(content), NEW m \in n..Len(content),
         \A k \in (n + 1)..m : content[k] = "cont"
  PROVE  Positions(content)[m] = Positions(content)[n]
<1> DEFINE P(x) == Positions(content)[x] = Positions(content)[n]
           G == {d \in 0..(m - n) : P(n + d)}
<1>1. 0 \in G
  <2>1. n + 0 = n
    OBVIOUS
  <2> QED
    BY <2>1
<1>2. ASSUME NEW d \in 0..((m - n) - 1), d \in G
      PROVE  d + 1 \in G
  <2> DEFINE x == n + d
  <2>1. /\ x + 1 \in 1..Len(content) /\ (x + 1) - 1 = x
        /\ n + (d + 1) = x + 1 /\ x + 1 \in (n + 1)..m
    OBVIOUS
  <2>2. P(x)
    BY <1>2
  <2> HIDE DEF x
  <2>3. Positions(content)[x + 1] = Pass(Positions(content)[x], "cont")
    BY <2>1, PositionsDef
  <2>4. Positions(content)[x + 1] = Positions(content)[x]
    BY <2>3 DEF Pass
  <2> QED
    BY <2>1, <2>2, <2>4
<1>3. m - n \in Nat /\ m - n \in 0..(m - n) /\ n + (m - n) = m
  OBVIOUS
<1>4. \A d \in 0..(m - n) : d \in G
  <2> HIDE DEF G
  <2> QED
    BY <1>1, <1>2, <1>3, Induct
<1>5. P(n + (m - n))
  BY <1>3, <1>4
<1> QED
  BY <1>3, <1>5

\* The position of a character's offset is the cursor before it.
LEMMA PositionOfOffset ==
  ASSUME NEW text \in Seq(Characters)
  PROVE  \A i \in 0..Len(text) : Positions(Encode(text))[Offset(text, i)] = Cursor(text)[i]
<1> DEFINE enc == Encode(text)
           G == {i \in 0..Len(text) : Positions(enc)[Offset(text, i)] = Cursor(text)[i]}
<1>0. enc \in Seq(Octets) /\ Len(text) \in Nat
  <2>1. Len(text) \in 0..Len(text)
    OBVIOUS
  <2> QED
    BY <2>1, EncodedType DEF Encode
<1>1. 0 \in G
  <2>1. Positions(enc)[0] = [line |-> 0, character |-> 0]
    BY <1>0, PositionsDef
  <2>2. Cursor(text)[0] = [line |-> 0, character |-> 0]
    BY CursorDef
  <2>3. Positions(enc)[Offset(text, 0)] = Cursor(text)[0]
    BY <2>1, <2>2, OffsetZero, Zenon
  <2>4. 0 \in 0..Len(text)
    BY <1>0
  <2> QED
    BY <2>3, <2>4
<1>2. ASSUME NEW i \in 0..(Len(text) - 1), i \in G
      PROVE  i + 1 \in G
  <2> DEFINE o == Offset(text, i)
             e == Offset(text, i + 1)
             c == EncodeChar(text[i + 1])
             before == Cursor(text)[i]
  <2>1. /\ i + 1 \in 1..Len(text) /\ (i + 1) - 1 = i /\ i + 1 \in 0..Len(text)
        /\ text[i + 1] \in Characters
    BY <1>0
  <2>2. Positions(enc)[o] = before
    BY <1>2
  <2>3. o \in Nat /\ e = o + Len(c) /\ e <= Len(enc) /\ \A k \in 1..Len(c) : enc[o + k] = c[k]
    BY <2>1, CharAt
  <2>4. /\ Len(c) \in 1..4 /\ c[1] # "cont"
        /\ c[1] = "n" <=> text[i + 1] = "n"
        /\ Units(c[1]) = CharUnits(text[i + 1])
        /\ \A k \in 2..Len(c) : c[k] = "cont"
    BY <2>1, CharShape
  <2>5. Cursor(text)[i + 1] = IF text[i + 1] = "n"
                              THEN [line |-> before.line + 1, character |-> 0]
                              ELSE [line |-> before.line,
                                    character |-> before.character
                                                    + (IF text[i + 1] = "g" THEN 2 ELSE 1)]
    BY <2>1, CursorDef
  <2> HIDE DEF o, e, c, enc, before
  <2>6. o + 1 \in 1..Len(enc) /\ (o + 1) - 1 = o /\ o + 1 \in 0..Len(enc) /\ e \in (o + 1)..Len(enc)
    BY <1>0, <2>3, <2>4
  <2>7. enc[o + 1] = c[1]
    BY <2>3, <2>4
  <2>8. Positions(enc)[o + 1] = Pass(before, c[1])
    BY <1>0, <2>2, <2>6, <2>7, PositionsDef
  <2>9. \A k \in ((o + 1) + 1)..e : enc[k] = "cont"
    <3> SUFFICES ASSUME NEW k \in ((o + 1) + 1)..e
                 PROVE  enc[k] = "cont"
      OBVIOUS
    <3>1. k - o \in 2..Len(c) /\ o + (k - o) = k
      BY <2>3, <2>4
    <3>2. k - o \in 1..Len(c)
      BY <2>4, <3>1
    <3>3. enc[o + (k - o)] = c[k - o]
      BY <2>3, <3>2
    <3> QED
      BY <2>4, <3>1, <3>3
  <2>10. Positions(enc)[e] = Positions(enc)[o + 1]
    BY <1>0, <2>6, <2>9, PositionsSame
  <2>11. Pass(before, c[1]) = Cursor(text)[i + 1]
    BY <2>4, <2>5 DEF Pass, CharUnits
  <2> QED
    BY <2>1, <2>8, <2>10, <2>11 DEF e
<1>3. \A i \in 0..Len(text) : i \in G
  <2> HIDE DEF G
  <2> QED
    BY <1>0, <1>1, <1>2, Induct
<1> QED
  BY <1>3

\* The bytes that do not continue a character are where characters begin.
LEMMA OffsetIsChar ==
  ASSUME NEW text \in Seq(Characters), NEW o \in 0..Len(Encode(text)),
         o = Len(Encode(text)) \/ Encode(text)[o + 1] # "cont"
  PROVE  \E i \in 0..Len(text) : o = Offset(text, i)
<1> DEFINE enc == Encode(text)
           T == {i \in 0..Len(text) : Offset(text, i) >= o}
<1>0. /\ enc \in Seq(Octets) /\ Len(text) \in Nat /\ Len(enc) \in Nat
      /\ Len(enc) = Offset(text, Len(text)) /\ o \in Nat
  <2>1. Len(text) \in 0..Len(text)
    OBVIOUS
  <2>2. enc \in Seq(Octets) /\ Len(enc) = Offset(text, Len(text))
    BY <2>1, EncodedType DEF Encode, Offset
  <2> HIDE DEF enc
  <2> QED
    BY <2>2 DEF enc
<1>1. Len(text) \in T /\ T \in SUBSET Nat
  <2>1. Offset(text, Len(text)) >= o
    BY <1>0
  <2> QED
    BY <1>0, <2>1
<1>2. PICK i \in T : \A y \in T : i <= y
  <2> HIDE DEF T
  <2> QED
    BY <1>1, LeastNat
<1>3. i \in 0..Len(text) /\ Offset(text, i) >= o
  OBVIOUS
<1>4. CASE i = 0
  <2>1. o = Offset(text, i)
    BY <1>0, <1>3, <1>4, OffsetZero
  <2> QED
    BY <1>3, <2>1
<1>5. CASE i # 0
  <2> DEFINE b == Offset(text, i - 1)
             e == Offset(text, i)
             c == EncodeChar(text[i])
  <2>1. i \in 1..Len(text) /\ i - 1 \in 0..Len(text) /\ ~(i <= i - 1)
    BY <1>3, <1>5
  <2>2. i - 1 \notin T
    <3> HIDE DEF T
    <3> QED
      BY <1>2, <2>1
  <2>3. ~(b >= o)
    BY <2>1, <2>2
  <2>4. b \in Nat /\ e = b + Len(c) /\ e <= Len(enc) /\ \A k \in 1..Len(c) : enc[b + k] = c[k]
    BY <2>1, CharAt
  <2>5. text[i] \in Characters
    BY <2>1
  <2>6. Len(c) \in 1..4 /\ \A k \in 2..Len(c) : c[k] = "cont"
    BY <2>5, CharShape
  <2>7. e >= o
    BY <1>3
  <2> HIDE DEF b, e, c, enc
  <2>8. CASE o = e
    BY <1>3, <2>8 DEF e
  <2>9. CASE o # e
    <3>1. (o + 1) - b \in 2..Len(c) /\ b + ((o + 1) - b) = o + 1 /\ o # Len(enc)
      BY <1>0, <2>3, <2>4, <2>6, <2>7, <2>9
    <3>2. (o + 1) - b \in 1..Len(c)
      BY <2>6, <3>1
    <3>3. enc[b + ((o + 1) - b)] = c[(o + 1) - b]
      BY <2>4, <3>2
    <3>4. enc[o + 1] = "cont"
      BY <2>6, <3>1, <3>3
    <3> QED
      BY <3>1, <3>4 DEF enc
  <2> QED
    BY <2>8, <2>9
<1> QED
  BY <1>4, <1>5

\* The scan in UTF-8 units knows the line of a byte and where it starts.
LEMMA Utf8LinesAre ==
  ASSUME NEW content \in Seq(Octets)
  PROVE  \A n \in 0..Len(content) :
           Utf8Lines(content)[n] = [line |-> Len(LineStarts(content)[n]) - 1,
                                    start |-> LastStart(content, n)]
<1> DEFINE L(n) == LineStarts(content)[n]
           U(n) == Utf8Lines(content)[n]
           is(n) == [line |-> Len(L(n)) - 1, start |-> L(n)[Len(L(n))]]
           G == {n \in 0..Len(content) : U(n) = is(n)}
<1>0. Len(content) \in Nat
  OBVIOUS
<1>1. 0 \in G
  <2>1. L(0) = <<0>> /\ U(0) = [line |-> 0, start |-> 0]
    BY LineStartsDef, Utf8LinesDef
  <2>2. Len(<<0>>) = 1 /\ <<0>>[1] = 0
    OBVIOUS
  <2> HIDE DEF L, U
  <2>3. Len(L(0)) - 1 = 0 /\ L(0)[Len(L(0))] = 0
    <3>1. Len(L(0)) = 1 /\ L(0)[1] = 0
      BY <2>1, <2>2, Zenon
    <3> QED
      BY <3>1
  <2>4. U(0) = is(0)
    BY <2>1, <2>3
  <2> QED
    BY <1>0, <2>4
<1>2. ASSUME NEW n \in 0..(Len(content) - 1), n \in G
      PROVE  n + 1 \in G
  <2>1. n + 1 \in 1..Len(content) /\ (n + 1) - 1 = n /\ n + 1 \in 0..Len(content) /\ n \in 0..Len(content)
    BY <1>0
  <2>2. U(n) = is(n)
    BY <1>2
  <2>3. /\ L(n + 1) = IF content[n + 1] = "n" THEN Append(L(n), n + 1) ELSE L(n)
        /\ U(n + 1) = PassUtf8(U(n), n + 1, content[n + 1])
    BY <2>1, LineStartsDef, Utf8LinesDef
  <2>4. L(n) \in Seq(Nat) /\ Len(L(n)) \in Nat
    BY <2>1, LineTable
  <2> HIDE DEF L, U
  <2>5. CASE content[n + 1] = "n"
    <3>1. L(n + 1) = Append(L(n), n + 1)
      BY <2>3, <2>5
    <3> DEFINE s == L(n)
               e == n + 1
    <3>2. s \in Seq(Nat) /\ e \in Nat
      BY <2>1, <2>4
    <3> HIDE DEF s, e
    <3>3. Len(Append(s, e)) = Len(s) + 1 /\ Append(s, e)[Len(s) + 1] = e
      BY <3>2, Appended
    <3>4. Len(L(n + 1)) = Len(L(n)) + 1 /\ L(n + 1)[Len(L(n + 1))] = n + 1
      BY <3>1, <3>3, Zenon DEF s, e
    <3>5. U(n).line + 1 = Len(L(n + 1)) - 1
      BY <2>2, <2>4, <3>4
    <3>6. U(n + 1) = [line |-> U(n).line + 1, start |-> n + 1]
      BY <2>3, <2>5 DEF PassUtf8
    <3>7. U(n + 1) = is(n + 1)
      BY <3>4, <3>5, <3>6
    <3> QED
      BY <2>1, <3>7
  <2>6. CASE content[n + 1] # "n"
    <3>1. L(n + 1) = L(n) /\ U(n + 1) = U(n)
      BY <2>3, <2>6 DEF PassUtf8
    <3>2. U(n + 1) = is(n + 1)
      BY <2>2, <3>1
    <3> QED
      BY <2>1, <3>2
  <2> QED
    BY <2>5, <2>6
<1>3. \A n \in 0..Len(content) : n \in G
  <2> HIDE DEF G
  <2> QED
    BY <1>0, <1>1, <1>2, Induct
<1> QED
  BY <1>3 DEF LastStart

\* A position in UTF-8 units leads back to its byte.
LEMMA Utf8Back ==
  ASSUME NEW content \in Seq(Octets), NEW o \in 0..Len(content)
  PROVE  Utf8OffsetForPosition(Utf8PositionForOffset(o, content), content) = o
<1> DEFINE L(n) == LineStarts(content)[n]
           N == Len(content)
           last == LastStart(content, o)
           p == Utf8PositionForOffset(o, content)
<1>1. N \in Nat /\ N \in 0..N /\ N \in o..N
  OBVIOUS
<1>2. Utf8Lines(content)[o] = [line |-> Len(L(o)) - 1, start |-> last]
  BY Utf8LinesAre
<1>3. Len(L(o)) \in Nat \ {0} /\ last \in 0..o /\ Len(L(N)) \in Nat
  BY <1>1, LineTable
<1>4. Len(L(o)) <= Len(L(N)) /\ \A k \in 1..Len(L(o)) : L(N)[k] = L(o)[k]
  BY <1>1, LinesGrow
<1>5. last = L(o)[Len(L(o))] /\ BuildLineOffsets(content) = L(N)
  BY DEF LastStart, BuildLineOffsets
<1> HIDE DEF L, last
<1>6. p = [line |-> Len(L(o)) - 1, character |-> o - last]
  BY <1>2 DEF Utf8PositionForOffset
<1>7. p.line = Len(L(o)) - 1 /\ p.character = o - last /\ p.line \in Nat
  BY <1>3, <1>6
<1> HIDE DEF p, N
<1>8. SkipLines(content, p.line) = IF p.line < Len(L(N)) THEN L(N)[p.line + 1] ELSE N
  BY <1>5, <1>7, SkipLinesFinds DEF N
<1>9. p.line + 1 = Len(L(o)) /\ p.line < Len(L(N)) /\ Len(L(o)) \in 1..Len(L(o))
  BY <1>3, <1>4, <1>7
<1>10. SkipLines(content, p.line) = last
  BY <1>4, <1>5, <1>8, <1>9
<1>11. last + (o - last) = o
  BY <1>3
<1> QED
  BY <1>7, <1>10, <1>11 DEF Utf8OffsetForPosition, p

-----------------------------------------------------------------------------
(***************************************************************************)
(* An edit of the text and of its bytes.                                   *)
(***************************************************************************)
LEMMA Parts ==
  ASSUME NEW S, NEW s \in Seq(S), NEW i \in 0..Len(s)
  PROVE  /\ SubSeq(s, 1, i) \in Seq(S) /\ Len(SubSeq(s, 1, i)) = i
         /\ SubSeq(s, i + 1, Len(s)) \in Seq(S)
         /\ Len(SubSeq(s, i + 1, Len(s))) = Len(s) - i
         /\ s = SubSeq(s, 1, i) \o SubSeq(s, i + 1, Len(s))
<1>1. Len(s) \in Nat /\ i \in Int /\ i + 1 \in Int /\ Len(s) \in Int /\ 1 \in Int
  OBVIOUS
<1>2. (\A k \in 1..i : s[k] \in S) /\ (\A k \in (i + 1)..Len(s) : s[k] \in S)
  OBVIOUS
<1>3. /\ SubSeq(s, 1, i) \in Seq(S)
      /\ Len(SubSeq(s, 1, i)) = IF 1 <= i THEN (i - 1) + 1 ELSE 0
  BY <1>1, <1>2, SubSeqProperties
<1>4. /\ SubSeq(s, i + 1, Len(s)) \in Seq(S)
      /\ Len(SubSeq(s, i + 1, Len(s))) = IF i + 1 <= Len(s) THEN (Len(s) - (i + 1)) + 1 ELSE 0
  BY <1>1, <1>2, SubSeqProperties
<1>5. SubSeq(s, 1, i) \o SubSeq(s, i + 1, Len(s)) = SubSeq(s, 1, Len(s))
  <2>1. 1 \in 1..(Len(s) + 1) /\ i \in (1 - 1)..Len(s) /\ Len(s) \in i..Len(s)
    OBVIOUS
  <2> QED
    BY <2>1, ConcatAdjacentSubSeq
<1>6. SubSeq(s, 1, Len(s)) = s
  BY SubSeqFull
<1>7. Len(SubSeq(s, 1, i)) = i
  BY <1>3
<1>8. Len(SubSeq(s, i + 1, Len(s))) = Len(s) - i
  BY <1>4
<1> QED
  BY <1>3, <1>4, <1>5, <1>6, <1>7, <1>8, Zenon

LEMMA Halves ==
  ASSUME NEW S, NEW s \in Seq(S), NEW t \in Seq(S)
  PROVE  /\ SubSeq(s \o t, 1, Len(s)) = s
         /\ SubSeq(s \o t, Len(s) + 1, Len(s \o t)) = t
<1> DEFINE u == s \o t
           p == SubSeq(u, 1, Len(s))
           q == SubSeq(u, Len(s) + 1, Len(u))
<1>1. /\ u \in Seq(S) /\ Len(u) = Len(s) + Len(t) /\ Len(s) \in Nat /\ Len(t) \in Nat
      /\ \A k \in 1..Len(s) : u[k] = s[k]
      /\ \A k \in 1..Len(t) : u[Len(s) + k] = t[k]
  BY Joined
<1> HIDE DEF u
<1>2. Len(s) \in 0..Len(u) /\ Len(u) - Len(s) = Len(t)
  BY <1>1
<1>3. p \in Seq(S) /\ Len(p) = Len(s) /\ q \in Seq(S) /\ Len(q) = Len(t)
  BY <1>1, <1>2, Parts
<1>4. \A k \in 1..Len(s) : p[k] = s[k]
  <2>1. \A k \in 1..Len(s) : p[k] = u[k]
    BY <1>1, <1>3
  <2> QED
    BY <1>1, <2>1
<1>5. \A k \in 1..Len(t) : q[k] = t[k]
  <2>1. \A k \in 1..Len(t) : q[k] = u[Len(s) + k]
    <3> SUFFICES ASSUME NEW k \in 1..Len(t)
                 PROVE  q[k] = u[Len(s) + k]
      OBVIOUS
    <3>1. (\A x \in (Len(s) + 1)..Len(u) : u[x] \in S) /\ Len(s) + 1 \in Int /\ Len(u) \in Int
      BY <1>1
    <3>2. \A x \in 1..((Len(u) - (Len(s) + 1)) + 1) : q[x] = u[((Len(s) + 1) + x) - 1]
      BY <3>1, SubSeqProperties
    <3>3. k \in 1..((Len(u) - (Len(s) + 1)) + 1) /\ ((Len(s) + 1) + k) - 1 = Len(s) + k
      BY <1>1
    <3> HIDE DEF q
    <3> QED
      BY <3>2, <3>3
  <2> QED
    BY <1>1, <2>1
<1> HIDE DEF p, q
<1>6. p = s
  BY <1>3, <1>4, SeqEqual
<1>7. q = t
  BY <1>3, <1>5, SeqEqual
<1> QED
  BY <1>6, <1>7 DEF p, q, u

\* The bytes of two texts one after the other.
LEMMA EncodeJoined ==
  ASSUME NEW s \in Seq(Characters), NEW t \in Seq(Characters)
  PROVE  /\ Encode(s \o t) = Encode(s) \o Encode(t)
         /\ Offset(s \o t, Len(s)) = Len(Encode(s))
<1> DEFINE u == s \o t
           G == {i \in 0..Len(s) : Encoded(u)[i] = Encoded(s)[i]}
           H == {k \in 0..Len(t) : Encoded(u)[Len(s) + k] = Encode(s) \o Encoded(t)[k]}
<1>1. /\ u \in Seq(Characters) /\ Len(u) = Len(s) + Len(t) /\ Len(s) \in Nat /\ Len(t) \in Nat
      /\ \A k \in 1..Len(s) : u[k] = s[k]
      /\ \A k \in 1..Len(t) : u[Len(s) + k] = t[k]
  BY Joined
<1> HIDE DEF u
<1>2. 0 \in G
  <2>1. Encoded(u)[0] = Encoded(s)[0]
    BY <1>1, EncodedDef
  <2> QED
    BY <1>1, <2>1
<1>3. ASSUME NEW i \in 0..(Len(s) - 1), i \in G
      PROVE  i + 1 \in G
  <2>1. /\ i + 1 \in 1..Len(s) /\ i + 1 \in 1..Len(u) /\ (i + 1) - 1 = i /\ i + 1 \in 0..Len(s)
    BY <1>1
  <2>2. Encoded(u)[i] = Encoded(s)[i]
    BY <1>3
  <2>3. Encoded(u)[i + 1] = Encoded(u)[i] \o EncodeChar(u[i + 1])
    BY <1>1, <2>1, EncodedDef
  <2>4. Encoded(s)[i + 1] = Encoded(s)[i] \o EncodeChar(s[i + 1])
    BY <2>1, EncodedDef
  <2>5. u[i + 1] = s[i + 1]
    BY <1>1, <2>1
  <2>6. Encoded(u)[i + 1] = Encoded(s)[i + 1]
    BY <2>2, <2>3, <2>4, <2>5, Zenon
  <2> QED
    BY <2>1, <2>6
<1>4. \A i \in 0..Len(s) : i \in G
  <2> HIDE DEF G
  <2> QED
    BY <1>1, <1>2, <1>3, Induct
<1>5. Encoded(u)[Len(s)] = Encode(s)
  <2>1. Len(s) \in 0..Len(s)
    BY <1>1
  <2> QED
    BY <1>4, <2>1 DEF Encode
<1>6. Encode(s) \in Seq(Octets)
  <2>1. Len(s) \in 0..Len(s)
    BY <1>1
  <2> QED
    BY <2>1, EncodedType DEF Encode
<1>7. 0 \in H
  <2>1. Encoded(t)[0] = <<>>
    BY EncodedDef
  <2>2. Encode(s) \o <<>> = Encode(s)
    BY <1>6, ConcatEmptySeq
  <2>3. Len(s) + 0 = Len(s)
    BY <1>1
  <2>4. Encoded(u)[Len(s) + 0] = Encode(s) \o Encoded(t)[0]
    BY <1>5, <2>1, <2>2, <2>3, Zenon
  <2>5. 0 \in 0..Len(t)
    BY <1>1
  <2> QED
    BY <2>4, <2>5
<1>8. ASSUME NEW k \in 0..(Len(t) - 1), k \in H
      PROVE  k + 1 \in H
  <2> DEFINE x == Len(s) + k
             c == EncodeChar(t[k + 1])
             a == Encode(s)
             b == Encoded(t)[k]
  <2>1. /\ k + 1 \in 1..Len(t) /\ (k + 1) - 1 = k /\ k + 1 \in 0..Len(t) /\ k \in 0..Len(t)
        /\ x + 1 \in 1..Len(u) /\ (x + 1) - 1 = x /\ Len(s) + (k + 1) = x + 1
    BY <1>1
  <2>2. Encoded(u)[x] = a \o b
    BY <1>8
  <2>3. Encoded(u)[x + 1] = Encoded(u)[x] \o EncodeChar(u[x + 1])
    BY <1>1, <2>1, EncodedDef
  <2>4. Encoded(t)[k + 1] = b \o c
    BY <2>1, EncodedDef
  <2>5. u[x + 1] = t[k + 1]
    BY <1>1, <2>1
  <2>6. t[k + 1] \in Characters
    BY <2>1
  <2>7. c \in Seq(Octets) /\ b \in Seq(Octets)
    BY <2>1, <2>6, CharBytes, EncodedType
  <2>8. Encoded(u)[x + 1] = (a \o b) \o c
    BY <2>2, <2>3, <2>5, Zenon
  <2> HIDE DEF a, b, c, x
  <2>9. (a \o b) \o c = a \o (b \o c)
    BY <1>6, <2>7, ConcatAssociative DEF a
  <2>10. Encoded(u)[Len(s) + (k + 1)] = Encode(s) \o Encoded(t)[k + 1]
    BY <2>1, <2>4, <2>8, <2>9, Zenon DEF a
  <2> QED
    BY <2>1, <2>10
<1>9. \A k \in 0..Len(t) : k \in H
  <2> HIDE DEF H
  <2> QED
    BY <1>1, <1>7, <1>8, Induct
<1>10. Encoded(u)[Len(u)] = Encode(s) \o Encoded(t)[Len(t)]
  <2>1. Len(t) \in 0..Len(t)
    BY <1>1
  <2>2. Encoded(u)[Len(s) + Len(t)] = Encode(s) \o Encoded(t)[Len(t)]
    BY <1>9, <2>1
  <2> QED
    BY <1>1, <2>2, Zenon
<1> QED
  BY <1>5, <1>10 DEF Encode, Offset, u

\* The bytes of the characters before, and of those from, character i + 1.
LEMMA EncodeParts ==
  ASSUME NEW text \in Seq(Characters), NEW i \in 0..Len(text)
  PROVE  /\ SubSeq(Encode(text), 1, Offset(text, i)) = Encode(SubSeq(text, 1, i))
         /\ SubSeq(Encode(text), Offset(text, i) + 1, Len(Encode(text)))
              = Encode(SubSeq(text, i + 1, Len(text)))
<1> DEFINE p == SubSeq(text, 1, i)
           q == SubSeq(text, i + 1, Len(text))
           a == Encode(p)
           b == Encode(q)
<1>1. p \in Seq(Characters) /\ Len(p) = i /\ q \in Seq(Characters) /\ text = p \o q
  BY Parts
<1> HIDE DEF p, q
<1>2. Encode(p \o q) = a \o b /\ Offset(p \o q, Len(p)) = Len(a)
  BY <1>1, EncodeJoined
<1>3. Encode(text) = a \o b /\ Offset(text, i) = Len(a)
  BY <1>1, <1>2
<1>4. a \in Seq(Octets) /\ b \in Seq(Octets)
  <2>1. Len(p) \in 0..Len(p) /\ Len(q) \in 0..Len(q)
    BY <1>1
  <2> QED
    BY <1>1, <2>1, EncodedType DEF Encode
<1> HIDE DEF a, b
<1>5. SubSeq(a \o b, 1, Len(a)) = a /\ SubSeq(a \o b, Len(a) + 1, Len(a \o b)) = b
  BY <1>4, Halves
<1> QED
  BY <1>3, <1>5, Zenon DEF a, b, p, q

-----------------------------------------------------------------------------
(***************************************************************************)
(* The server's copy of a document.                                        *)
(***************************************************************************)
Copies == [content : Seq(Octets), lineOffsets : Seq(Nat), version : Nat, counter : Nat]

Mirror(file, text) ==
    /\ file \in Copies
    /\ file.content = Encode(text)
    /\ file.lineOffsets = BuildLineOffsets(Encode(text))

LEMMA EncodeType ==
  ASSUME NEW text \in Seq(Characters)
  PROVE  Encode(text) \in Seq(Octets) /\ BuildLineOffsets(Encode(text)) \in Seq(Nat)
<1> DEFINE enc == Encode(text)
<1>1. enc \in Seq(Octets)
  <2>1. Len(text) \in 0..Len(text)
    OBVIOUS
  <2> QED
    BY <2>1, EncodedType DEF Encode
<1> HIDE DEF enc
<1>2. Len(enc) \in 0..Len(enc)
  BY <1>1
<1>3. BuildLineOffsets(enc) \in Seq(Nat)
  BY <1>1, <1>2, LineTable DEF BuildLineOffsets
<1> QED
  BY <1>1, <1>3 DEF enc

LEMMA OpenedMirrors ==
  ASSUME NEW text \in Seq(Characters)
  PROVE  /\ Mirror(WorkingFile(Encode(text)), text)
         /\ \A v \in Nat, n \in Nat :
              /\ Mirror([WorkingFile(Encode(text)) EXCEPT !.version = v, !.counter = n], text)
              /\ [WorkingFile(Encode(text)) EXCEPT !.version = v, !.counter = n].version = v
<1> DEFINE enc == Encode(text)
           T == BuildLineOffsets(enc)
           w == WorkingFile(enc)
<1>1. enc \in Seq(Octets) /\ T \in Seq(Nat)
  BY EncodeType
<1>2. w = [content |-> enc, lineOffsets |-> T, version |-> 0, counter |-> 0]
  BY DEF WorkingFile
<1> HIDE DEF w, T, enc
<1>3. w \in Copies /\ w.content = enc /\ w.lineOffsets = T
  BY <1>1, <1>2 DEF Copies
<1>4. ASSUME NEW v \in Nat, NEW n \in Nat
      PROVE  LET x == [w EXCEPT !.version = v, !.counter = n]
             IN x \in Copies /\ x.content = enc /\ x.lineOffsets = T /\ x.version = v
  BY <1>1, <1>2 DEF Copies
<1> QED
  BY <1>3, <1>4 DEF Mirror, w, T, enc

LEMMA EditedType ==
  ASSUME NEW text \in Seq(Characters), NEW d \in Diffs, Fits(d, text)
  PROVE  /\ Edited(text, d) \in Seq(Characters)
         /\ d.text \in Seq(Characters)
         /\ d.from \in 0..Len(text) /\ d.to \in 0..Len(text)
         /\ d.whole \in BOOLEAN
<1>1. /\ d.text \in Seq(Characters) /\ d.from \in Nat /\ d.to \in Nat /\ d.from <= d.to
      /\ d.to <= Len(text) /\ d.whole \in BOOLEAN
  BY DocumentAssumption DEF Diffs, Fits
<1>2. d.from \in 0..Len(text) /\ d.to \in 0..Len(text)
  BY <1>1
<1> DEFINE p == SubSeq(text, 1, d.from)
           q == SubSeq(text, d.to + 1, Len(text))
           t == d.text
<1>3. p \in Seq(Characters) /\ q \in Seq(Characters)
  BY <1>2, Parts
<1> HIDE DEF p, q, t
<1>4. p \o t \in Seq(Characters)
  BY <1>1, <1>3, Joined DEF t
<1>5. (p \o t) \o q \in Seq(Characters)
  BY <1>3, <1>4, Joined
<1>6. Edited(text, d) = IF d.whole THEN t ELSE (p \o t) \o q
  BY DEF Edited, p, q, t
<1> QED
  BY <1>1, <1>2, <1>5, <1>6 DEF t

\* One content change event makes of the copy of a text the copy of the edited text.
LEMMA ReplacedMirrors ==
  ASSUME NEW text \in Seq(Characters), NEW file, Mirror(file, text),
         NEW d \in Diffs, Fits(d, text)
  PROVE  /\ Mirror(Replaced(file, Event(text, d)), Edited(text, d))
         /\ Replaced(file, Event(text, d)).version = file.version
         /\ Replaced(file, Event(text, d)).counter = file.counter
<1> DEFINE e == Event(text, d)
           enc == Encode(text)
           a == Offset(text, d.from)
           b == Offset(text, d.to)
           new == Edited(text, d)
           content == IF e.whole THEN e.text
                      ELSE SubSeq(enc, 1, a) \o e.text \o SubSeq(enc, b + 1, Len(enc))
           r == Replaced(file, e)
<1>1. /\ new \in Seq(Characters) /\ d.text \in Seq(Characters)
      /\ d.from \in 0..Len(text) /\ d.to \in 0..Len(text) /\ d.whole \in BOOLEAN
  BY EditedType
<1>2. /\ e.whole = d.whole /\ e.text = Encode(d.text)
      /\ e.start = Cursor(text)[d.from] /\ e.end = Cursor(text)[d.to]
  BY DEF Event
<1>3. file \in Copies /\ file.content = enc /\ file.lineOffsets = BuildLineOffsets(enc)
  BY DEF Mirror
<1> HIDE DEF e, new
<1>4. CachedOffsetForPosition(file, e.start) = a /\ CachedOffsetForPosition(file, e.end) = b
  BY <1>1, <1>2, <1>3, CursorFound
<1>5. content = Encode(new)
  <2>1. CASE d.whole
    <3>1. new = d.text
      BY <2>1 DEF Edited, new
    <3> QED
      BY <1>2, <2>1, <3>1
  <2>2. CASE ~d.whole
    <3> DEFINE p == SubSeq(text, 1, d.from)
               q == SubSeq(text, d.to + 1, Len(text))
               t == d.text
    <3>1. new = (p \o t) \o q
      BY <2>2 DEF Edited, new
    <3>2. p \in Seq(Characters) /\ q \in Seq(Characters) /\ t \in Seq(Characters)
      BY <1>1, Parts
    <3>3. SubSeq(enc, 1, a) = Encode(p) /\ SubSeq(enc, b + 1, Len(enc)) = Encode(q)
      BY <1>1, EncodeParts
    <3>4. e.text = Encode(t)
      BY <1>2
    <3> HIDE DEF p, q, t, enc, a, b
    <3>5. p \o t \in Seq(Characters) /\ Encode(p \o t) = Encode(p) \o Encode(t)
      BY <3>2, Joined, EncodeJoined
    <3>6. Encode((p \o t) \o q) = Encode(p \o t) \o Encode(q)
      BY <3>2, <3>5, EncodeJoined
    <3>7. content = (Encode(p) \o Encode(t)) \o Encode(q)
      BY <1>2, <2>2, <3>3, <3>4
    <3> QED
      BY <3>1, <3>5, <3>6, <3>7, Zenon
  <2> QED
    BY <1>1, <2>1, <2>2
<1>6. r = [file EXCEPT !.content = content, !.lineOffsets = BuildLineOffsets(content)]
  BY <1>3, <1>4 DEF Replaced
<1>7. Encode(new) \in Seq(Octets) /\ BuildLineOffsets(Encode(new)) \in Seq(Nat)
  BY <1>1, EncodeType
<1> HIDE DEF content, r
<1>8. r = [file EXCEPT !.content = Encode(new), !.lineOffsets = BuildLineOffsets(Encode(new))]
  BY <1>5, <1>6
<1>9. /\ r \in Copies /\ r.content = Encode(new) /\ r.lineOffsets = BuildLineOffsets(Encode(new))
      /\ r.version = file.version /\ r.counter = file.counter
  BY <1>3, <1>7, <1>8 DEF Copies
<1> QED
  BY <1>9 DEF Mirror, r, e, new

\* So do the events of a notification, in their order.
LEMMA ChangesMirror ==
  ASSUME NEW text \in Seq(Characters), NEW file, Mirror(file, text), NEW diffs \in Seq(Diffs),
         \A k \in 1..Len(diffs) : Fits(diffs[k], Changes(text, file, diffs)[k - 1].text)
  PROVE  \A k \in 0..Len(diffs) :
           LET done == Changes(text, file, diffs)[k]
           IN /\ done.text \in Seq(Characters)
              /\ Mirror(done.file, done.text)
              /\ done.file.version = file.version
              /\ done.file.counter = file.counter
<1> DEFINE C(k) == Changes(text, file, diffs)[k]
           P(k) == /\ C(k).text \in Seq(Characters)
                   /\ Mirror(C(k).file, C(k).text)
                   /\ C(k).file.version = file.version
                   /\ C(k).file.counter = file.counter
           G == {k \in 0..Len(diffs) : P(k)}
<1>0. Len(diffs) \in Nat
  OBVIOUS
<1>a. C(0) = [text |-> text, file |-> file] /\ \A k \in 1..Len(diffs) : C(k) = Changed(C(k - 1), diffs[k])
  BY ChangesDef
<1>1. 0 \in G
  <2>1. C(0) = [text |-> text, file |-> file]
    BY <1>a
  <2> HIDE DEF C
  <2>2. C(0).text = text /\ C(0).file = file
    BY <2>1
  <2>3. P(0)
    BY <2>2
  <2> QED
    BY <1>0, <2>3
<1>2. ASSUME NEW k \in 0..(Len(diffs) - 1), k \in G
      PROVE  k + 1 \in G
  <2>1. k + 1 \in 1..Len(diffs) /\ (k + 1) - 1 = k /\ k + 1 \in 0..Len(diffs) /\ diffs[k + 1] \in Diffs
    BY <1>0
  <2>2. P(k)
    BY <1>2
  <2>3. C(k + 1) = [text |-> Edited(C(k).text, diffs[k + 1]),
                    file |-> Replaced(C(k).file, Event(C(k).text, diffs[k + 1]))]
    <3> HIDE DEF C
    <3>1. C(k + 1) = Changed(C(k), diffs[k + 1])
      BY <1>a, <2>1
    <3> QED
      BY <3>1 DEF Changed
  <2>4. Fits(diffs[k + 1], C(k).text)
    BY <2>1
  <2> HIDE DEF C
  <2>5. /\ C(k + 1).text = Edited(C(k).text, diffs[k + 1])
        /\ C(k + 1).file = Replaced(C(k).file, Event(C(k).text, diffs[k + 1]))
    BY <2>3
  <2>6. C(k + 1).text \in Seq(Characters)
    BY <2>1, <2>2, <2>4, <2>5, EditedType
  <2>7. /\ Mirror(C(k + 1).file, C(k + 1).text)
        /\ C(k + 1).file.version = C(k).file.version
        /\ C(k + 1).file.counter = C(k).file.counter
    BY <2>1, <2>2, <2>4, <2>5, ReplacedMirrors
  <2>8. P(k + 1)
    BY <2>2, <2>6, <2>7
  <2> QED
    BY <2>1, <2>8
<1>3. \A k \in 0..Len(diffs) : k \in G
  <2> HIDE DEF G
  <2> QED
    BY <1>0, <1>1, <1>2, Induct
<1> QED
  BY <1>3

-----------------------------------------------------------------------------
(***************************************************************************)
(* The invariant of the documents: besides what DocumentMirrors says, the  *)
(* server knows no document the editor has not open, and the table of      *)
(* lines of each copy is the one of its content.                           *)
(***************************************************************************)
EditorTyped ==
    \A f \in DOMAIN editor :
        editor[f] \in [text : Seq(Characters), version : Nat, edits : Nat, told : BOOLEAN]

CopiesMirror ==
    \A f \in DOMAIN files :
        /\ f \in DOMAIN editor
        /\ Mirror(files[f], editor[f].text)
        /\ editor[f].told => files[f].version = editor[f].version

DiskSaved == disk \in [Files -> {"nothing", "text"}]

DocInv == EditorTyped /\ CopiesMirror /\ DiskSaved

LEMMA DocInvInit == DocInit => DocInv
<1> SUFFICES ASSUME DocInit PROVE DocInv
  OBVIOUS
<1>1. DOMAIN editor = {} /\ DOMAIN files = {}
  BY DEF DocInit
<1>2. DiskSaved
  BY DEF DocInit, DiskSaved
<1> QED
  BY <1>1, <1>2 DEF DocInv, EditorTyped, CopiesMirror

\* Fewer copies, and what else there is the same.
LEMMA FewerCopies ==
  ASSUME DocInv, editor' = editor, disk' = disk, NEW names, files' = Without(names)
  PROVE  DocInv'
<1>1. \A f \in DOMAIN files' : f \in DOMAIN files /\ files'[f] = files[f]
  BY DEF Without
<1> QED
  BY <1>1 DEF DocInv, EditorTyped, CopiesMirror, DiskSaved

LEMMA OnOpenKeeps ==
  ASSUME DocInv, NEW f \in Files, NEW text \in OpenTexts, OnOpen(f, text, 1)
  PROVE  DocInv'
<1> DEFINE known == f \in DOMAIN files
           e == IF f \in DOMAIN editor THEN editor[f].edits ELSE 0
           entry == [text |-> text, version |-> 1, edits |-> e, told |-> known]
           file == IF known THEN [WorkingFile(Encode(text)) EXCEPT
                                    !.version = 1, !.counter = files[f].counter]
                   ELSE WorkingFile(Encode(text))
<1>1. text \in Seq(Characters)
  BY DocumentAssumption
<1>2. e \in Nat /\ known \in BOOLEAN
  BY DEF DocInv, EditorTyped
<1>3. editor' = [g \in DOMAIN editor \cup {f} |-> IF g = f THEN entry ELSE editor[g]]
  BY DEF OnOpen
<1>4. files' = With(f, file)
  BY DEF OnOpen
<1>m. Mirror(file, text) /\ (known => file.version = 1)
  <2> DEFINE c == files[f].counter
  <2>1. known => c \in Nat
    <3>1. known => files[f] \in Copies
      BY DEF DocInv, CopiesMirror, Mirror
    <3> QED
      BY <3>1 DEF Copies
  <2>2. file = IF known THEN [WorkingFile(Encode(text)) EXCEPT !.version = 1, !.counter = c]
               ELSE WorkingFile(Encode(text))
    OBVIOUS
  <2> HIDE DEF c, file, known
  <2>3. \A n \in Nat :
          /\ Mirror([WorkingFile(Encode(text)) EXCEPT !.version = 1, !.counter = n], text)
          /\ [WorkingFile(Encode(text)) EXCEPT !.version = 1, !.counter = n].version = 1
    <3>1. 1 \in Nat
      OBVIOUS
    <3> QED
      BY <1>1, <3>1, OpenedMirrors, Zenon
  <2>4. CASE known
    BY <2>1, <2>2, <2>3, <2>4, Zenon
  <2>5. CASE ~known
    <3>1. Mirror(WorkingFile(Encode(text)), text)
      BY <1>1, OpenedMirrors, Zenon
    <3> QED
      BY <2>2, <2>5, <3>1, Zenon
  <2> QED
    BY <2>4, <2>5
<1>5. /\ entry \in [text : Seq(Characters), version : Nat, edits : Nat, told : BOOLEAN]
      /\ entry.told = known /\ entry.text = text /\ entry.version = 1
  <2> HIDE DEF e, known
  <2> QED
    BY <1>1, <1>2
<1> HIDE DEF entry, file, known
<1>6. EditorTyped'
  <2> SUFFICES ASSUME NEW g \in DOMAIN editor'
               PROVE  editor'[g] \in [text : Seq(Characters), version : Nat, edits : Nat, told : BOOLEAN]
    BY DEF EditorTyped
  <2>1. g = f \/ (g \in DOMAIN editor /\ g # f)
    BY <1>3
  <2> QED
    BY <1>3, <1>5, <2>1 DEF DocInv, EditorTyped
<1>7. CopiesMirror'
  <2> SUFFICES ASSUME NEW g \in DOMAIN files'
               PROVE  /\ g \in DOMAIN editor'
                      /\ Mirror(files'[g], editor'[g].text)
                      /\ editor'[g].told => files'[g].version = editor'[g].version
    BY DEF CopiesMirror, Mirror
  <2>1. CASE g = f
    <3>1. files'[g] = file /\ editor'[g] = entry /\ g \in DOMAIN editor'
      BY <1>3, <1>4, <2>1 DEF With
    <3> QED
      BY <1>5, <1>m, <3>1, Zenon
  <2>2. CASE g # f
    <3>1. g \in DOMAIN files /\ files'[g] = files[g]
      BY <1>4, <2>2 DEF With
    <3>2. g \in DOMAIN editor
      BY <3>1 DEF DocInv, CopiesMirror
    <3>3. g \in DOMAIN editor' /\ editor'[g] = editor[g]
      BY <1>3, <2>2, <3>2
    <3> QED
      BY <3>1, <3>3 DEF DocInv, CopiesMirror
  <2> QED
    BY <2>1, <2>2
<1>8. DiskSaved'
  BY DEF OnOpen, DocInv, DiskSaved
<1> QED
  BY <1>6, <1>7, <1>8 DEF DocInv

LEMMA OnChangeKeeps ==
  ASSUME DocInv, NEW f \in DOMAIN editor, NEW told \in BOOLEAN, NEW n \in 1..MaxEdits,
         NEW diffs \in [1..n -> Diffs], OnChange(f, diffs, told)
  PROVE  DocInv'
<1> DEFINE known == f \in DOMAIN files
           text == editor[f].text
           file == IF known THEN files[f] ELSE WorkingFile(Encode(text))
           after == Changes(text, file, diffs)
           done == after[Len(diffs)]
           v == editor[f].version + 1
           e == editor[f].edits + Len(diffs)
           entry == [text |-> done.text, version |-> v, edits |-> e, told |-> told /\ known]
           new == [done.file EXCEPT !.version = IF told THEN v ELSE @, !.counter = @ + 1]
<1>1. diffs \in Seq(Diffs) /\ Len(diffs) = n /\ DOMAIN diffs = 1..n /\ n \in Nat
  BY DocumentAssumption
<1>2. /\ text \in Seq(Characters) /\ editor[f].version \in Nat /\ editor[f].edits \in Nat
  BY DEF DocInv, EditorTyped
<1>3. /\ \A k \in DOMAIN diffs : Fits(diffs[k], after[k - 1].text)
      /\ editor' = [editor EXCEPT ![f] = entry]
      /\ files' = IF ~known THEN files ELSE [files EXCEPT ![f] = new]
      /\ disk' = disk
  BY DEF OnChange
<1>4. Mirror(file, text)
  <2>1. CASE known
    <3>1. Mirror(files[f], text)
      BY <2>1 DEF DocInv, CopiesMirror
    <3> QED
      BY <2>1, <3>1
  <2>2. CASE ~known
    <3>1. Mirror(WorkingFile(Encode(text)), text)
      BY <1>2, OpenedMirrors
    <3> QED
      BY <2>2, <3>1
  <2> QED
    BY <2>1, <2>2
<1> HIDE DEF text, file
<1>5. /\ done.text \in Seq(Characters)
      /\ Mirror(done.file, done.text)
  <2>1. \A k \in 1..Len(diffs) : Fits(diffs[k], Changes(text, file, diffs)[k - 1].text)
    BY <1>1, <1>3
  <2>2. Len(diffs) \in 0..Len(diffs)
    BY <1>1
  <2>3. \A k \in 0..Len(diffs) : /\ Changes(text, file, diffs)[k].text \in Seq(Characters)
                                 /\ Mirror(Changes(text, file, diffs)[k].file, Changes(text, file, diffs)[k].text)
    BY <1>1, <1>2, <1>4, <2>1, ChangesMirror
  <2> QED
    BY <2>2, <2>3
<1> HIDE DEF done
<1>6. Mirror(new, done.text) /\ (told => new.version = v)
  <2>1. done.file \in Copies
    BY <1>5 DEF Mirror
  <2>2. v \in Nat
    BY <1>2
  <2> HIDE DEF v
  <2>3. /\ new \in Copies /\ new.content = done.file.content
        /\ new.lineOffsets = done.file.lineOffsets /\ (told => new.version = v)
    <3> DEFINE w == done.file
               x == IF told THEN v ELSE w.version
               c == w.counter + 1
    <3>1. new = [w EXCEPT !.version = x, !.counter = c]
      OBVIOUS
    <3>2. w \in Copies /\ w.version \in Nat /\ w.counter \in Nat
      BY <2>1 DEF Copies
    <3>3. x \in Nat /\ c \in Nat /\ (told => x = v)
      BY <2>2, <3>2
    <3> HIDE DEF w, x, c, new
    <3>4. /\ new \in Copies /\ new.content = w.content
          /\ new.lineOffsets = w.lineOffsets /\ new.version = x
      BY <3>1, <3>2, <3>3 DEF Copies
    <3> QED
      BY <3>3, <3>4 DEF w
  <2> QED
    BY <1>5, <2>3 DEF Mirror
<1>7. /\ entry \in [text : Seq(Characters), version : Nat, edits : Nat, told : BOOLEAN]
      /\ entry.text = done.text /\ entry.version = v /\ (entry.told => told /\ known)
  <2>1. v \in Nat /\ e \in Nat /\ (told /\ known) \in BOOLEAN
    BY <1>1, <1>2
  <2> HIDE DEF v, e, known
  <2> QED
    BY <1>5, <2>1
<1> HIDE DEF entry, new, v
<1>8. DOMAIN editor' = DOMAIN editor /\ editor'[f] = entry /\ \A g \in DOMAIN editor : g # f => editor'[g] = editor[g]
  BY <1>3
<1>9. EditorTyped'
  <2> SUFFICES ASSUME NEW g \in DOMAIN editor'
               PROVE  editor'[g] \in [text : Seq(Characters), version : Nat, edits : Nat, told : BOOLEAN]
    BY DEF EditorTyped
  <2>1. CASE g = f
    BY <1>7, <1>8, <2>1, Zenon
  <2>2. CASE g # f
    BY <1>8, <2>2 DEF DocInv, EditorTyped
  <2> QED
    BY <2>1, <2>2
<1>10. CopiesMirror'
  <2> SUFFICES ASSUME NEW g \in DOMAIN files'
               PROVE  /\ g \in DOMAIN editor'
                      /\ Mirror(files'[g], editor'[g].text)
                      /\ editor'[g].told => files'[g].version = editor'[g].version
    BY DEF CopiesMirror, Mirror
  <2>1. DOMAIN files' = DOMAIN files /\ g \in DOMAIN editor
    BY <1>3 DEF DocInv, CopiesMirror
  <2>2. CASE g = f
    <3>1. known /\ files'[g] = new
      BY <1>3, <2>1, <2>2
    <3>2. editor'[g] = entry
      BY <1>8, <2>2
    <3> QED
      BY <1>6, <1>7, <1>8, <2>1, <3>1, <3>2, Zenon
  <2>3. CASE g # f
    <3>1. files'[g] = files[g] /\ editor'[g] = editor[g]
      BY <1>3, <1>8, <2>1, <2>3
    <3> QED
      BY <1>8, <2>1, <3>1 DEF DocInv, CopiesMirror
  <2> QED
    BY <2>2, <2>3
<1>11. DiskSaved'
  BY <1>3 DEF DocInv, DiskSaved
<1> QED
  BY <1>9, <1>10, <1>11 DEF DocInv

LEMMA OnCloseKeeps ==
  ASSUME DocInv, NEW f \in DOMAIN editor, OnClose(f)
  PROVE  DocInv'
<1>1. /\ DOMAIN editor' = DOMAIN editor \ {f}
      /\ \A g \in DOMAIN editor' : editor'[g] = editor[g]
  BY DEF OnClose
<1>2. \A g \in DOMAIN files' : g \in DOMAIN files /\ g # f /\ files'[g] = files[g]
  BY DEF OnClose, Without
<1>3. disk' = disk
  BY DEF OnClose
<1> QED
  BY <1>1, <1>2, <1>3 DEF DocInv, EditorTyped, CopiesMirror, DiskSaved

LEMMA OnSaveKeeps ==
  ASSUME DocInv, NEW f \in DOMAIN editor, OnSave(f)
  PROVE  DocInv'
<1>1. editor' = editor /\ files' = files
  BY DEF OnSave
<1>2. DiskSaved'
  <2>1. CASE f \notin DOMAIN files
    BY <2>1 DEF OnSave, DocInv, DiskSaved
  <2>2. CASE f \in DOMAIN files
    <3>1. files[f].content = Encode(editor[f].text)
      BY <2>2 DEF DocInv, CopiesMirror, Mirror
    <3>2. disk' = [disk EXCEPT ![f] = "text"]
      BY <2>2, <3>1 DEF OnSave
    <3> QED
      BY <3>2 DEF DocInv, DiskSaved
  <2> QED
    BY <2>1, <2>2
<1> QED
  BY <1>1, <1>2 DEF DocInv, EditorTyped, CopiesMirror

LEMMA DocInvNext == DocInv /\ [DocNext]_docVars => DocInv'
<1> SUFFICES ASSUME DocInv, [DocNext]_docVars
             PROVE  DocInv'
  OBVIOUS
<1>1. CASE UNCHANGED docVars
  BY <1>1 DEF docVars, DocInv, EditorTyped, CopiesMirror, DiskSaved
<1>2. ASSUME NEW f \in Files, NEW text \in OpenTexts, OnOpen(f, text, 1)
      PROVE  DocInv'
  BY <1>2, OnOpenKeeps
<1>3. ASSUME NEW f \in DOMAIN editor, NEW told \in BOOLEAN, NEW n \in 1..MaxEdits,
             NEW diffs \in [1..n -> Diffs], OnChange(f, diffs, told)
      PROVE  DocInv'
  BY <1>3, OnChangeKeeps
<1>4. ASSUME NEW f \in DOMAIN editor, OnClose(f) \/ OnSave(f)
      PROVE  DocInv'
  BY <1>4, OnCloseKeeps, OnSaveKeeps
<1>5. ASSUME NEW f \in DOMAIN files, CloseFilesInDirectory({DirName[f]})
      PROVE  DocInv'
  BY <1>5, FewerCopies DEF CloseFilesInDirectory
<1>6. CASE Clear
  BY <1>6, FewerCopies DEF Clear
<1> QED
  BY <1>1, <1>2, <1>3, <1>4, <1>5, <1>6 DEF DocNext

LEMMA DocInvariant == DocSpec => []DocInv
<1> QED
  BY DocInvInit, DocInvNext, PTL DEF DocSpec

\* Whatever documents are opened, edited, closed and saved, with texts of any
\* length and any number of edits in a notification (WorkingFiles::OnOpen,
\* OnChange, OnClose, OnSave, CloseFilesInDirectory, Clear): the server's copy is
\* the editor's text, byte for byte, its version the one it was told, and only
\* that text is ever saved.
THEOREM DocumentsMirror == DocSpec => []DocumentMirrors
<1>1. DocInv => DocumentMirrors
  <2> SUFFICES ASSUME DocInv
               PROVE  DocumentMirrors
    OBVIOUS
  <2>1. \A f \in Files : disk[f] # "other"
    BY DEF DocInv, DiskSaved
  <2>2. \A f \in DOMAIN files : /\ files[f].content = Encode(editor[f].text)
                                /\ editor[f].told => files[f].version = editor[f].version
    BY DEF DocInv, CopiesMirror, Mirror
  <2> QED
    BY <2>1, <2>2 DEF DocumentMirrors
<1> QED
  BY <1>1, DocInvariant, PTL

\* GetOffsetForPosition, WorkingFile::GetOffsetForPosition and
\* GetPositionForOffset, in UTF-16 and in UTF-8 units, are inverse to each other
\* on every copy, and the line table agrees with the scan of the text.
THEOREM PositionsAreInverse == DocSpec => []PositionsConvert
<1>1. DocInv => PositionsConvert
  <2> SUFFICES ASSUME DocInv, NEW f \in DOMAIN files
               PROVE  LET content == files[f].content IN
                      /\ \A offset \in 0..Len(content) :
                            LET utf16 == GetPositionForOffset(offset, content)
                                utf8 == Utf8PositionForOffset(offset, content)
                            IN /\ Utf8OffsetForPosition(utf8, content) = offset
                               /\ (offset = Len(content) \/ content[offset + 1] # "cont") =>
                                     GetOffsetForPosition(utf16, content) = offset
                      /\ \A line \in 0..(MaxText + 1), character \in 0..(2 * MaxText + 1) :
                            LET position == [line |-> line, character |-> character]
                            IN CachedOffsetForPosition(files[f], position)
                                   = GetOffsetForPosition(position, content)
    BY DEF PositionsConvert
  <2> DEFINE text == editor[f].text
             enc == Encode(text)
  <2>1. text \in Seq(Characters) /\ files[f].content = enc /\ files[f].lineOffsets = BuildLineOffsets(enc)
    BY DEF DocInv, EditorTyped, CopiesMirror, Mirror
  <2>2. enc \in Seq(Octets)
    BY <2>1, EncodeType
  <2>3. ASSUME NEW o \in 0..Len(enc)
        PROVE  Utf8OffsetForPosition(Utf8PositionForOffset(o, enc), enc) = o
    <3> HIDE DEF enc
    <3> QED
      BY <2>2, Utf8Back
  <2>4. ASSUME NEW o \in 0..Len(enc), o = Len(enc) \/ enc[o + 1] # "cont"
        PROVE  GetOffsetForPosition(GetPositionForOffset(o, enc), enc) = o
    <3> HIDE DEF text
    <3>1. PICK i \in 0..Len(text) : o = Offset(text, i)
      BY <2>1, <2>4, OffsetIsChar
    <3>2. GetPositionForOffset(o, enc) = Cursor(text)[i]
      BY <2>1, <3>1, PositionOfOffset DEF GetPositionForOffset
    <3>3. GetOffsetForPosition(Cursor(text)[i], enc) = Offset(text, i)
      BY <2>1, CursorFound
    <3> QED
      BY <3>1, <3>2, <3>3
  <2>5. ASSUME NEW line \in 0..(MaxText + 1), NEW character \in 0..(2 * MaxText + 1)
        PROVE  LET position == [line |-> line, character |-> character]
               IN CachedOffsetForPosition(files[f], position) = GetOffsetForPosition(position, enc)
    <3> DEFINE p == [line |-> line, character |-> character]
               T == BuildLineOffsets(enc)
    <3>1. p.line = line /\ p.character = character /\ line \in Nat
      OBVIOUS
    <3> HIDE DEF enc, p
    <3>2. SkipLines(enc, line) = IF line < Len(T) THEN T[line + 1] ELSE Len(enc)
      BY <2>2, <3>1, SkipLinesFinds
    <3>3. CachedOffsetForPosition(files[f], p) = Advance(enc, SkipLines(enc, line), character)
      BY <2>1, <3>1, <3>2 DEF CachedOffsetForPosition
    <3>4. GetOffsetForPosition(p, enc) = Advance(enc, SkipLines(enc, line), character)
      BY <3>1 DEF GetOffsetForPosition
    <3> QED
      BY <3>3, <3>4 DEF p
  <2> HIDE DEF enc
  <2> QED
    BY <2>1, <2>3, <2>4, <2>5
<1> QED
  BY <1>1, DocInvariant, PTL

-----------------------------------------------------------------------------
(***************************************************************************)
(* Framing: the bytes a peer writes.                                       *)
(***************************************************************************)
PeerBlocks == [head : Seq(Alphabet), body : Seq(Alphabet), sent : BOOLEAN]

\* A sequence given by its elements.
LEMMA MadeSeq ==
  ASSUME NEW S, NEW n \in Nat, NEW f \in [1..n -> S]
  PROVE  f \in Seq(S) /\ Len(f) = n
<1>1. f \in Seq(S)
  OBVIOUS
<1>2. Len(f) \in Nat /\ DOMAIN f = 1..Len(f) /\ DOMAIN f = 1..n
  BY <1>1, LenProperties
<1>3. \A i \in Int : i \in 1..Len(f) <=> i \in 1..n
  BY <1>2
<1>4. Len(f) = n
  <2> DEFINE m == Len(f)
  <2>1. m \in Nat /\ \A i \in Int : i \in 1..m <=> i \in 1..n
    BY <1>2, <1>3
  <2> HIDE DEF m
  <2>2. (m \in 1..m <=> m \in 1..n) /\ (n \in 1..m <=> n \in 1..n)
    BY <2>1
  <2>3. m = n
    BY <2>1, <2>2
  <2> QED
    BY <2>3 DEF m
<1> QED
  BY <1>1, <1>4

LEMMA BlockBytes ==
  ASSUME NEW b \in PeerBlocks
  PROVE  /\ b.head \in Seq(Alphabet) /\ b.body \in Seq(Alphabet)
         /\ b.head \o b.body \in Seq(Alphabet)
         /\ Len(b.head) \in Nat /\ Len(b.body) \in Nat
         /\ Len(b.head \o b.body) = Len(b.head) + Len(b.body)
         /\ \A k \in 1..Len(b.head) : (b.head \o b.body)[k] = b.head[k]
         /\ \A k \in 1..Len(b.body) : (b.head \o b.body)[Len(b.head) + k] = b.body[k]
<1> DEFINE h == b.head
           t == b.body
<1>1. h \in Seq(Alphabet) /\ t \in Seq(Alphabet)
  BY DEF PeerBlocks
<1> HIDE DEF h, t
<1>2. /\ h \o t \in Seq(Alphabet)
      /\ Len(h) \in Nat /\ Len(t) \in Nat
      /\ Len(h \o t) = Len(h) + Len(t)
      /\ \A k \in 1..Len(h) : (h \o t)[k] = h[k]
      /\ \A k \in 1..Len(t) : (h \o t)[Len(h) + k] = t[k]
  BY <1>1, Joined
<1> QED
  BY <1>1, <1>2 DEF h, t

LEMMA JoinedUpToDef ==
  ASSUME NEW S, NEW parts \in Seq(S)
  PROVE  /\ DOMAIN JoinedUpTo(parts) = 0..Len(parts)
         /\ JoinedUpTo(parts)[0] = <<>>
         /\ \A i \in 1..Len(parts) :
              JoinedUpTo(parts)[i] = JoinedUpTo(parts)[i - 1] \o parts[i]
<1> DEFINE N == Len(parts)
           Base == <<>>
           Next(i, v) == v \o parts[i]
           Solves(f, n) == f = [i \in 0..n |-> IF i = 0 THEN Base ELSE Next(i, f[i - 1])]
           X == JoinedUpTo(parts)
           G == {n \in 0..N : \E f : Solves(f, n)}
<1>1. N \in Nat
  OBVIOUS
<1>2. X = CHOOSE f : Solves(f, N)
  BY DEF JoinedUpTo
<1> HIDE DEF N, Base, Next, X
<1>3. 0 \in G
  <2>1. Solves([i \in 0..0 |-> Base], 0)
    OBVIOUS
  <2> HIDE DEF Solves
  <2> QED
    BY <1>1, <2>1
<1>4. ASSUME NEW n \in 0..(N - 1), n \in G
      PROVE  n + 1 \in G
  <2>1. PICK f : Solves(f, n)
    BY <1>4
  <2> DEFINE g == [i \in 0..(n + 1) |-> IF i = n + 1 THEN Next(n + 1, f[n]) ELSE f[i]]
  <2>2. \A i \in 0..(n + 1) : g[i] = IF i = 0 THEN Base ELSE Next(i, g[i - 1])
    <3> SUFFICES ASSUME NEW i \in 0..(n + 1)
                 PROVE  g[i] = IF i = 0 THEN Base ELSE Next(i, g[i - 1])
      OBVIOUS
    <3>1. CASE i = 0
      BY <2>1, <3>1
    <3>2. CASE i \in 1..n
      <4>1. g[i] = f[i] /\ g[i - 1] = f[i - 1]
        BY <3>2
      <4> QED
        BY <2>1, <3>2, <4>1
    <3>3. CASE i = n + 1
      <4>1. g[i] = Next(n + 1, f[n]) /\ i - 1 = n /\ g[n] = f[n]
        BY <3>3
      <4> QED
        BY <3>3, <4>1
    <3> QED
      BY <3>1, <3>2, <3>3
  <2>3. Solves(g, n + 1)
    BY <2>2
  <2> HIDE DEF g, Solves
  <2> QED
    BY <1>1, <2>3
<1>5. \E f : Solves(f, N)
  <2>1. \A n \in 0..N : n \in G
    <3> HIDE DEF G
    <3> QED
      BY <1>1, <1>3, <1>4, Induct
  <2> QED
    BY <1>1, <2>1
<1>6. Solves(X, N)
  <2> HIDE DEF Solves
  <2> QED
    BY <1>2, <1>5
<1>7. DOMAIN X = 0..N /\ X[0] = Base /\ \A i \in 1..N : X[i] = Next(i, X[i - 1])
  BY <1>1, <1>6
<1> QED
  BY <1>7 DEF N, Base, Next, X

LEMMA BytesUpToDef ==
  ASSUME NEW bs \in Seq(PeerBlocks)
  PROVE  /\ DOMAIN BytesUpTo(bs) = 0..Len(bs)
         /\ BytesUpTo(bs)[0] = <<>>
         /\ \A i \in 1..Len(bs) :
              BytesUpTo(bs)[i] = BytesUpTo(bs)[i - 1] \o (bs[i].head \o bs[i].body)
<1> DEFINE parts == [i \in 1..Len(bs) |-> bs[i].head \o bs[i].body]
<1>1. parts \in Seq(Seq(Alphabet)) /\ Len(parts) = Len(bs)
  <2>1. \A i \in 1..Len(bs) : bs[i].head \o bs[i].body \in Seq(Alphabet)
    <3> SUFFICES ASSUME NEW i \in 1..Len(bs)
                 PROVE  bs[i].head \o bs[i].body \in Seq(Alphabet)
      OBVIOUS
    <3>1. bs[i] \in PeerBlocks
      OBVIOUS
    <3> QED
      BY <3>1, BlockBytes
  <2>2. parts \in [1..Len(bs) -> Seq(Alphabet)] /\ Len(bs) \in Nat
    BY <2>1
  <2> HIDE DEF parts
  <2> QED
    BY <2>2, MadeSeq
<1>2. BytesUpTo(bs) = JoinedUpTo(parts)
  BY DEF BytesUpTo
<1>3. \A i \in 1..Len(bs) : parts[i] = bs[i].head \o bs[i].body
  OBVIOUS
<1> HIDE DEF parts
<1>4. /\ DOMAIN JoinedUpTo(parts) = 0..Len(parts)
      /\ JoinedUpTo(parts)[0] = <<>>
      /\ \A i \in 1..Len(parts) : JoinedUpTo(parts)[i] = JoinedUpTo(parts)[i - 1] \o parts[i]
  BY <1>1, JoinedUpToDef
<1> QED
  BY <1>1, <1>2, <1>3, <1>4

LEMMA BodiesDef ==
  ASSUME NEW bs \in Seq(PeerBlocks), NEW end, NEW bound
  PROVE  /\ DOMAIN Bodies(bs, end, bound) = 0..Len(bs)
         /\ Bodies(bs, end, bound)[0] = <<>>
         /\ \A i \in 1..Len(bs) :
              Bodies(bs, end, bound)[i] = IF Whole(bs, end, bound, i) THEN Append(Bodies(bs, end, bound)[i - 1], bs[i].body) ELSE Bodies(bs, end, bound)[i - 1]
<1> DEFINE N == Len(bs)
           Base == <<>>
           Next(i, v) == IF Whole(bs, end, bound, i) THEN Append(v, bs[i].body) ELSE v
           Solves(f, n) == f = [i \in 0..n |-> IF i = 0 THEN Base ELSE Next(i, f[i - 1])]
           X == Bodies(bs, end, bound)
           G == {n \in 0..N : \E f : Solves(f, n)}
<1>1. N \in Nat
  OBVIOUS
<1>2. X = CHOOSE f : Solves(f, N)
  BY DEF Bodies
<1> HIDE DEF N, Base, Next, X
<1>3. 0 \in G
  <2>1. Solves([i \in 0..0 |-> Base], 0)
    OBVIOUS
  <2> HIDE DEF Solves
  <2> QED
    BY <1>1, <2>1
<1>4. ASSUME NEW n \in 0..(N - 1), n \in G
      PROVE  n + 1 \in G
  <2>1. PICK f : Solves(f, n)
    BY <1>4
  <2> DEFINE g == [i \in 0..(n + 1) |-> IF i = n + 1 THEN Next(n + 1, f[n]) ELSE f[i]]
  <2>2. \A i \in 0..(n + 1) : g[i] = IF i = 0 THEN Base ELSE Next(i, g[i - 1])
    <3> SUFFICES ASSUME NEW i \in 0..(n + 1)
                 PROVE  g[i] = IF i = 0 THEN Base ELSE Next(i, g[i - 1])
      OBVIOUS
    <3>1. CASE i = 0
      BY <2>1, <3>1
    <3>2. CASE i \in 1..n
      <4>1. g[i] = f[i] /\ g[i - 1] = f[i - 1]
        BY <3>2
      <4> QED
        BY <2>1, <3>2, <4>1
    <3>3. CASE i = n + 1
      <4>1. g[i] = Next(n + 1, f[n]) /\ i - 1 = n /\ g[n] = f[n]
        BY <3>3
      <4> QED
        BY <3>3, <4>1
    <3> QED
      BY <3>1, <3>2, <3>3
  <2>3. Solves(g, n + 1)
    BY <2>2
  <2> HIDE DEF g, Solves
  <2> QED
    BY <1>1, <2>3
<1>5. \E f : Solves(f, N)
  <2>1. \A n \in 0..N : n \in G
    <3> HIDE DEF G
    <3> QED
      BY <1>1, <1>3, <1>4, Induct
  <2> QED
    BY <1>1, <2>1
<1>6. Solves(X, N)
  <2> HIDE DEF Solves
  <2> QED
    BY <1>2, <1>5
<1>7. DOMAIN X = 0..N /\ X[0] = Base /\ \A i \in 1..N : X[i] = Next(i, X[i - 1])
  BY <1>1, <1>6
<1> QED
  BY <1>7 DEF N, Base, Next, X

LEMMA BytesType ==
  ASSUME NEW bs \in Seq(PeerBlocks)
  PROVE  \A i \in 0..Len(bs) : BytesUpTo(bs)[i] \in Seq(Alphabet) /\ Ends(bs, i) \in Nat
<1> DEFINE G == {i \in 0..Len(bs) : BytesUpTo(bs)[i] \in Seq(Alphabet)}
<1>1. 0 \in G
  <2>1. BytesUpTo(bs)[0] = <<>>
    BY BytesUpToDef
  <2>2. <<>> \in Seq(Alphabet)
    OBVIOUS
  <2>3. BytesUpTo(bs)[0] \in Seq(Alphabet)
    BY <2>1, <2>2, Zenon
  <2>4. 0 \in 0..Len(bs)
    OBVIOUS
  <2> QED
    BY <2>3, <2>4
<1>2. ASSUME NEW i \in 0..(Len(bs) - 1), i \in G
      PROVE  i + 1 \in G
  <2> DEFINE s == BytesUpTo(bs)[i]
             t == bs[i + 1].head \o bs[i + 1].body
  <2>1. i + 1 \in 1..Len(bs) /\ (i + 1) - 1 = i /\ s \in Seq(Alphabet) /\ i + 1 \in 0..Len(bs)
    BY <1>2
  <2>2. BytesUpTo(bs)[i + 1] = s \o t
    BY <2>1, BytesUpToDef
  <2>3. t \in Seq(Alphabet)
    <3>1. bs[i + 1] \in PeerBlocks
      BY <2>1
    <3> QED
      BY <3>1, BlockBytes
  <2> HIDE DEF s, t
  <2>4. s \o t \in Seq(Alphabet)
    BY <2>1, <2>3, Joined
  <2>5. BytesUpTo(bs)[i + 1] \in Seq(Alphabet)
    BY <2>2, <2>4
  <2> QED
    BY <2>1, <2>5
<1>3. \A i \in 0..Len(bs) : i \in G
  <2> HIDE DEF G
  <2> QED
    BY <1>1, <1>2, Induct
<1> QED
  BY <1>3 DEF Ends

LEMMA BytesPrefix ==
  ASSUME NEW bs \in Seq(PeerBlocks), NEW i \in 0..Len(bs), NEW j \in i..Len(bs)
  PROVE  /\ Ends(bs, i) <= Ends(bs, j)
         /\ \A k \in 1..Ends(bs, i) : BytesUpTo(bs)[j][k] = BytesUpTo(bs)[i][k]
<1> DEFINE P(m) == /\ Ends(bs, i) <= Ends(bs, m)
                   /\ \A k \in 1..Ends(bs, i) : BytesUpTo(bs)[m][k] = BytesUpTo(bs)[i][k]
           G == {d \in 0..(Len(bs) - i) : P(i + d)}
<1>1. 0 \in G
  <2>1. i + 0 = i
    OBVIOUS
  <2>2. P(i)
    BY BytesType
  <2> QED
    BY <2>1, <2>2
<1>2. ASSUME NEW d \in 0..((Len(bs) - i) - 1), d \in G
      PROVE  d + 1 \in G
  <2> DEFINE m == i + d
             s == BytesUpTo(bs)[m]
             t == bs[m + 1].head \o bs[m + 1].body
  <2>1. m + 1 \in 1..Len(bs) /\ m \in 0..Len(bs) /\ (m + 1) - 1 = m /\ i + (d + 1) = m + 1
        /\ m + 1 \in 0..Len(bs)
    OBVIOUS
  <2>2. P(m)
    BY <1>2
  <2> HIDE DEF m
  <2>3. BytesUpTo(bs)[m + 1] = s \o t
    BY <2>1, BytesUpToDef
  <2>4. s \in Seq(Alphabet) /\ t \in Seq(Alphabet)
    <3>1. bs[m + 1] \in PeerBlocks
      BY <2>1
    <3> QED
      BY <2>1, <3>1, BytesType, BlockBytes
  <2>5. Ends(bs, m) \in Nat /\ Ends(bs, i) \in Nat /\ Ends(bs, m + 1) \in Nat
    BY <2>1, BytesType
  <2>6. /\ Ends(bs, m) <= Ends(bs, m + 1)
        /\ \A k \in 1..Ends(bs, m) : BytesUpTo(bs)[m + 1][k] = s[k]
    <3>1. Ends(bs, m) = Len(s)
      BY DEF Ends
    <3>2. Ends(bs, m + 1) = Len(s \o t)
      BY <2>3 DEF Ends
    <3> HIDE DEF s, t
    <3>3. Len(s) <= Len(s \o t) /\ \A k \in 1..Len(s) : (s \o t)[k] = s[k]
      BY <2>4, Joined
    <3> QED
      BY <2>3, <3>1, <3>2, <3>3
  <2>7. P(m + 1)
    BY <2>2, <2>5, <2>6
  <2> QED
    BY <2>1, <2>7
<1>3. Len(bs) - i \in Nat /\ j - i \in 0..(Len(bs) - i)
  OBVIOUS
<1>4. \A d \in 0..(Len(bs) - i) : d \in G
  <2> HIDE DEF G
  <2> QED
    BY <1>1, <1>2, <1>3, Induct
<1>5. P(i + (j - i))
  BY <1>3, <1>4
<1>6. i + (j - i) = j
  OBVIOUS
<1> QED
  BY <1>5, <1>6

\* Block i in the bytes.
LEMMA BlockAt ==
  ASSUME NEW bs \in Seq(PeerBlocks), NEW i \in 1..Len(bs)
  PROVE  /\ Bytes(bs) \in Seq(Alphabet) /\ Len(Bytes(bs)) = Ends(bs, Len(bs))
         /\ Ends(bs, i - 1) \in Nat
         /\ Ends(bs, i) = Ends(bs, i - 1) + (Len(bs[i].head) + Len(bs[i].body))
         /\ Ends(bs, i) <= Len(Bytes(bs))
         /\ \A k \in 1..Len(bs[i].head) : Bytes(bs)[Ends(bs, i - 1) + k] = bs[i].head[k]
         /\ \A k \in 1..Len(bs[i].body) :
              Bytes(bs)[(Ends(bs, i - 1) + Len(bs[i].head)) + k] = bs[i].body[k]
<1> DEFINE s == BytesUpTo(bs)[i - 1]
           h == bs[i].head
           t == bs[i].body
           c == h \o t
           B == Bytes(bs)
<1>1. Len(bs) \in Nat /\ i - 1 \in 0..Len(bs) /\ i \in 0..Len(bs) /\ Len(bs) \in i..Len(bs) /\ bs[i] \in PeerBlocks
      /\ Len(bs) \in 0..Len(bs)
  OBVIOUS
<1>2. B \in Seq(Alphabet) /\ Len(B) = Ends(bs, Len(bs))
  BY <1>1, BytesType DEF Bytes, Ends
<1>3. /\ c \in Seq(Alphabet) /\ Len(h) \in Nat /\ Len(t) \in Nat /\ Len(c) = Len(h) + Len(t)
      /\ \A k \in 1..Len(h) : c[k] = h[k]
      /\ \A k \in 1..Len(t) : c[Len(h) + k] = t[k]
  BY <1>1, BlockBytes
<1>4. s \in Seq(Alphabet) /\ BytesUpTo(bs)[i] = s \o c
  BY <1>1, BytesType, BytesUpToDef
<1>5. Len(s) = Ends(bs, i - 1) /\ Ends(bs, i) = Len(s \o c)
  BY <1>4 DEF Ends
<1>6. /\ Ends(bs, i) <= Ends(bs, Len(bs))
      /\ \A k \in 1..Ends(bs, i) : B[k] = BytesUpTo(bs)[i][k]
  BY <1>1, BytesPrefix DEF Bytes
<1> HIDE DEF s, c, B
<1>7. /\ Len(s \o c) = Len(s) + Len(c) /\ Len(s) \in Nat
      /\ \A k \in 1..Len(c) : (s \o c)[Len(s) + k] = c[k]
  <2>1. s \in Seq(Alphabet) /\ c \in Seq(Alphabet)
    BY <1>3, <1>4
  <2> QED
    BY <2>1, Joined
<1> HIDE DEF h, t
<1>8. \A k \in 1..Len(c) : B[Len(s) + k] = c[k]
  <2> SUFFICES ASSUME NEW k \in 1..Len(c)
               PROVE  B[Len(s) + k] = c[k]
    OBVIOUS
  <2>1. Len(s) + k \in 1..Ends(bs, i)
    BY <1>3, <1>5, <1>7
  <2>2. B[Len(s) + k] = (s \o c)[Len(s) + k]
    BY <1>4, <1>6, <2>1
  <2> QED
    BY <1>7, <2>2
<1>9. \A k \in 1..Len(h) : B[Len(s) + k] = h[k]
  <2>1. \A k \in 1..Len(h) : k \in 1..Len(c)
    BY <1>3
  <2> QED
    BY <1>3, <1>8, <2>1
<1>10. \A k \in 1..Len(t) : B[(Len(s) + Len(h)) + k] = t[k]
  <2> SUFFICES ASSUME NEW k \in 1..Len(t)
               PROVE  B[(Len(s) + Len(h)) + k] = t[k]
    OBVIOUS
  <2>1. Len(h) + k \in 1..Len(c) /\ Len(s) + (Len(h) + k) = (Len(s) + Len(h)) + k
    BY <1>3, <1>7
  <2>2. B[Len(s) + (Len(h) + k)] = c[Len(h) + k]
    BY <1>8, <2>1
  <2> QED
    BY <1>3, <2>1, <2>2
<1>11. Ends(bs, i) = Len(s) + (Len(h) + Len(t))
  BY <1>3, <1>5, <1>7
<1> QED
  BY <1>2, <1>5, <1>6, <1>7, <1>9, <1>10, <1>11 DEF B, h, t

-----------------------------------------------------------------------------
(***************************************************************************)
(* The end of a header.                                                    *)
(***************************************************************************)
\* The delimiter d is in s at i.
Occurs(s, d, i) ==
    /\ i \in 1..((Len(s) - Len(d)) + 1)
    /\ \A k \in 1..Len(d) : s[(i + k) - 1] = d[k]

LEMMA FindDef ==
  ASSUME NEW s \in Seq(Alphabet), NEW d \in Seq(Alphabet), d # <<>>
  PROVE  \/ Find(s, d) = 0 /\ \A i \in Nat : ~Occurs(s, d, i)
         \/ /\ Find(s, d) \in Nat \ {0} /\ Occurs(s, d, Find(s, d))
            /\ \A i \in Nat : Occurs(s, d, i) => Find(s, d) <= i
<1> DEFINE n == (Len(s) - Len(d)) + 1
           found == Occurrences(s, d)
<1>1. Len(s) \in Nat /\ Len(d) \in Nat /\ Len(d) >= 1 /\ n \in Int
  BY EmptySeq
<1>2. \A i \in 1..n : SubSeq(s, i, (i + Len(d)) - 1) = d <=> Occurs(s, d, i)
  <2> SUFFICES ASSUME NEW i \in 1..n
               PROVE  SubSeq(s, i, (i + Len(d)) - 1) = d <=> Occurs(s, d, i)
    OBVIOUS
  <2> DEFINE t == SubSeq(s, i, (i + Len(d)) - 1)
             m == (i + Len(d)) - 1
  <2>1. i \in Int /\ m \in Int /\ i <= m /\ (m - i) + 1 = Len(d) /\ \A k \in i..m : k \in 1..Len(s)
    BY <1>1
  <2>2. \A k \in i..m : s[k] \in Alphabet
    BY <2>1
  <2>3. /\ t \in Seq(Alphabet)
        /\ Len(t) = (m - i) + 1
        /\ \A k \in 1..((m - i) + 1) : t[k] = s[(i + k) - 1]
    BY <2>1, <2>2, SubSeqProperties
  <2> HIDE DEF t
  <2>4. Len(t) = Len(d) /\ \A k \in 1..Len(d) : t[k] = s[(i + k) - 1]
    BY <2>1, <2>3
  <2>5. t = d <=> \A k \in 1..Len(d) : t[k] = d[k]
    BY <2>3, <2>4, SeqEqual
  <2> QED
    BY <2>4, <2>5 DEF Occurs, t
<1>3. \A i \in Nat : Occurs(s, d, i) <=> i \in found
  BY <1>2 DEF Occurs, Occurrences
<1>4. Find(s, d) = IF found = {} THEN 0 ELSE CHOOSE i \in found : \A j \in found : i <= j
  BY DEF Find
<1>5. found \in SUBSET Nat /\ 0 \notin found
  BY <1>1 DEF Occurrences
<1> HIDE DEF found
<1>6. CASE found = {}
  BY <1>3, <1>4, <1>6
<1>7. CASE found # {}
  <2>1. \E i \in found : \A j \in found : i <= j
    BY <1>5, <1>7, LeastNat
  <2>2. Find(s, d) \in found /\ \A j \in found : Find(s, d) <= j
    BY <1>4, <1>7, <2>1
  <2> QED
    BY <1>3, <1>5, <2>2
<1> QED
  BY <1>6, <1>7

LEMMA Delimiters ==
  /\ CrLfCrLf \in Seq(Alphabet) /\ CrLfCrLf # <<>> /\ Len(CrLfCrLf) = 4
  /\ CrLfCrLf[1] = "CR" /\ CrLfCrLf[2] = "LF" /\ CrLfCrLf[3] = "CR" /\ CrLfCrLf[4] = "LF"
  /\ LfLf \in Seq(Alphabet) /\ LfLf # <<>> /\ Len(LfLf) = 2
  /\ LfLf[1] = "LF" /\ LfLf[2] = "LF"
<1>1. /\ CrLfCrLf \in Seq(Alphabet) /\ Len(CrLfCrLf) = 4
      /\ LfLf \in Seq(Alphabet) /\ Len(LfLf) = 2
  <2>1. CrLfCrLf \in Seq({"CR", "LF"}) /\ Len(CrLfCrLf) = 4
    BY DEF CrLfCrLf
  <2>2. LfLf \in Seq({"CR", "LF"}) /\ Len(LfLf) = 2
    BY DEF LfLf
  <2>3. {"CR", "LF"} \subseteq Alphabet
    BY FramingAssumption
  <2> QED
    BY <2>1, <2>2, <2>3, SeqMonotonic
<1>2. CrLfCrLf[1] = "CR" /\ CrLfCrLf[2] = "LF" /\ CrLfCrLf[3] = "CR" /\ CrLfCrLf[4] = "LF"
  BY DEF CrLfCrLf
<1>3. LfLf[1] = "LF" /\ LfLf[2] = "LF"
  BY DEF LfLf
<1>4. Len(<<>>) = 0
  OBVIOUS
<1>5. CrLfCrLf # <<>> /\ LfLf # <<>>
  <2>1. Len(CrLfCrLf) # Len(<<>>) /\ Len(LfLf) # Len(<<>>)
    BY <1>1, <1>4
  <2> QED
    BY <2>1, Zenon
<1> QED
  BY <1>1, <1>2, <1>3, <1>5

LEMMA OccursCrLf ==
  ASSUME NEW s \in Seq(Alphabet), NEW i \in Nat
  PROVE  Occurs(s, CrLfCrLf, i) <=>
           /\ i \in 1..(Len(s) - 3)
           /\ s[i] = "CR" /\ s[i + 1] = "LF" /\ s[i + 2] = "CR" /\ s[i + 3] = "LF"
<1> DEFINE d == CrLfCrLf
<1>1. Len(d) = 4 /\ d[1] = "CR" /\ d[2] = "LF" /\ d[3] = "CR" /\ d[4] = "LF"
  BY Delimiters
<1> HIDE DEF d
<1>2. (Len(s) - 4) + 1 = Len(s) - 3
  OBVIOUS
<1>3. (i + 1) - 1 = i /\ (i + 2) - 1 = i + 1 /\ (i + 3) - 1 = i + 2 /\ (i + 4) - 1 = i + 3
  OBVIOUS
<1>4. (\A k \in 1..4 : s[(i + k) - 1] = d[k])
        <=> s[i] = "CR" /\ s[i + 1] = "LF" /\ s[i + 2] = "CR" /\ s[i + 3] = "LF"
  <2>1. \A k \in 1..4 : k = 1 \/ k = 2 \/ k = 3 \/ k = 4
    OBVIOUS
  <2> QED
    BY <1>1, <1>3, <2>1
<1> QED
  BY <1>1, <1>2, <1>4 DEF Occurs, d

LEMMA OccursLf ==
  ASSUME NEW s \in Seq(Alphabet), NEW i \in Nat
  PROVE  Occurs(s, LfLf, i) <=> i \in 1..(Len(s) - 1) /\ s[i] = "LF" /\ s[i + 1] = "LF"
<1> DEFINE d == LfLf
<1>1. Len(d) = 2 /\ d[1] = "LF" /\ d[2] = "LF"
  BY Delimiters
<1> HIDE DEF d
<1>2. (Len(s) - 2) + 1 = Len(s) - 1
  OBVIOUS
<1>3. (i + 1) - 1 = i /\ (i + 2) - 1 = i + 1
  OBVIOUS
<1>4. (\A k \in 1..2 : s[(i + k) - 1] = d[k]) <=> s[i] = "LF" /\ s[i + 1] = "LF"
  <2>1. \A k \in 1..2 : k = 1 \/ k = 2
    OBVIOUS
  <2> QED
    BY <1>1, <1>3, <2>1
<1> QED
  BY <1>1, <1>2, <1>4 DEF Occurs, d

\* What the two searches find, byte by byte.
CrLfAt(s, i) ==
    /\ i \in 1..(Len(s) - 3)
    /\ s[i] = "CR" /\ s[i + 1] = "LF" /\ s[i + 2] = "CR" /\ s[i + 3] = "LF"
LfAt(s, i) == i \in 1..(Len(s) - 1) /\ s[i] = "LF" /\ s[i + 1] = "LF"

LEMMA FindsDelimiters ==
  ASSUME NEW s \in Seq(Alphabet)
  PROVE  /\ \/ Find(s, CrLfCrLf) = 0 /\ \A i \in Nat : ~CrLfAt(s, i)
            \/ /\ Find(s, CrLfCrLf) \in Nat \ {0} /\ CrLfAt(s, Find(s, CrLfCrLf))
               /\ \A i \in Nat : CrLfAt(s, i) => Find(s, CrLfCrLf) <= i
         /\ \/ Find(s, LfLf) = 0 /\ \A i \in Nat : ~LfAt(s, i)
            \/ /\ Find(s, LfLf) \in Nat \ {0} /\ LfAt(s, Find(s, LfLf))
               /\ \A i \in Nat : LfAt(s, i) => Find(s, LfLf) <= i
<1>1. \A i \in Nat : (Occurs(s, CrLfCrLf, i) <=> CrLfAt(s, i)) /\ (Occurs(s, LfLf, i) <=> LfAt(s, i))
  BY OccursCrLf, OccursLf DEF CrLfAt, LfAt
<1>2. \/ Find(s, CrLfCrLf) = 0 /\ \A i \in Nat : ~Occurs(s, CrLfCrLf, i)
      \/ /\ Find(s, CrLfCrLf) \in Nat \ {0} /\ Occurs(s, CrLfCrLf, Find(s, CrLfCrLf))
         /\ \A i \in Nat : Occurs(s, CrLfCrLf, i) => Find(s, CrLfCrLf) <= i
  BY Delimiters, FindDef
<1>3. \/ Find(s, LfLf) = 0 /\ \A i \in Nat : ~Occurs(s, LfLf, i)
      \/ /\ Find(s, LfLf) \in Nat \ {0} /\ Occurs(s, LfLf, Find(s, LfLf))
         /\ \A i \in Nat : Occurs(s, LfLf, i) => Find(s, LfLf) <= i
  BY Delimiters, FindDef
<1> QED
  BY <1>1, <1>2, <1>3

\* The header of a block is not found before its last byte is there.
LEMMA NotYet ==
  ASSUME NEW h \in Seq(Alphabet), NEW s \in Seq(Alphabet), Len(s) < Len(h),
         \A k \in 1..Len(s) : s[k] = h[k],
         findHeaderEnd(h).start # 0,
         findHeaderEnd(h).start + findHeaderEnd(h).size = Len(h) + 1
  PROVE  findHeaderEnd(s).start = 0
<1> DEFINE c == Find(h, CrLfCrLf)
           l == Find(h, LfLf)
<1>1. Len(s) \in Nat /\ Len(h) \in Nat
  OBVIOUS
<1>2. /\ \/ c = 0 /\ \A i \in Nat : ~CrLfAt(h, i)
         \/ c \in Nat \ {0} /\ CrLfAt(h, c) /\ \A i \in Nat : CrLfAt(h, i) => c <= i
      /\ \/ l = 0 /\ \A i \in Nat : ~LfAt(h, i)
         \/ l \in Nat \ {0} /\ LfAt(h, l) /\ \A i \in Nat : LfAt(h, i) => l <= i
  BY FindsDelimiters
<1>3. \/ c # 0 /\ (l = 0 \/ c < l) /\ c + 4 = Len(h) + 1
      \/ ~(c # 0 /\ (l = 0 \/ c < l)) /\ l # 0 /\ l + 2 = Len(h) + 1
  <2> HIDE DEF c, l
  <2>1. findHeaderEnd(h) = IF c # 0 /\ (l = 0 \/ c < l) THEN [start |-> c, size |-> 4]
                           ELSE [start |-> l, size |-> 2]
    BY DEF findHeaderEnd, c, l
  <2> QED
    BY <2>1
<1> HIDE DEF c, l
<1>4. \A i \in Nat : ~CrLfAt(s, i)
  <2> SUFFICES ASSUME NEW i \in Nat, CrLfAt(s, i)
               PROVE  FALSE
    OBVIOUS
  <2>1. i \in 1..(Len(s) - 3) /\ i \in 1..(Len(h) - 3)
    BY <1>1 DEF CrLfAt
  <2>2. i \in 1..Len(s) /\ i + 1 \in 1..Len(s) /\ i + 2 \in 1..Len(s) /\ i + 3 \in 1..Len(s)
    BY <1>1, <2>1
  <2>3. CrLfAt(h, i)
    BY <2>1, <2>2 DEF CrLfAt
  <2>4. c \in Nat /\ c <= i /\ c # 0 /\ l \in Nat
    BY <1>2, <2>3
  <2> QED
    BY <1>1, <1>3, <2>1, <2>4
<1>5. \A i \in Nat : ~LfAt(s, i)
  <2> SUFFICES ASSUME NEW i \in Nat, LfAt(s, i)
               PROVE  FALSE
    OBVIOUS
  <2>1. i \in 1..(Len(s) - 1) /\ i \in 1..(Len(h) - 1)
    BY <1>1 DEF LfAt
  <2>2. i \in 1..Len(s) /\ i + 1 \in 1..Len(s)
    BY <1>1, <2>1
  <2>3. LfAt(h, i) /\ h[i] = "LF" /\ h[i + 1] = "LF"
    BY <2>1, <2>2 DEF LfAt
  <2>4. l \in Nat /\ l <= i /\ l # 0 /\ c \in Nat
    BY <1>2, <2>3
  <2>5. c # 0 /\ c < l /\ c + 4 = Len(h) + 1
    BY <1>1, <1>3, <2>1, <2>4
  <2>6. i = c + 1
    BY <1>1, <2>1, <2>4, <2>5
  <2>7. h[c + 2] = "CR"
    BY <1>2, <2>5 DEF CrLfAt
  <2>8. i + 1 = c + 2
    BY <2>4, <2>6
  <2> QED
    BY <2>3, <2>7, <2>8
<1>6. Find(s, CrLfCrLf) = 0 /\ Find(s, LfLf) = 0
  BY <1>4, <1>5, FindsDelimiters
<1> QED
  BY <1>6 DEF findHeaderEnd

\* Whatever follows, its header is the one that is found.
LEMMA FoundThere ==
  ASSUME NEW h \in Seq(Alphabet), NEW s \in Seq(Alphabet), Len(h) <= Len(s),
         \A k \in 1..Len(h) : s[k] = h[k],
         findHeaderEnd(h).start # 0,
         findHeaderEnd(h).start + findHeaderEnd(h).size = Len(h) + 1
  PROVE  findHeaderEnd(s) = findHeaderEnd(h)
<1> DEFINE c == Find(h, CrLfCrLf)
           l == Find(h, LfLf)
           x == Find(s, CrLfCrLf)
           y == Find(s, LfLf)
<1>1. Len(s) \in Nat /\ Len(h) \in Nat
  OBVIOUS
<1>2. /\ \/ c = 0 /\ \A i \in Nat : ~CrLfAt(h, i)
         \/ c \in Nat \ {0} /\ CrLfAt(h, c) /\ \A i \in Nat : CrLfAt(h, i) => c <= i
      /\ \/ l = 0 /\ \A i \in Nat : ~LfAt(h, i)
         \/ l \in Nat \ {0} /\ LfAt(h, l) /\ \A i \in Nat : LfAt(h, i) => l <= i
  BY FindsDelimiters
<1>3. /\ \/ x = 0 /\ \A i \in Nat : ~CrLfAt(s, i)
         \/ x \in Nat \ {0} /\ CrLfAt(s, x) /\ \A i \in Nat : CrLfAt(s, i) => x <= i
      /\ \/ y = 0 /\ \A i \in Nat : ~LfAt(s, i)
         \/ y \in Nat \ {0} /\ LfAt(s, y) /\ \A i \in Nat : LfAt(s, i) => y <= i
  BY FindsDelimiters
<1>4. findHeaderEnd(h) = IF c # 0 /\ (l = 0 \/ c < l) THEN [start |-> c, size |-> 4]
                         ELSE [start |-> l, size |-> 2]
  BY DEF findHeaderEnd
<1>5. findHeaderEnd(s) = IF x # 0 /\ (y = 0 \/ x < y) THEN [start |-> x, size |-> 4]
                         ELSE [start |-> y, size |-> 2]
  BY DEF findHeaderEnd
<1> HIDE DEF c, l, x, y
<1>6. \A i \in Nat : CrLfAt(s, i) /\ i + 3 <= Len(h) => CrLfAt(h, i)
  <2> SUFFICES ASSUME NEW i \in Nat, CrLfAt(s, i), i + 3 <= Len(h)
               PROVE  CrLfAt(h, i)
    OBVIOUS
  <2>1. /\ i \in 1..(Len(h) - 3) /\ i \in 1..Len(h) /\ i + 1 \in 1..Len(h)
        /\ i + 2 \in 1..Len(h) /\ i + 3 \in 1..Len(h)
    BY <1>1 DEF CrLfAt
  <2> QED
    BY <2>1 DEF CrLfAt
<1>7. \A i \in Nat : LfAt(s, i) /\ i + 1 <= Len(h) => LfAt(h, i)
  <2> SUFFICES ASSUME NEW i \in Nat, LfAt(s, i), i + 1 <= Len(h)
               PROVE  LfAt(h, i)
    OBVIOUS
  <2>1. i \in 1..(Len(h) - 1) /\ i \in 1..Len(h) /\ i + 1 \in 1..Len(h)
    BY <1>1 DEF LfAt
  <2> QED
    BY <2>1 DEF LfAt
<1>8. CASE c # 0 /\ (l = 0 \/ c < l)
  <2>1. findHeaderEnd(h) = [start |-> c, size |-> 4] /\ c + 4 = Len(h) + 1
    BY <1>4, <1>8
  <2>2. c \in Nat /\ CrLfAt(h, c) /\ \A i \in Nat : CrLfAt(h, i) => c <= i
    BY <1>2, <1>8
  <2>3. CrLfAt(s, c) /\ s[c] = "CR"
    <3>1. /\ c \in 1..(Len(h) - 3) /\ c \in 1..(Len(s) - 3) /\ c \in 1..Len(h) /\ c + 1 \in 1..Len(h)
          /\ c + 2 \in 1..Len(h) /\ c + 3 \in 1..Len(h)
      BY <1>1, <2>2 DEF CrLfAt
    <3> QED
      BY <2>2, <3>1 DEF CrLfAt
  <2>4. x \in Nat /\ x # 0 /\ CrLfAt(s, x) /\ x <= c
    BY <1>3, <2>2, <2>3
  <2>5. x + 3 <= Len(h)
    BY <1>1, <2>1, <2>2, <2>4
  <2>6. CrLfAt(h, x)
    BY <1>6, <2>4, <2>5
  <2>7. x = c
    BY <2>2, <2>4, <2>6
  <2>8. y = 0 \/ c < y
    <3> SUFFICES ASSUME y # 0, ~(c < y)
                 PROVE  FALSE
      OBVIOUS
    <3>1. y \in Nat /\ LfAt(s, y)
      BY <1>3
    <3>2. y # c
      BY <2>3, <3>1 DEF LfAt
    <3>3. y < c /\ y + 1 <= Len(h)
      BY <1>1, <2>1, <2>2, <3>1, <3>2
    <3>4. LfAt(h, y)
      BY <1>7, <3>1, <3>3
    <3>5. l \in Nat /\ l # 0 /\ l <= y
      BY <1>2, <3>1, <3>4
    <3> QED
      BY <1>8, <2>2, <3>1, <3>3, <3>5
  <2> QED
    BY <1>5, <2>1, <2>4, <2>7, <2>8
<1>9. CASE ~(c # 0 /\ (l = 0 \/ c < l))
  <2>1. findHeaderEnd(h) = [start |-> l, size |-> 2] /\ l + 2 = Len(h) + 1 /\ l # 0
    BY <1>4, <1>9
  <2>2. l \in Nat /\ LfAt(h, l) /\ \A i \in Nat : LfAt(h, i) => l <= i
    BY <1>2, <2>1
  <2>3. LfAt(s, l) /\ s[l + 1] = "LF"
    <3>1. l \in 1..(Len(h) - 1) /\ l \in 1..(Len(s) - 1) /\ l \in 1..Len(h) /\ l + 1 \in 1..Len(h)
      BY <1>1, <2>2 DEF LfAt
    <3> QED
      BY <2>2, <3>1 DEF LfAt
  <2>4. y \in Nat /\ y # 0 /\ LfAt(s, y) /\ y <= l
    BY <1>3, <2>2, <2>3
  <2>5. y + 1 <= Len(h)
    BY <1>1, <2>1, <2>2, <2>4
  <2>6. LfAt(h, y)
    BY <1>7, <2>4, <2>5
  <2>7. y = l
    BY <2>2, <2>4, <2>6
  <2>8. x = 0 \/ ~(x < l)
    <3> SUFFICES ASSUME x # 0, x < l
                 PROVE  FALSE
      OBVIOUS
    <3>1. x \in Nat /\ CrLfAt(s, x)
      BY <1>3
    <3>2. CASE x + 3 <= Len(h)
      <4>1. CrLfAt(h, x)
        BY <1>6, <3>1, <3>2
      <4>2. c \in Nat /\ c # 0 /\ c <= x
        BY <1>2, <3>1, <4>1
      <4> QED
        BY <1>9, <2>2, <3>1, <4>2
    <3>3. CASE ~(x + 3 <= Len(h))
      <4>1. x + 2 = l + 1
        BY <1>1, <2>1, <2>2, <3>1, <3>3
      <4>2. s[x + 2] = "CR"
        BY <3>1 DEF CrLfAt
      <4> QED
        BY <2>3, <4>1, <4>2
    <3> QED
      BY <3>2, <3>3
  <2> QED
    BY <1>3, <1>5, <2>1, <2>2, <2>4, <2>7, <2>8
<1> QED
  BY <1>8, <1>9

LEMMA NoHeaderInNothing == findHeaderEnd(<<>>).start = 0
<1>1. <<>> \in Seq(Alphabet) /\ Len(<<>>) = 0
  BY EmptySeq
<1>2. \A i \in Nat : ~CrLfAt(<<>>, i) /\ ~LfAt(<<>>, i)
  BY <1>1 DEF CrLfAt, LfAt
<1>3. Find(<<>>, CrLfCrLf) = 0 /\ Find(<<>>, LfLf) = 0
  BY <1>1, <1>2, FindsDelimiters
<1> QED
  BY <1>3 DEF findHeaderEnd

-----------------------------------------------------------------------------
(***************************************************************************)
(* Parts of the wire.                                                      *)
(***************************************************************************)
LEMMA Window ==
  ASSUME NEW S, NEW w \in Seq(S), NEW a \in 0..Len(w), NEW b \in a..Len(w)
  PROVE  /\ SubSeq(w, a + 1, b) \in Seq(S) /\ Len(SubSeq(w, a + 1, b)) = b - a
         /\ \A j \in 1..(b - a) : SubSeq(w, a + 1, b)[j] = w[a + j]
<1> DEFINE t == SubSeq(w, a + 1, b)
<1>1. a + 1 \in Int /\ b \in Int /\ (b - (a + 1)) + 1 = b - a
  OBVIOUS
<1>2. \A i \in (a + 1)..b : w[i] \in S
  OBVIOUS
<1>3. /\ t \in Seq(S)
      /\ Len(t) = IF a + 1 <= b THEN (b - (a + 1)) + 1 ELSE 0
      /\ \A i \in 1..((b - (a + 1)) + 1) : t[i] = w[((a + 1) + i) - 1]
  BY <1>1, <1>2, SubSeqProperties
<1> HIDE DEF t
<1>4. Len(t) = b - a
  BY <1>3
<1>5. ASSUME NEW j \in 1..(b - a)
      PROVE  t[j] = w[a + j]
  <2>1. j \in 1..((b - (a + 1)) + 1) /\ ((a + 1) + j) - 1 = a + j
    OBVIOUS
  <2>2. t[j] = w[((a + 1) + j) - 1]
    BY <1>3, <2>1
  <2> QED
    BY <2>1, <2>2
<1> QED
  BY <1>3, <1>4, <1>5 DEF t

LEMMA WindowJoin ==
  ASSUME NEW S, NEW w \in Seq(S), NEW a \in 0..Len(w), NEW b \in a..Len(w), NEW c \in b..Len(w)
  PROVE  SubSeq(w, a + 1, b) \o SubSeq(w, b + 1, c) = SubSeq(w, a + 1, c)
<1>1. a + 1 \in 1..(Len(w) + 1) /\ b \in ((a + 1) - 1)..Len(w) /\ c \in b..Len(w)
  OBVIOUS
<1> QED
  BY <1>1, ConcatAdjacentSubSeq

LEMMA WindowOf ==
  ASSUME NEW S, NEW w \in Seq(S), NEW a \in 0..Len(w), NEW b \in a..Len(w),
         NEW i \in 0..(b - a), NEW j \in i..(b - a)
  PROVE  SubSeq(SubSeq(w, a + 1, b), i + 1, j) = SubSeq(w, (a + i) + 1, a + j)
<1> DEFINE v == SubSeq(w, a + 1, b)
           s == SubSeq(v, i + 1, j)
           t == SubSeq(w, (a + i) + 1, a + j)
<1>1. v \in Seq(S) /\ Len(v) = b - a /\ \A k \in 1..(b - a) : v[k] = w[a + k]
  BY Window
<1> HIDE DEF v
<1>2. i \in 0..Len(v) /\ j \in i..Len(v)
  BY <1>1
<1>3. s \in Seq(S) /\ Len(s) = j - i /\ \A k \in 1..(j - i) : s[k] = v[i + k]
  BY <1>1, <1>2, Window
<1>4. a + i \in 0..Len(w) /\ a + j \in (a + i)..Len(w) /\ (a + j) - (a + i) = j - i
  OBVIOUS
<1>5. t \in Seq(S) /\ Len(t) = j - i /\ \A k \in 1..(j - i) : t[k] = w[(a + i) + k]
  BY <1>4, Window
<1> HIDE DEF s, t
<1>6. ASSUME NEW k \in 1..Len(s)
      PROVE  s[k] = t[k]
  <2>1. k \in 1..(j - i) /\ i + k \in 1..(b - a) /\ a + (i + k) = (a + i) + k
    BY <1>3
  <2>2. s[k] = v[i + k] /\ v[i + k] = w[a + (i + k)] /\ t[k] = w[(a + i) + k]
    BY <1>1, <1>3, <1>5, <2>1
  <2> QED
    BY <2>1, <2>2
<1>7. s = t
  BY <1>3, <1>5, <1>6, SeqEqual
<1> QED
  BY <1>7 DEF s, t, v

\* The same bytes, wherever they are.
LEMMA SameBytes ==
  ASSUME NEW S, NEW w \in Seq(S), NEW a \in 0..Len(w), NEW t \in Seq(S), a + Len(t) <= Len(w),
         \A k \in 1..Len(t) : w[a + k] = t[k]
  PROVE  SubSeq(w, a + 1, a + Len(t)) = t
<1> DEFINE b == a + Len(t)
           s == SubSeq(w, a + 1, b)
<1>1. Len(t) \in Nat /\ b \in a..Len(w) /\ b - a = Len(t)
  OBVIOUS
<1> HIDE DEF b
<1>2. s \in Seq(S) /\ Len(s) = b - a /\ \A k \in 1..(b - a) : s[k] = w[a + k]
  BY <1>1, Window
<1> HIDE DEF s
<1>3. Len(s) = Len(t) /\ \A k \in 1..Len(s) : s[k] = t[k]
  BY <1>1, <1>2
<1>4. s = t
  BY <1>2, <1>3, SeqEqual
<1> QED
  BY <1>4 DEF s, b

-----------------------------------------------------------------------------
(***************************************************************************)
(* The bodies to deliver.                                                  *)
(***************************************************************************)
LEMMA BodiesType ==
  ASSUME NEW bs \in Seq(PeerBlocks), NEW end, NEW bound
  PROVE  \A i \in 0..Len(bs) : Bodies(bs, end, bound)[i] \in Seq(Seq(Alphabet))
<1> DEFINE B == Bodies(bs, end, bound)
           G == {i \in 0..Len(bs) : B[i] \in Seq(Seq(Alphabet))}
<1>0. B[0] = <<>> /\ \A i \in 1..Len(bs) : B[i] = IF Whole(bs, end, bound, i) THEN Append(B[i - 1], bs[i].body) ELSE B[i - 1]
  BY BodiesDef
<1> HIDE DEF B
<1>1. 0 \in G
  <2>1. B[0] \in Seq(Seq(Alphabet))
    <3>1. <<>> \in Seq(Seq(Alphabet))
      BY EmptySeq
    <3> QED
      BY <1>0, <3>1, Zenon
  <2> QED
    BY <2>1
<1>2. ASSUME NEW i \in 0..(Len(bs) - 1), i \in G
      PROVE  i + 1 \in G
  <2>1. i + 1 \in 1..Len(bs) /\ (i + 1) - 1 = i /\ i + 1 \in 0..Len(bs) /\ bs[i + 1] \in PeerBlocks
    OBVIOUS
  <2>2. B[i] \in Seq(Seq(Alphabet))
    BY <1>2
  <2>3. B[i + 1] = IF Whole(bs, end, bound, i + 1) THEN Append(B[i], bs[i + 1].body) ELSE B[i]
    BY <1>0, <2>1
  <2> DEFINE s == B[i]
             e == bs[i + 1].body
  <2>4. e \in Seq(Alphabet)
    BY <2>1, BlockBytes
  <2>5. s \in Seq(Seq(Alphabet))
    BY <2>2
  <2> HIDE DEF s, e
  <2>6. Append(s, e) \in Seq(Seq(Alphabet))
    BY <2>4, <2>5, AppendProperties
  <2>7. B[i + 1] \in Seq(Seq(Alphabet))
    BY <2>3, <2>5, <2>6 DEF s, e
  <2> QED
    BY <2>1, <2>7
<1>3. \A i \in 0..Len(bs) : i \in G
  <2> HIDE DEF G
  <2>1. Len(bs) \in Nat
    OBVIOUS
  <2> QED
    BY <1>1, <1>2, <2>1, Induct
<1> QED
  BY <1>3 DEF B

\* Blocks that are not whole add nothing.
LEMMA BodiesSame ==
  ASSUME NEW bs \in Seq(PeerBlocks), NEW end, NEW bound, NEW n \in 0..Len(bs),
         \A i \in (n + 1)..Len(bs) : ~Whole(bs, end, bound, i)
  PROVE  Bodies(bs, end, bound)[Len(bs)] = Bodies(bs, end, bound)[n]
<1> DEFINE B == Bodies(bs, end, bound)
           G == {d \in 0..(Len(bs) - n) : B[n + d] = B[n]}
<1>0. \A i \in 1..Len(bs) : B[i] = IF Whole(bs, end, bound, i) THEN Append(B[i - 1], bs[i].body) ELSE B[i - 1]
  BY BodiesDef
<1> HIDE DEF B
<1>1. 0 \in G
  <2>1. n + 0 = n
    OBVIOUS
  <2> QED
    BY <2>1
<1>2. ASSUME NEW d \in 0..((Len(bs) - n) - 1), d \in G
      PROVE  d + 1 \in G
  <2> DEFINE x == n + d
  <2>1. /\ x + 1 \in 1..Len(bs) /\ (x + 1) - 1 = x
        /\ n + (d + 1) = x + 1 /\ x + 1 \in (n + 1)..Len(bs)
    OBVIOUS
  <2>2. B[x] = B[n]
    BY <1>2
  <2> HIDE DEF x
  <2>3. B[x + 1] = B[x]
    BY <1>0, <2>1
  <2> QED
    BY <2>1, <2>2, <2>3
<1>3. Len(bs) - n \in Nat /\ Len(bs) - n \in 0..(Len(bs) - n) /\ n + (Len(bs) - n) = Len(bs)
  OBVIOUS
<1>4. \A d \in 0..(Len(bs) - n) : d \in G
  <2> HIDE DEF G
  <2> QED
    BY <1>1, <1>2, <1>3, Induct
<1>5. B[n + (Len(bs) - n)] = B[n]
  BY <1>3, <1>4
<1> QED
  BY <1>3, <1>5 DEF B

\* The bodies of a part of the blocks come first among those of all.
LEMMA BodiesPrefix ==
  ASSUME NEW bs \in Seq(PeerBlocks), NEW end, NEW bound, NEW n \in 0..Len(bs)
  PROVE  IsPrefix(Bodies(bs, end, bound)[n], Bodies(bs, end, bound)[Len(bs)])
<1> DEFINE B == Bodies(bs, end, bound)
           P(x) == /\ Len(B[n]) <= Len(B[x])
                   /\ \A k \in 1..Len(B[n]) : B[x][k] = B[n][k]
           G == {d \in 0..(Len(bs) - n) : P(n + d)}
<1>0. \A i \in 1..Len(bs) : B[i] = IF Whole(bs, end, bound, i) THEN Append(B[i - 1], bs[i].body) ELSE B[i - 1]
  BY BodiesDef
<1>t. \A i \in 0..Len(bs) : B[i] \in Seq(Seq(Alphabet))
  BY BodiesType
<1> HIDE DEF B
<1>1. 0 \in G
  <2>1. n + 0 = n /\ Len(B[n]) \in Nat
    BY <1>t
  <2> QED
    BY <2>1
<1>2. ASSUME NEW d \in 0..((Len(bs) - n) - 1), d \in G
      PROVE  d + 1 \in G
  <2> DEFINE x == n + d
  <2>1. /\ x + 1 \in 1..Len(bs) /\ x \in 0..Len(bs) /\ (x + 1) - 1 = x
        /\ n + (d + 1) = x + 1 /\ bs[x + 1] \in PeerBlocks
    OBVIOUS
  <2>2. P(x)
    BY <1>2
  <2> HIDE DEF x
  <2>3. B[x + 1] = IF Whole(bs, end, bound, x + 1) THEN Append(B[x], bs[x + 1].body) ELSE B[x]
    BY <1>0, <2>1
  <2> DEFINE s == B[x]
             e == bs[x + 1].body
  <2>4. s \in Seq(Seq(Alphabet)) /\ e \in Seq(Alphabet) /\ Len(B[n]) \in Nat /\ Len(s) \in Nat
    <3>1. s \in Seq(Seq(Alphabet)) /\ B[n] \in Seq(Seq(Alphabet))
      BY <1>t, <2>1
    <3>2. e \in Seq(Alphabet)
      BY <2>1, BlockBytes
    <3> HIDE DEF s, e
    <3>3. Len(B[n]) \in Nat /\ Len(s) \in Nat
      BY <3>1
    <3> QED
      BY <3>1, <3>2, <3>3
  <2> HIDE DEF s, e
  <2>5. Len(Append(s, e)) = Len(s) + 1 /\ \A k \in 1..Len(s) : Append(s, e)[k] = s[k]
    BY <2>4, AppendProperties
  <2>6. Len(s) <= Len(B[x + 1]) /\ \A k \in 1..Len(s) : B[x + 1][k] = s[k]
    <3>1. CASE Whole(bs, end, bound, x + 1)
      <4>1. B[x + 1] = Append(s, e)
        BY <2>3, <3>1 DEF s, e
      <4> QED
        BY <2>4, <2>5, <4>1
    <3>2. CASE ~Whole(bs, end, bound, x + 1)
      <4>1. B[x + 1] = s
        BY <2>3, <3>2 DEF s
      <4> QED
        BY <2>4, <4>1
    <3> QED
      BY <3>1, <3>2
  <2>7. Len(B[x + 1]) \in Nat
    <3>1. x + 1 \in 0..Len(bs)
      BY <2>1
    <3>2. B[x + 1] \in Seq(Seq(Alphabet))
      BY <1>t, <3>1
    <3> QED
      BY <3>2
  <2>8. P(x + 1)
    BY <2>2, <2>4, <2>6, <2>7 DEF s
  <2> QED
    BY <2>1, <2>8
<1>3. Len(bs) - n \in Nat /\ Len(bs) - n \in 0..(Len(bs) - n) /\ n + (Len(bs) - n) = Len(bs)
  OBVIOUS
<1>4. \A d \in 0..(Len(bs) - n) : d \in G
  <2> HIDE DEF G
  <2> QED
    BY <1>1, <1>2, <1>3, Induct
<1>5. P(Len(bs))
  <2>1. P(n + (Len(bs) - n))
    BY <1>3, <1>4
  <2> QED
    BY <1>3, <2>1
<1> DEFINE s == B[n]
           t == B[Len(bs)]
<1>6. s \in Seq(Seq(Alphabet)) /\ t \in Seq(Seq(Alphabet))
  <2>1. Len(bs) \in 0..Len(bs)
    OBVIOUS
  <2> QED
    BY <1>t, <2>1
<1>7. Len(s) <= Len(t) /\ \A k \in 1..Len(s) : t[k] = s[k]
  BY <1>5
<1> HIDE DEF s, t
<1>8. SubSeq(t, 1, Len(s)) = s
  <2>1. 0 \in 0..Len(t) /\ 0 + Len(s) <= Len(t) /\ 0 + 1 = 1 /\ 0 + Len(s) = Len(s) /\ \A k \in 1..Len(s) : 0 + k = k
    BY <1>6, <1>7
  <2>2. \A k \in 1..Len(s) : t[0 + k] = s[k]
    BY <1>7, <2>1
  <2>3. SubSeq(t, 0 + 1, 0 + Len(s)) = s
    BY <1>6, <2>1, <2>2, SameBytes
  <2> QED
    BY <2>1, <2>3
<1>9. SubSeq(s, 1, Len(s)) = s
  BY <1>6, SubSeqFull
<1> QED
  BY <1>7, <1>8, <1>9 DEF IsPrefix, s, t, B

-----------------------------------------------------------------------------
(***************************************************************************)
(* One block, as listen() meets it.                                        *)
(***************************************************************************)
\* The header is found when it is there, with the length it tells.
LEMMA HeaderMet ==
  ASSUME NEW bs \in Seq(PeerBlocks), NEW i \in 1..Len(bs), WellFormed(bs[i]),
         NEW b \in Ends(bs, i - 1)..Len(Bytes(bs))
  PROVE  LET a == Ends(bs, i - 1)
             c == a + Len(bs[i].head)
             v == SubSeq(Bytes(bs), a + 1, b)
             end == findHeaderEnd(v)
         IN /\ b < c => end.start = 0
            /\ c <= b => /\ end.start # 0
                         /\ parseHeaderBlock(SubSeq(v, 1, end.start - 1)) =
                              IF bs[i].sent THEN Len(bs[i].body) ELSE -1
                         /\ SubSeq(v, end.start + end.size, Len(v)) = SubSeq(Bytes(bs), c + 1, b)
<1> DEFINE w == Bytes(bs)
           h == bs[i].head
           t == bs[i].body
           a == Ends(bs, i - 1)
           c == a + Len(h)
           v == SubSeq(w, a + 1, b)
           e == findHeaderEnd(h)
<1>1. /\ w \in Seq(Alphabet) /\ a \in Nat /\ Ends(bs, i) = a + (Len(h) + Len(t)) /\ Ends(bs, i) <= Len(w)
      /\ \A k \in 1..Len(h) : w[a + k] = h[k]
  BY BlockAt
<1>2. h \in Seq(Alphabet) /\ t \in Seq(Alphabet) /\ Len(h) \in Nat /\ Len(t) \in Nat
  <2>1. bs[i] \in PeerBlocks
    OBVIOUS
  <2> QED
    BY <2>1, BlockBytes
<1>3. /\ e.start # 0 /\ e.start + e.size = Len(h) + 1
      /\ parseHeaderBlock(SubSeq(h, 1, e.start - 1)) = IF bs[i].sent THEN Len(t) ELSE -1
  BY DEF WellFormed
<1>4. e.start \in Nat /\ e.size \in {2, 4}
  <2>1. Find(h, CrLfCrLf) \in Nat /\ Find(h, LfLf) \in Nat
    BY <1>2, FindsDelimiters
  <2> QED
    BY <2>1 DEF findHeaderEnd
<1> HIDE DEF w, h, t, e
<1>5. a \in 0..Len(w) /\ b \in a..Len(w)
  BY <1>1, <1>2 DEF w
<1> HIDE DEF a
<1>6. v \in Seq(Alphabet) /\ Len(v) = b - a /\ \A j \in 1..(b - a) : v[j] = w[a + j]
  BY <1>1, <1>5, Window
<1> HIDE DEF v
<1>7. ASSUME b < c
      PROVE  findHeaderEnd(v).start = 0
  <2>1. Len(v) < Len(h)
    BY <1>1, <1>2, <1>5, <1>6, <1>7
  <2>2. \A k \in 1..Len(v) : v[k] = h[k]
    <3> SUFFICES ASSUME NEW k \in 1..Len(v)
                 PROVE  v[k] = h[k]
      OBVIOUS
    <3>1. k \in 1..(b - a) /\ k \in 1..Len(h)
      BY <1>2, <1>5, <1>6, <2>1
    <3> QED
      BY <1>1, <1>6, <3>1
  <2> QED
    BY <1>2, <1>3, <1>6, <2>1, <2>2, NotYet DEF e
<1>8. ASSUME c <= b
      PROVE  /\ findHeaderEnd(v) = e
             /\ SubSeq(v, 1, e.start - 1) = SubSeq(h, 1, e.start - 1)
             /\ SubSeq(v, e.start + e.size, Len(v)) = SubSeq(w, c + 1, b)
  <2>1. Len(h) <= Len(v) /\ \A k \in 1..Len(h) : k \in 1..(b - a)
    BY <1>1, <1>2, <1>5, <1>6, <1>8
  <2>2. \A k \in 1..Len(h) : v[k] = h[k]
    BY <1>1, <1>6, <2>1
  <2>3. findHeaderEnd(v) = e
    BY <1>2, <1>3, <1>6, <2>1, <2>2, FoundThere DEF e
  <2>4. SubSeq(v, 1, e.start - 1) = SubSeq(h, 1, e.start - 1)
    <3> DEFINE n == e.start - 1
               p == SubSeq(h, 1, n)
    <3>1. n \in Nat /\ n <= Len(h)
      BY <1>2, <1>3, <1>4
    <3> HIDE DEF n
    <3>2. 0 \in 0..Len(h) /\ n \in 0..Len(h) /\ 0 + 1 = 1 /\ n - 0 = n
      BY <1>2, <3>1
    <3>3. p \in Seq(Alphabet) /\ Len(p) = n /\ \A k \in 1..n : p[k] = h[0 + k]
      BY <1>2, <3>2, Window
    <3> HIDE DEF p
    <3>4. 0 \in 0..Len(v) /\ 0 + Len(p) <= Len(v) /\ 0 + Len(p) = n
      BY <1>2, <1>6, <2>1, <3>1, <3>3
    <3>5. \A k \in 1..Len(p) : v[0 + k] = p[k]
      <4> SUFFICES ASSUME NEW k \in 1..Len(p)
                   PROVE  v[0 + k] = p[k]
        OBVIOUS
      <4>1. 0 + k = k /\ k \in 1..n /\ k \in 1..Len(h)
        BY <1>2, <3>1, <3>3
      <4> QED
        BY <2>2, <3>3, <4>1
    <3>6. SubSeq(v, 0 + 1, 0 + Len(p)) = p
      BY <1>6, <3>3, <3>4, <3>5, SameBytes
    <3>7. SubSeq(v, 1, n) = p
      BY <3>2, <3>4, <3>6
    <3> QED
      BY <3>7 DEF n, p
  <2>5. SubSeq(v, e.start + e.size, Len(v)) = SubSeq(w, c + 1, b)
    <3>1. /\ Len(h) \in 0..(b - a) /\ b - a \in Len(h)..(b - a) /\ a + (b - a) = b
          /\ e.start + e.size = Len(h) + 1
      BY <1>1, <1>2, <1>3, <1>5, <1>6, <2>1
    <3>2. SubSeq(SubSeq(w, a + 1, b), Len(h) + 1, b - a) = SubSeq(w, (a + Len(h)) + 1, a + (b - a))
      BY <1>1, <1>5, <3>1, WindowOf
    <3> QED
      BY <1>6, <3>1, <3>2 DEF v
  <2> QED
    BY <2>3, <2>4, <2>5
<1>9. c <= b => /\ findHeaderEnd(v).start # 0
                /\ parseHeaderBlock(SubSeq(v, 1, findHeaderEnd(v).start - 1)) = IF bs[i].sent THEN Len(t) ELSE -1
                /\ SubSeq(v, findHeaderEnd(v).start + findHeaderEnd(v).size, Len(v)) = SubSeq(w, c + 1, b)
  BY <1>3, <1>8, Zenon
<1> QED
  BY <1>7, <1>9 DEF w, h, t, a, v

LEMMA WindowHalves ==
  ASSUME NEW S, NEW w \in Seq(S), NEW c \in 0..Len(w), NEW d \in c..Len(w), NEW n \in 0..(d - c)
  PROVE  /\ SubSeq(SubSeq(w, c + 1, d), 1, n) = SubSeq(w, c + 1, c + n)
         /\ SubSeq(SubSeq(w, c + 1, d), n + 1, d - c) = SubSeq(w, (c + n) + 1, d)
<1>1. \A i \in 0..(d - c) : \A j \in i..(d - c) :
        SubSeq(SubSeq(w, c + 1, d), i + 1, j) = SubSeq(w, (c + i) + 1, c + j)
  BY WindowOf
<1> DEFINE v == SubSeq(w, c + 1, d)
           o == d - c
<1>2. 0 \in 0..o /\ n \in 0..o /\ o \in n..o /\ 0 + 1 = 1 /\ c + 0 = c /\ c + o = d
  OBVIOUS
<1>3. \A i \in 0..o : \A j \in i..o : SubSeq(v, i + 1, j) = SubSeq(w, (c + i) + 1, c + j)
  BY <1>1
<1> HIDE DEF v, o
<1>4. SubSeq(v, 0 + 1, n) = SubSeq(w, (c + 0) + 1, c + n)
  BY <1>2, <1>3, Zenon
<1>5. SubSeq(v, n + 1, o) = SubSeq(w, (c + n) + 1, c + o)
  BY <1>2, <1>3, Zenon
<1>6. SubSeq(v, 1, n) = SubSeq(w, c + 1, c + n)
  BY <1>2, <1>4, Zenon
<1>7. SubSeq(v, n + 1, o) = SubSeq(w, (c + n) + 1, d)
  BY <1>2, <1>5, Zenon
<1> QED
  BY <1>6, <1>7 DEF v, o

LEMMA MissingBytes ==
  ASSUME NEW c \in Nat, NEW n \in Nat, NEW l \in Nat, NEW b \in c..l, c + n <= l,
         NEW m, m = IF n > b - c THEN n - (b - c) ELSE 0
  PROVE  m \in Nat /\ b + m = (IF c + n > b THEN c + n ELSE b) /\ b + m <= l
  OBVIOUS

\* With the bytes c + 1 to b of w in the buffer: the bytes of a body of size n
\* that are missing, and the buffer when they have been read.
BodyLacks(w, c, b, n) == BodyMissing(SubSeq(w, c + 1, b), n)
BodyFilled(w, c, b, n) == SubSeq(w, c + 1, b) \o SubSeq(w, b + 1, b + BodyLacks(w, c, b, n))

\* It then holds the body t, and after it what follows t in w.
BodyRead(w, c, b, t) ==
    /\ BodyLacks(w, c, b, Len(t)) \in Nat
    /\ b + BodyLacks(w, c, b, Len(t)) <= Len(w)
    /\ b + BodyLacks(w, c, b, Len(t)) = IF c + Len(t) > b THEN c + Len(t) ELSE b
    /\ SubSeq(BodyFilled(w, c, b, Len(t)), 1, Len(t)) = t
    /\ SubSeq(BodyFilled(w, c, b, Len(t)), Len(t) + 1, Len(BodyFilled(w, c, b, Len(t))))
         = SubSeq(w, (c + Len(t)) + 1, b + BodyLacks(w, c, b, Len(t)))

LEMMA BodyMet ==
  ASSUME NEW S, NEW w \in Seq(S), NEW c \in 0..Len(w), NEW b \in c..Len(w),
         NEW t \in Seq(S), c + Len(t) <= Len(w), \A k \in 1..Len(t) : w[c + k] = t[k]
  PROVE  BodyRead(w, c, b, t)
<1> DEFINE n == Len(t)
           z == c + n
           l == Len(w)
           rest == SubSeq(w, c + 1, b)
           missing == BodyMissing(rest, n)
           d == b + missing
           more == SubSeq(w, b + 1, d)
           all == SubSeq(w, c + 1, d)
<1>1. n \in Nat /\ l \in Nat /\ z <= l /\ c \in Nat /\ b \in c..l
  OBVIOUS
<1>2. Len(rest) = b - c
  BY Window
<1>3. missing = IF n > b - c THEN n - (b - c) ELSE 0
  BY <1>2 DEF BodyMissing
<1> HIDE DEF rest, missing, more, all
<1>4. missing \in Nat /\ d = (IF z > b THEN z ELSE b) /\ d <= l
  <2> HIDE DEF n, l
  <2> QED
    BY <1>1, <1>3, MissingBytes
<1>5. d \in b..l /\ d \in c..l /\ n \in 0..(d - c)
  <2> HIDE DEF n, l, d
  <2> QED
    BY <1>1, <1>4
<1> HIDE DEF d
<1>6. rest \o more = all
  BY <1>5, WindowJoin DEF rest, more, all
<1>7. Len(all) = d - c
  BY <1>5, Window DEF all
<1>8. /\ SubSeq(all, 1, n) = SubSeq(w, c + 1, z)
      /\ SubSeq(all, n + 1, d - c) = SubSeq(w, z + 1, d)
  BY <1>5, WindowHalves DEF all
<1>9. SubSeq(w, c + 1, z) = t
  BY SameBytes
<1>10. /\ missing \in Nat /\ d <= l /\ d = (IF z > b THEN z ELSE b)
       /\ SubSeq(rest \o more, 1, n) = t
       /\ SubSeq(rest \o more, n + 1, Len(rest \o more)) = SubSeq(w, z + 1, d)
  <2> HIDE DEF n, l, z
  <2>1. SubSeq(all, 1, n) = t /\ SubSeq(all, n + 1, Len(all)) = SubSeq(w, z + 1, d)
    BY <1>7, <1>8, <1>9, Zenon
  <2> QED
    BY <1>4, <1>6, <2>1, Zenon
<1>11. BodyLacks(w, c, b, n) = missing /\ BodyFilled(w, c, b, n) = rest \o more
  BY DEF BodyLacks, BodyFilled, rest, missing, d, more
<1> QED
  <2> HIDE DEF rest, more
  <2> QED
    BY <1>10, <1>11, Zenon DEF d, n, z, l, BodyRead

-----------------------------------------------------------------------------
(***************************************************************************)
(* The producer between two rounds of listen(): it has dealt with the      *)
(* first k blocks, and its buffer holds the bytes from there up to where   *)
(* it has read the stream.                                                 *)
(***************************************************************************)
Taken(bs, end, bound, pos, buf, out, k) ==
    /\ Ends(bs, k) <= pos
    /\ buf = SubSeq(Bytes(bs), Ends(bs, k) + 1, pos)
    /\ out = Bodies(bs, end, bound)[k]
    /\ bound.drop \/ \A j \in 1..k : ~Oversized(bs[j], bound)

FrameInv ==
    /\ blocks \in Wires /\ limit \in Limits
    /\ cut \in 0..Len(wire) /\ at \in 0..cut /\ listening \in BOOLEAN
    /\ listening => \E k \in 0..Len(blocks) :
                       Taken(blocks, cut, limit, at, buffer, delivered, k)
    /\ ~listening => delivered = WrittenWhole

LEMMA WiresType ==
  ASSUME NEW bs \in Wires
  PROVE  bs \in Seq(PeerBlocks) /\ \A i \in 1..Len(bs) : WellFormed(bs[i])
BY FramingAssumption DEF PeerBlocks

\* Where the blocks end.
LEMMA EndsType ==
  ASSUME NEW bs \in Seq(PeerBlocks), NEW k \in 0..Len(bs)
  PROVE  /\ Bytes(bs) \in Seq(Alphabet) /\ Len(Bytes(bs)) \in Nat
         /\ Ends(bs, k) \in 0..Len(Bytes(bs))
         /\ Ends(bs, 0) = 0 /\ Ends(bs, Len(bs)) = Len(Bytes(bs))
<1>1. Len(bs) \in Nat /\ Len(bs) \in k..Len(bs) /\ Len(bs) \in 0..Len(bs)
  OBVIOUS
<1>2. Bytes(bs) \in Seq(Alphabet) /\ Ends(bs, Len(bs)) = Len(Bytes(bs)) /\ Ends(bs, k) \in Nat
  BY <1>1, BytesType DEF Bytes, Ends
<1>3. Ends(bs, k) <= Ends(bs, Len(bs))
  BY <1>1, BytesPrefix
<1>4. Ends(bs, 0) = 0
  <2>1. BytesUpTo(bs)[0] = <<>>
    BY BytesUpToDef
  <2>2. Len(<<>>) = 0
    OBVIOUS
  <2> QED
    BY <2>1, <2>2, Zenon DEF Ends
<1>5. Len(Bytes(bs)) \in Nat
  BY <1>2
<1> QED
  BY <1>2, <1>3, <1>4, <1>5

\* No block after one that the stream cuts is whole.
LEMMA CutThere ==
  ASSUME NEW bs \in Seq(PeerBlocks), NEW end \in Nat, NEW bound,
         NEW k \in 0..(Len(bs) - 1), Ends(bs, k + 1) > end
  PROVE  Bodies(bs, end, bound)[Len(bs)] = Bodies(bs, end, bound)[k]
<1>1. k \in 0..Len(bs) /\ k + 1 \in 0..Len(bs)
  OBVIOUS
<1>2. ASSUME NEW i \in (k + 1)..Len(bs)
      PROVE  ~Whole(bs, end, bound, i)
  <2>1. i \in 0..Len(bs) /\ i \in (k + 1)..Len(bs)
    OBVIOUS
  <2>2. Ends(bs, k + 1) <= Ends(bs, i) /\ Ends(bs, k + 1) \in Nat /\ Ends(bs, i) \in Nat
    BY <1>1, <2>1, BytesPrefix, BytesType
  <2>3. ~(Ends(bs, i) <= end)
    BY <2>2
  <2> QED
    BY <2>3 DEF Whole
<1> QED
  BY <1>1, <1>2, BodiesSame

\* Nor is one after an oversized block that ends the producer.
LEMMA StoppedThere ==
  ASSUME NEW bs \in Seq(PeerBlocks), NEW end, NEW bound,
         NEW k \in 0..(Len(bs) - 1), Oversized(bs[k + 1], bound), ~bound.drop
  PROVE  Bodies(bs, end, bound)[Len(bs)] = Bodies(bs, end, bound)[k]
<1>1. k \in 0..Len(bs)
  OBVIOUS
<1>2. ASSUME NEW i \in (k + 1)..Len(bs)
      PROVE  ~Whole(bs, end, bound, i)
  <2>1. k + 1 \in 1..i
    OBVIOUS
  <2> QED
    BY <2>1 DEF Whole
<1> QED
  BY <1>1, <1>2, BodiesSame

\* The end of the input, where the header of the next block is not complete.
LEMMA NothingLost ==
  ASSUME NEW bs \in Wires, NEW end \in 0..Len(Bytes(bs)), NEW bound, NEW buf, NEW out,
         NEW k \in 0..Len(bs), Taken(bs, end, bound, end, buf, out, k),
         findHeaderEnd(buf).start = 0
  PROVE  out = Bodies(bs, end, bound)[Len(bs)]
<1>1. bs \in Seq(PeerBlocks) /\ \A i \in 1..Len(bs) : WellFormed(bs[i])
  BY WiresType
<1>2. CASE k = Len(bs)
  BY <1>2 DEF Taken
<1>3. CASE k # Len(bs)
  <2> DEFINE i == k + 1
             a == Ends(bs, k)
             c == a + Len(bs[i].head)
  <2>1. i \in 1..Len(bs) /\ i - 1 = k /\ k \in 0..(Len(bs) - 1)
    BY <1>1, <1>3
  <2> HIDE DEF i
  <2>2. /\ a \in Nat /\ a <= end /\ end \in Nat /\ end \in a..Len(Bytes(bs))
        /\ buf = SubSeq(Bytes(bs), a + 1, end) /\ out = Bodies(bs, end, bound)[k]
    <3>1. a \in 0..Len(Bytes(bs)) /\ Len(Bytes(bs)) \in Nat
      BY <1>1, EndsType
    <3> QED
      BY <3>1 DEF Taken
  <2>3. /\ Ends(bs, i) = a + (Len(bs[i].head) + Len(bs[i].body))
        /\ Len(bs[i].head) \in Nat /\ Len(bs[i].body) \in Nat
    <3>1. bs[i] \in PeerBlocks
      BY <1>1, <2>1
    <3> QED
      BY <1>1, <2>1, <3>1, BlockAt, BlockBytes
  <2>4. end < c
    <3>1. end \in Ends(bs, i - 1)..Len(Bytes(bs)) /\ WellFormed(bs[i])
      BY <1>1, <2>1, <2>2
    <3>2. c <= end => findHeaderEnd(SubSeq(Bytes(bs), Ends(bs, i - 1) + 1, end)).start # 0
      BY <1>1, <2>1, <3>1, HeaderMet
    <3>3. findHeaderEnd(SubSeq(Bytes(bs), Ends(bs, i - 1) + 1, end)).start = 0
      BY <2>1, <2>2
    <3>4. ~(c <= end)
      BY <3>2, <3>3
    <3> DEFINE h == Len(bs[i].head)
    <3>5. h \in Nat
      BY <2>3
    <3> HIDE DEF h, a
    <3> QED
      BY <2>2, <3>4, <3>5 DEF h
  <2>5. Ends(bs, k + 1) > end
    <3> DEFINE h == Len(bs[i].head)
               t == Len(bs[i].body)
               z == Ends(bs, i)
    <3>1. h \in Nat /\ t \in Nat /\ z = a + (h + t) /\ end < a + h
      BY <2>3, <2>4
    <3> HIDE DEF h, t, z, a
    <3>2. z > end
      BY <2>2, <3>1
    <3> QED
      BY <3>2 DEF z, i
  <2> QED
    BY <1>1, <2>1, <2>2, <2>5, CutThere
<1> QED
  BY <1>2, <1>3

\* The length in the header at the beginning of a buffer, and what follows it.
HeadLength(buf) == parseHeaderBlock(SubSeq(buf, 1, findHeaderEnd(buf).start - 1))
AfterHead(buf) ==
    SubSeq(buf, findHeaderEnd(buf).start + findHeaderEnd(buf).size, Len(buf))

\* A complete header in the buffer is the one of block k + 1.
HeaderRead(bs, k, pos, buf) ==
    /\ k \in 0..(Len(bs) - 1) /\ Ends(bs, k) + Len(bs[k + 1].head) <= pos
    /\ HeadLength(buf) = IF bs[k + 1].sent THEN Len(bs[k + 1].body) ELSE -1
    /\ AfterHead(buf) = SubSeq(Bytes(bs), (Ends(bs, k) + Len(bs[k + 1].head)) + 1, pos)

LEMMA NextHeader ==
  ASSUME NEW bs \in Wires, NEW end, NEW bound, NEW pos \in 0..Len(Bytes(bs)), NEW buf, NEW out,
         NEW k \in 0..Len(bs), Taken(bs, end, bound, pos, buf, out, k),
         findHeaderEnd(buf).start # 0
  PROVE  HeaderRead(bs, k, pos, buf)
<1>1. bs \in Seq(PeerBlocks) /\ \A i \in 1..Len(bs) : WellFormed(bs[i])
  BY WiresType
<1> DEFINE a == Ends(bs, k)
           w == Bytes(bs)
<1>2. /\ w \in Seq(Alphabet) /\ a \in Nat /\ Len(w) \in Nat /\ a \in 0..Len(w)
      /\ pos \in a..Len(w) /\ buf = SubSeq(w, a + 1, pos)
  <2>1. a \in 0..Len(w) /\ Len(w) \in Nat /\ w \in Seq(Alphabet)
    BY <1>1, EndsType
  <2> QED
    BY <2>1 DEF Taken
<1>3. k \in 0..(Len(bs) - 1)
  <2> SUFFICES ASSUME k = Len(bs)
               PROVE  FALSE
    BY <1>1
  <2>1. a = Len(w)
    BY <1>1, EndsType
  <2>2. pos = a
    BY <1>2, <2>1
  <2> HIDE DEF a, w
  <2>3. pos \in 0..Len(w) /\ pos \in pos..Len(w) /\ pos - pos = 0
    BY <1>2, <2>2
  <2>4. SubSeq(w, pos + 1, pos) \in Seq(Alphabet) /\ Len(SubSeq(w, pos + 1, pos)) = pos - pos
    BY <1>2, <2>3, Window
  <2>5. buf \in Seq(Alphabet) /\ Len(buf) = 0
    <3>1. buf = SubSeq(w, pos + 1, pos)
      BY <1>2, <2>2, Zenon
    <3> QED
      BY <2>3, <2>4, <3>1, Zenon
  <2>6. buf = <<>>
    BY <2>5, EmptySeq
  <2> QED
    BY <2>6, NoHeaderInNothing
<1> DEFINE i == k + 1
           c == a + Len(bs[i].head)
           v == SubSeq(w, a + 1, pos)
           e == findHeaderEnd(v)
<1>4. i \in 1..Len(bs) /\ i - 1 = k
  BY <1>1, <1>3
<1> HIDE DEF i
<1>5. Len(bs[i].head) \in Nat
  <2>1. bs[i] \in PeerBlocks
    BY <1>1, <1>4
  <2> QED
    BY <2>1, BlockBytes
<1>6. WellFormed(bs[i]) /\ pos \in Ends(bs, i - 1)..Len(Bytes(bs)) /\ a = Ends(bs, i - 1)
  BY <1>1, <1>2, <1>4
<1>7. /\ pos < c => e.start = 0
      /\ c <= pos => /\ parseHeaderBlock(SubSeq(v, 1, e.start - 1)) =
                          IF bs[i].sent THEN Len(bs[i].body) ELSE -1
                     /\ SubSeq(v, e.start + e.size, Len(v)) = SubSeq(w, c + 1, pos)
  <2>1. /\ pos < Ends(bs, i - 1) + Len(bs[i].head)
             => findHeaderEnd(SubSeq(w, Ends(bs, i - 1) + 1, pos)).start = 0
        /\ Ends(bs, i - 1) + Len(bs[i].head) <= pos =>
             LET u == SubSeq(w, Ends(bs, i - 1) + 1, pos)
                 f == findHeaderEnd(u)
             IN /\ parseHeaderBlock(SubSeq(u, 1, f.start - 1)) =
                     IF bs[i].sent THEN Len(bs[i].body) ELSE -1
                /\ SubSeq(u, f.start + f.size, Len(u))
                     = SubSeq(w, (Ends(bs, i - 1) + Len(bs[i].head)) + 1, pos)
    BY <1>1, <1>4, <1>6, HeaderMet
  <2> QED
    BY <1>6, <2>1, Zenon
<1>8. buf = v
  BY <1>2
<1>9. c <= pos
  <2>1. ~(pos < c)
    BY <1>7, <1>8
  <2> DEFINE h == Len(bs[i].head)
  <2>2. h \in Nat /\ a \in Nat /\ pos \in Nat /\ ~(pos < a + h)
    BY <1>2, <1>5, <2>1
  <2> HIDE DEF h, a, v, e, w
  <2>3. a + h <= pos
    BY <2>2
  <2> QED
    BY <2>3 DEF h
<1> HIDE DEF v
<1>10. /\ c <= pos
       /\ HeadLength(buf) = IF bs[i].sent THEN Len(bs[i].body) ELSE -1
       /\ AfterHead(buf) = SubSeq(w, c + 1, pos)
  BY <1>7, <1>8, <1>9, Zenon DEF HeadLength, AfterHead
<1> QED
  BY <1>3, <1>10, Zenon DEF i, HeaderRead

\* What the next block adds.
LEMMA NextBody ==
  ASSUME NEW bs \in Seq(PeerBlocks), NEW end, NEW bound, NEW k \in 0..(Len(bs) - 1)
  PROVE  Bodies(bs, end, bound)[k + 1] =
           IF Whole(bs, end, bound, k + 1) THEN Append(Bodies(bs, end, bound)[k], bs[k + 1].body)
           ELSE Bodies(bs, end, bound)[k]
<1>1. k + 1 \in 1..Len(bs) /\ (k + 1) - 1 = k
  OBVIOUS
<1>2. \A i \in 1..Len(bs) :
        Bodies(bs, end, bound)[i] = IF Whole(bs, end, bound, i) THEN Append(Bodies(bs, end, bound)[i - 1], bs[i].body) ELSE Bodies(bs, end, bound)[i - 1]
  BY BodiesDef
<1> QED
  BY <1>1, <1>2

\* A block without a length is skipped.
LEMMA NoiseSkipped ==
  ASSUME NEW bs \in Wires, NEW end, NEW bound \in Limits, NEW pos \in 0..Len(Bytes(bs)), NEW buf, NEW out,
         NEW k \in 0..(Len(bs) - 1), Taken(bs, end, bound, pos, buf, out, k),
         ~bs[k + 1].sent, Ends(bs, k) + Len(bs[k + 1].head) <= pos
  PROVE  Taken(bs, end, bound, pos,
               SubSeq(Bytes(bs), (Ends(bs, k) + Len(bs[k + 1].head)) + 1, pos), out, k + 1)
<1> DEFINE i == k + 1
           a == Ends(bs, k)
           h == Len(bs[i].head)
<1>1. bs \in Seq(PeerBlocks) /\ i \in 1..Len(bs) /\ i - 1 = k /\ WellFormed(bs[i])
  <2>1. bs \in Seq(PeerBlocks) /\ \A j \in 1..Len(bs) : WellFormed(bs[j])
    BY WiresType
  <2> QED
    BY <2>1
<1> HIDE DEF i
<1>2. bs[i].body = <<>> /\ Len(bs[i].body) = 0
  <2>1. ~bs[i].sent
    BY DEF i
  <2>2. bs[i].body = <<>>
    BY <1>1, <2>1 DEF WellFormed
  <2>3. Len(<<>>) = 0
    OBVIOUS
  <2> QED
    BY <2>2, <2>3, Zenon
<1>3. Ends(bs, i) = a + h
  <2>1. Ends(bs, i) = Ends(bs, i - 1) + (h + Len(bs[i].body)) /\ h \in Nat
    <3>1. bs[i] \in PeerBlocks
      BY <1>1
    <3> QED
      BY <1>1, <3>1, BlockAt, BlockBytes
  <2>2. h + 0 = h
    BY <2>1
  <2> QED
    BY <1>1, <1>2, <2>1, <2>2
<1>4. ~Oversized(bs[i], bound)
  <2>1. bound.max \in Nat
    BY FramingAssumption
  <2> QED
    BY <1>2, <2>1 DEF Oversized
<1>5. Bodies(bs, end, bound)[i] = Bodies(bs, end, bound)[k]
  <2>1. ~Whole(bs, end, bound, i)
    BY DEF Whole, i
  <2> QED
    BY <1>1, <2>1, NextBody DEF i
<1>6. bound.drop \/ \A j \in 1..i : ~Oversized(bs[j], bound)
  <2>1. \A j \in 1..i : j \in 1..k \/ j = i
    BY DEF i
  <2> QED
    BY <1>4, <2>1 DEF Taken
<1>7. a + h <= pos
  BY DEF i
<1> HIDE DEF a, h
<1>8. Taken(bs, end, bound, pos, SubSeq(Bytes(bs), (a + h) + 1, pos), out, i)
  <2>1. out = Bodies(bs, end, bound)[k]
    BY DEF Taken
  <2>2. out = Bodies(bs, end, bound)[i]
    BY <1>5, <2>1, Zenon
  <2> QED
    BY <1>3, <1>6, <1>7, <2>2 DEF Taken
<1> QED
  BY <1>8 DEF i, a, h

\* A body that the stream holds is taken; it is handed on unless it is too long.
LEMMA BodyTaken ==
  ASSUME NEW bs \in Wires, NEW end \in 0..Len(Bytes(bs)), NEW bound, NEW pos \in 0..end,
         NEW buf, NEW out,
         NEW k \in 0..(Len(bs) - 1), Taken(bs, end, bound, pos, buf, out, k),
         bs[k + 1].sent, Ends(bs, k + 1) <= end,
         ~(Oversized(bs[k + 1], bound) /\ ~bound.drop),
         NEW next, next = IF Ends(bs, k + 1) > pos THEN Ends(bs, k + 1) ELSE pos
  PROVE  /\ next \in 0..end
         /\ Taken(bs, end, bound, next, SubSeq(Bytes(bs), Ends(bs, k + 1) + 1, next),
                  IF Oversized(bs[k + 1], bound) THEN out ELSE Append(out, bs[k + 1].body), k + 1)
<1> DEFINE i == k + 1
           z == Ends(bs, i)
           add == IF Oversized(bs[i], bound) THEN out ELSE Append(out, bs[i].body)
<1>1. bs \in Seq(PeerBlocks) /\ i \in 0..Len(bs)
  BY WiresType
<1> HIDE DEF i
<1>2. z \in 0..Len(Bytes(bs)) /\ Len(Bytes(bs)) \in Nat
  BY <1>1, EndsType
<1>3. z <= end /\ next = IF z > pos THEN z ELSE pos
  BY DEF i
<1> HIDE DEF z
<1>4. next \in 0..end /\ z <= next
  BY <1>2, <1>3
<1>5. bound.drop \/ \A j \in 1..i : ~Oversized(bs[j], bound)
  <2>1. \A j \in 1..i : j \in 1..k \/ j = i
    BY DEF i
  <2>2. ~(Oversized(bs[i], bound) /\ ~bound.drop)
    BY DEF i
  <2>3. bound.drop \/ \A j \in 1..k : ~Oversized(bs[j], bound)
    BY DEF Taken
  <2> QED
    BY <2>1, <2>2, <2>3
<1>6. Whole(bs, end, bound, i) <=> ~Oversized(bs[i], bound)
  <2>1. bs[i].sent /\ Ends(bs, i) <= end
    BY DEF i
  <2> QED
    BY <1>5, <2>1 DEF Whole
<1>7. add = Bodies(bs, end, bound)[i]
  <2>1. out = Bodies(bs, end, bound)[k]
    BY DEF Taken
  <2>2. Bodies(bs, end, bound)[i] =
          IF Whole(bs, end, bound, i) THEN Append(Bodies(bs, end, bound)[k], bs[i].body)
          ELSE Bodies(bs, end, bound)[k]
    BY <1>1, NextBody DEF i
  <2>3. CASE Oversized(bs[i], bound)
    <3>1. ~Whole(bs, end, bound, i)
      BY <1>6, <2>3
    <3> QED
      BY <2>1, <2>2, <2>3, <3>1, Zenon
  <2>4. CASE ~Oversized(bs[i], bound)
    <3>1. Whole(bs, end, bound, i)
      BY <1>6, <2>4
    <3> QED
      BY <2>1, <2>2, <2>4, <3>1, Zenon
  <2> QED
    BY <2>3, <2>4
<1> HIDE DEF add
<1>8. Taken(bs, end, bound, next, SubSeq(Bytes(bs), z + 1, next), add, i)
  BY <1>4, <1>5, <1>7 DEF Taken, z
<1> QED
  BY <1>4, <1>8 DEF i, z, add

LEMMA FrameInvInit == FramingInit => FrameInv
<1> SUFFICES ASSUME FramingInit
             PROVE  FrameInv
  OBVIOUS
<1>1. PICK written \in Wires, bound \in Limits :
        \E end \in 0..Len(Bytes(written)) : FramingStarts(written, end, bound)
  BY DEF FramingInit
<1>2. PICK end \in 0..Len(Bytes(written)) : FramingStarts(written, end, bound)
  BY <1>1
<1>3. /\ blocks = written /\ cut = end /\ limit = bound
      /\ at = 0 /\ buffer = <<>> /\ listening = TRUE /\ delivered = <<>>
  BY <1>2 DEF FramingStarts
<1>4. written \in Seq(PeerBlocks) /\ 0 \in 0..Len(written)
  BY WiresType
<1>5. Ends(written, 0) = 0 /\ Bytes(written) \in Seq(Alphabet) /\ Len(Bytes(written)) \in Nat
  BY <1>4, EndsType
<1>6. SubSeq(Bytes(written), 0 + 1, 0) = <<>>
  <2> DEFINE w == Bytes(written)
             v == SubSeq(w, 0 + 1, 0)
  <2>1. w \in Seq(Alphabet) /\ 0 \in 0..Len(w) /\ 0 \in 0..0 /\ 0 - 0 = 0
    BY <1>5
  <2>2. v \in Seq(Alphabet) /\ Len(v) = 0
    <3> HIDE DEF w
    <3>1. 0 \in 0..Len(w)
      BY <2>1
    <3> QED
      BY <2>1, <3>1, Window
  <2> HIDE DEF v
  <2>3. v = <<>>
    BY <2>2, EmptySeq
  <2> QED
    BY <2>3 DEF v
<1>7. Bodies(written, end, bound)[0] = <<>>
  BY <1>4, BodiesDef
<1>8. Taken(written, end, bound, 0, <<>>, <<>>, 0)
  <2>1. \A j \in 1..0 : ~Oversized(written[j], bound)
    OBVIOUS
  <2>2. <<>> = SubSeq(Bytes(written), Ends(written, 0) + 1, 0)
    BY <1>5, <1>6, Zenon
  <2>3. Ends(written, 0) <= 0
    BY <1>5
  <2> QED
    BY <1>7, <2>1, <2>2, <2>3, Zenon DEF Taken
<1>9. Taken(blocks, cut, limit, at, buffer, delivered, 0)
  BY <1>3, <1>8, Zenon
<1>10. cut \in 0..Len(wire) /\ at \in 0..cut
  <2>1. cut \in 0..Len(wire)
    BY <1>3 DEF wire
  <2>2. 0 \in 0..end
    BY <1>5
  <2> QED
    BY <1>3, <2>1, <2>2, Zenon
<1>11. 0 \in 0..Len(blocks) /\ blocks \in Wires /\ limit \in Limits
  BY <1>3, <1>4, Zenon
<1>12. listening = TRUE
  BY <1>3
<1> HIDE DEF Taken
<1> QED
  BY <1>9, <1>10, <1>11, <1>12 DEF FrameInv

LEMMA FrameRead ==
  ASSUME FrameInv, readMore
  PROVE  FrameInv'
<1>1. PICK n \in 1..(cut - at) :
        /\ buffer' = buffer \o SubSeq(wire, at + 1, at + n)
        /\ at' = at + n
  BY DEF readMore
<1>2. blocks' = blocks /\ cut' = cut /\ limit' = limit /\ listening' = listening /\ delivered' = delivered
      /\ listening
  BY DEF readMore
<1>3. blocks \in Wires /\ limit \in Limits /\ cut \in 0..Len(wire) /\ at \in 0..cut /\ listening \in BOOLEAN
  BY DEF FrameInv
<1>4. PICK k \in 0..Len(blocks) : Taken(blocks, cut, limit, at, buffer, delivered, k)
  BY <1>2 DEF FrameInv
<1> DEFINE w == wire
           a == Ends(blocks, k)
<1>5. w \in Seq(Alphabet) /\ Len(w) \in Nat /\ a \in 0..Len(w)
  <2>1. blocks \in Seq(PeerBlocks)
    BY <1>3, WiresType
  <2> QED
    BY <2>1, EndsType DEF wire
<1>6. /\ a <= at /\ buffer = SubSeq(w, a + 1, at) /\ delivered = Bodies(blocks, cut, limit)[k]
      /\ limit.drop \/ \A j \in 1..k : ~Oversized(blocks[j], limit)
  BY <1>4 DEF Taken, wire
<1>7. cut \in 0..Len(w)
  BY <1>3
<1> HIDE DEF w, a
<1>8. /\ at \in a..Len(w) /\ at + n \in at..Len(w) /\ at + n \in 0..cut /\ a <= at + n
  BY <1>3, <1>5, <1>6, <1>7
<1>9. SubSeq(w, a + 1, at) \o SubSeq(w, at + 1, at + n) = SubSeq(w, a + 1, at + n)
  BY <1>5, <1>8, WindowJoin
<1>10. buffer' = SubSeq(w, a + 1, at')
  BY <1>1, <1>6, <1>9 DEF w
<1>11. Taken(blocks, cut, limit, at', buffer', delivered, k)
  BY <1>1, <1>6, <1>8, <1>10 DEF Taken, w, a, wire
<1>12. wire' = wire /\ WrittenWhole' = WrittenWhole
  BY <1>2 DEF wire, WrittenWhole
<1>13. at' \in 0..cut
  BY <1>1, <1>8
<1> HIDE DEF Taken
<1> QED
  BY <1>2, <1>3, <1>11, <1>12, <1>13 DEF FrameInv

LEMMA FrameEnds ==
  ASSUME FrameInv, InputEnds
  PROVE  FrameInv'
<1>1. /\ listening /\ findHeaderEnd(buffer).start = 0 /\ at = cut /\ listening' = FALSE
      /\ blocks' = blocks /\ cut' = cut /\ limit' = limit /\ at' = at /\ delivered' = delivered
  BY DEF InputEnds
<1>2. blocks \in Wires /\ limit \in Limits /\ cut \in 0..Len(wire) /\ at \in 0..cut
  BY DEF FrameInv
<1>3. PICK k \in 0..Len(blocks) : Taken(blocks, cut, limit, at, buffer, delivered, k)
  BY <1>1 DEF FrameInv
<1>4. Taken(blocks, cut, limit, cut, buffer, delivered, k)
  BY <1>1, <1>3, Zenon
<1>5. cut \in 0..Len(Bytes(blocks))
  BY <1>2 DEF wire
<1>6. delivered = WrittenWhole
  BY <1>1, <1>2, <1>4, <1>5, NothingLost DEF WrittenWhole
<1>7. wire' = wire /\ WrittenWhole' = WrittenWhole
  BY <1>1 DEF wire, WrittenWhole
<1> QED
  BY <1>1, <1>2, <1>6, <1>7 DEF FrameInv

LEMMA FrameTaken ==
  ASSUME FrameInv, TakeFrame
  PROVE  FrameInv'
<1> DEFINE w == wire
           found == findHeaderEnd(buffer)
           length == HeadLength(buffer)
           rest == AfterHead(buffer)
           oversized == limit.max # 0 /\ length > limit.max
           missing == BodyMissing(rest, length)
           ends == length >= 0 /\ ((oversized /\ ~limit.drop) \/ at + missing > cut)
           body == rest \o SubSeq(w, at + 1, at + missing)
<1>1. /\ listening /\ found.start # 0 /\ listening' = ~ends
      /\ blocks' = blocks /\ cut' = cut /\ limit' = limit
  BY DEF TakeFrame, HeadLength, AfterHead
<1>2. length < 0 \/ ends => buffer' = rest /\ at' = at /\ delivered' = delivered
  BY DEF TakeFrame, HeadLength, AfterHead
<1>3. ~(length < 0 \/ ends) =>
        /\ buffer' = SubSeq(body, length + 1, Len(body)) /\ at' = at + missing
        /\ delivered' = IF oversized THEN delivered ELSE Append(delivered, SubSeq(body, 1, length))
  BY DEF TakeFrame, HeadLength, AfterHead
<1>4. blocks \in Wires /\ limit \in Limits /\ cut \in 0..Len(wire) /\ at \in 0..cut
  BY DEF FrameInv
<1>5. PICK k \in 0..Len(blocks) : Taken(blocks, cut, limit, at, buffer, delivered, k)
  BY <1>1 DEF FrameInv
<1>6. blocks \in Seq(PeerBlocks) /\ w = Bytes(blocks) /\ w \in Seq(Alphabet) /\ Len(w) \in Nat
  <2>1. blocks \in Seq(PeerBlocks)
    BY <1>4, WiresType
  <2> QED
    BY <2>1, EndsType DEF wire
<1>7. cut \in 0..Len(Bytes(blocks)) /\ at \in 0..Len(Bytes(blocks)) /\ cut \in Nat /\ at \in Nat
  <2>1. cut \in 0..Len(Bytes(blocks))
    BY <1>4 DEF wire
  <2> QED
    BY <1>4, <1>6, <2>1
<1> DEFINE i == k + 1
           t == blocks[i].body
           a == Ends(blocks, k)
           h == Len(blocks[i].head)
           c == a + h
<1>8. /\ k \in 0..(Len(blocks) - 1) /\ c <= at
      /\ length = (IF blocks[i].sent THEN Len(t) ELSE -1)
      /\ rest = SubSeq(w, c + 1, at)
  <2>1. blocks \in Wires /\ at \in 0..Len(Bytes(blocks)) /\ findHeaderEnd(buffer).start # 0
    BY <1>1, <1>4, <1>7
  <2> HIDE DEF w, found, oversized, missing, ends, body
  <2>2. HeaderRead(blocks, k, at, buffer)
    BY <1>5, <2>1, NextHeader
  <2>3. w = Bytes(blocks)
    BY <1>6
  <2> QED
    BY <2>2, <2>3, Zenon DEF HeaderRead
<1> HIDE DEF w, found, length, rest, oversized, missing, ends, body
<1>9. i \in 1..Len(blocks) /\ i \in 0..Len(blocks) /\ i - 1 = k /\ blocks[i] \in PeerBlocks
  BY <1>6, <1>8
<1>10. wire' = wire /\ WrittenWhole' = WrittenWhole
  BY <1>1 DEF wire, WrittenWhole
<1>11. delivered = Bodies(blocks, cut, limit)[k]
  BY <1>5 DEF Taken
<1> HIDE DEF i
<1>12. CASE ~blocks[i].sent
  <2>1. length = -1
    BY <1>8, <1>12
  <2>2. ~ends /\ length < 0
    BY <2>1 DEF ends
  <2>3. buffer' = SubSeq(Bytes(blocks), c + 1, at) /\ at' = at /\ delivered' = delivered
    BY <1>2, <1>6, <1>8, <2>2
  <2>4. Taken(blocks, cut, limit, at, SubSeq(Bytes(blocks), c + 1, at), delivered, i)
    BY <1>4, <1>5, <1>7, <1>8, <1>12, NoiseSkipped DEF i
  <2>5. Taken(blocks', cut', limit', at', buffer', delivered', i)
    BY <1>1, <2>3, <2>4, Zenon
  <2> HIDE DEF Taken
  <2> QED
    BY <1>1, <1>4, <1>9, <1>10, <2>2, <2>3, <2>5 DEF FrameInv
<1>13. CASE blocks[i].sent
  <2> DEFINE z == Ends(blocks, i)
             n == Len(t)
             d == at + missing
  <2>1. t \in Seq(Alphabet) /\ n \in Nat /\ h \in Nat
    BY <1>9, BlockBytes
  <2>2. /\ a \in Nat /\ z = a + (h + n) /\ z <= Len(w)
        /\ \A j \in 1..n : w[(a + h) + j] = t[j]
    <3>1. /\ Ends(blocks, i - 1) \in Nat
          /\ Ends(blocks, i) = Ends(blocks, i - 1) + (h + n)
          /\ Ends(blocks, i) <= Len(Bytes(blocks))
          /\ \A j \in 1..n : Bytes(blocks)[(Ends(blocks, i - 1) + h) + j] = t[j]
      BY <1>6, <1>9, BlockAt
    <3> QED
      BY <1>6, <1>9, <3>1
  <2>3. length = n
    BY <1>8, <1>13
  <2> HIDE DEF t, a, h, z
  <2>4. z = c + n /\ c \in 0..Len(w) /\ at \in c..Len(w) /\ z \in Nat
    <3> DEFINE l == Len(w)
    <3>1. at \in 0..l /\ l \in Nat /\ z <= l
      BY <1>6, <1>7, <2>2
    <3>2. a \in Nat /\ h \in Nat /\ n \in Nat /\ z = a + (h + n) /\ a + h <= at
      BY <1>8, <2>1, <2>2
    <3> HIDE DEF n, l
    <3>3. z = (a + h) + n /\ a + h \in 0..l /\ at \in (a + h)..l /\ z \in Nat
      BY <3>1, <3>2
    <3> QED
      BY <3>3 DEF l
  <2>5. \A j \in 1..n : w[c + j] = t[j]
    BY <2>2
  <2> HIDE DEF c
  <2>6. /\ missing \in Nat /\ d <= Len(w) /\ d = (IF z > at THEN z ELSE at)
        /\ SubSeq(body, 1, n) = t
        /\ SubSeq(body, n + 1, Len(body)) = SubSeq(w, z + 1, d)
    <3>1. w \in Seq(Alphabet) /\ t \in Seq(Alphabet) /\ c + Len(t) <= Len(w) /\ \A j \in 1..Len(t) : w[c + j] = t[j]
      BY <1>6, <2>1, <2>2, <2>4, <2>5
    <3>2. c \in 0..Len(w) /\ at \in c..Len(w) /\ z = c + n /\ n = Len(t)
      BY <2>4
    <3>3. rest = SubSeq(w, c + 1, at) /\ missing = BodyMissing(rest, n)
      BY <1>8, <2>3 DEF missing
    <3>4. missing = BodyLacks(w, c, at, Len(t)) /\ body = BodyFilled(w, c, at, Len(t))
      BY <3>3 DEF BodyLacks, BodyFilled, body
    <3>5. BodyRead(w, c, at, t)
      BY <3>1, <3>2, BodyMet
    <3> HIDE DEF n
    <3>6. Len(t) = n
      BY <3>2
    <3> QED
      BY <3>2, <3>4, <3>5, <3>6, Zenon DEF BodyRead, d
  <2> HIDE DEF n, d
  <2>7. oversized <=> Oversized(blocks[i], limit)
    BY <2>3 DEF oversized, Oversized, n, t
  <2>8. ends <=> (oversized /\ ~limit.drop) \/ d > cut
    <3>1. length >= 0
      BY <2>1, <2>3
    <3> QED
      BY <3>1 DEF ends, d
  <2>9. CASE ends
    <3>1. delivered' = delivered /\ at' = at /\ listening' = FALSE
      BY <1>1, <1>2, <2>9
    <3>2. delivered = WrittenWhole
      <4>1. CASE oversized /\ ~limit.drop
        <5>1. Oversized(blocks[k + 1], limit) /\ ~limit.drop
          BY <2>7, <4>1 DEF i
        <5> QED
          BY <1>6, <1>8, <1>11, <5>1, StoppedThere DEF WrittenWhole
      <4>2. CASE d > cut
        <5>1. z > cut
          <6>1. at <= cut
            BY <1>4, <1>7
          <6> QED
            BY <1>7, <2>4, <2>6, <4>2, <6>1
        <5>2. Ends(blocks, k + 1) > cut
          BY <5>1 DEF z, i
        <5> QED
          BY <1>6, <1>7, <1>8, <1>11, <5>2, CutThere DEF WrittenWhole
      <4> QED
        BY <2>8, <2>9, <4>1, <4>2
    <3> QED
      BY <1>1, <1>4, <1>10, <3>1, <3>2 DEF FrameInv
  <2>10. CASE ~ends
    <3>1. ~(length < 0) /\ listening' = TRUE
      <4>1. ~(length < 0)
        BY <2>1, <2>3
      <4>2. listening' = TRUE
        <5>1. (~ends) = TRUE
          BY <2>10
        <5> QED
          BY <1>1, <5>1, Zenon
      <4> QED
        BY <4>1, <4>2
    <3>2. /\ buffer' = SubSeq(body, length + 1, Len(body)) /\ at' = d
          /\ delivered' = IF oversized THEN delivered ELSE Append(delivered, SubSeq(body, 1, length))
      BY <1>3, <2>10, <3>1 DEF d
    <3>3. /\ buffer' = SubSeq(w, z + 1, d)
          /\ delivered' = IF oversized THEN delivered ELSE Append(delivered, t)
      BY <2>3, <2>6, <3>2
    <3>4. d <= cut /\ z <= cut /\ ~(oversized /\ ~limit.drop)
      <4>1. d <= cut
        BY <1>7, <2>4, <2>6, <2>8, <2>10
      <4> QED
        BY <1>7, <2>4, <2>6, <2>8, <2>10, <4>1
    <3> DEFINE add == IF Oversized(blocks[i], limit) THEN delivered ELSE Append(delivered, t)
    <3>5. d \in 0..cut /\ Taken(blocks, cut, limit, d, SubSeq(Bytes(blocks), z + 1, d), add, i)
      <4>1. /\ blocks[k + 1].sent /\ Ends(blocks, k + 1) <= cut
            /\ ~(Oversized(blocks[k + 1], limit) /\ ~limit.drop)
            /\ d = IF Ends(blocks, k + 1) > at THEN Ends(blocks, k + 1) ELSE at
        BY <1>13, <2>6, <2>7, <3>4 DEF z, i
      <4> QED
        BY <1>4, <1>5, <1>7, <1>8, <4>1, BodyTaken DEF z, i, t
    <3>6. delivered' = add /\ buffer' = SubSeq(Bytes(blocks), z + 1, d)
      BY <1>6, <2>7, <3>3
    <3> HIDE DEF add
    <3>7. Taken(blocks', cut', limit', at', buffer', delivered', i)
      BY <1>1, <3>2, <3>5, <3>6, Zenon
    <3>8. at' \in 0..cut
      BY <3>2, <3>5
    <3> HIDE DEF Taken
    <3> QED
      BY <1>1, <1>4, <1>9, <1>10, <3>1, <3>7, <3>8 DEF FrameInv
  <2> QED
    BY <2>9, <2>10
<1> QED
  BY <1>12, <1>13

LEMMA FrameInvNext == FrameInv /\ [FramingNext]_framingVars => FrameInv'
<1> SUFFICES ASSUME FrameInv, [FramingNext]_framingVars
             PROVE  FrameInv'
  OBVIOUS
<1>1. CASE readMore
  BY <1>1, FrameRead
<1>2. CASE InputEnds
  BY <1>2, FrameEnds
<1>3. CASE TakeFrame
  BY <1>3, FrameTaken
<1>4. CASE UNCHANGED framingVars
  <2> HIDE DEF Taken
  <2> QED
    BY <1>4 DEF framingVars, FrameInv, WrittenWhole, wire
<1> QED
  BY <1>1, <1>2, <1>3, <1>4 DEF FramingNext

-----------------------------------------------------------------------------
(***************************************************************************)
(* The delimited producer, without a limit on the size of a message.       *)
(***************************************************************************)
OneByte(acc, x) == TakeByte(acc, x, 0, FALSE)
OneLine(acc, text) == [TakeLine(acc, text, 0, FALSE) EXCEPT !.line = <<>>]
ByteWise(acc, bytes) == TakeBytes(acc, bytes, 0, FALSE)

LEMMA ByteWiseDef ==
  ASSUME NEW acc, NEW bytes \in Seq(Alphabet)
  PROVE  /\ DOMAIN ByteWise(acc, bytes) = 0..Len(bytes)
         /\ ByteWise(acc, bytes)[0] = acc
         /\ \A i \in 1..Len(bytes) :
              ByteWise(acc, bytes)[i] = OneByte(ByteWise(acc, bytes)[i - 1], bytes[i])
<1> DEFINE N == Len(bytes)
           Base == acc
           Next(i, v) == OneByte(v, bytes[i])
           Solves(f, n) == f = [i \in 0..n |-> IF i = 0 THEN Base ELSE Next(i, f[i - 1])]
           X == ByteWise(acc, bytes)
           G == {n \in 0..N : \E f : Solves(f, n)}
<1>1. N \in Nat
  OBVIOUS
<1>2. X = CHOOSE f : Solves(f, N)
  BY DEF ByteWise, TakeBytes, OneByte
<1> HIDE DEF N, Base, Next, X
<1>3. 0 \in G
  <2>1. Solves([i \in 0..0 |-> Base], 0)
    OBVIOUS
  <2> HIDE DEF Solves
  <2> QED
    BY <1>1, <2>1
<1>4. ASSUME NEW n \in 0..(N - 1), n \in G
      PROVE  n + 1 \in G
  <2>1. PICK f : Solves(f, n)
    BY <1>4
  <2> DEFINE g == [i \in 0..(n + 1) |-> IF i = n + 1 THEN Next(n + 1, f[n]) ELSE f[i]]
  <2>2. \A i \in 0..(n + 1) : g[i] = IF i = 0 THEN Base ELSE Next(i, g[i - 1])
    <3> SUFFICES ASSUME NEW i \in 0..(n + 1)
                 PROVE  g[i] = IF i = 0 THEN Base ELSE Next(i, g[i - 1])
      OBVIOUS
    <3>1. CASE i = 0
      BY <2>1, <3>1
    <3>2. CASE i \in 1..n
      <4>1. g[i] = f[i] /\ g[i - 1] = f[i - 1]
        BY <3>2
      <4> QED
        BY <2>1, <3>2, <4>1
    <3>3. CASE i = n + 1
      <4>1. g[i] = Next(n + 1, f[n]) /\ i - 1 = n /\ g[n] = f[n]
        BY <3>3
      <4> QED
        BY <3>3, <4>1
    <3> QED
      BY <3>1, <3>2, <3>3
  <2>3. Solves(g, n + 1)
    BY <2>2
  <2> HIDE DEF g, Solves
  <2> QED
    BY <1>1, <2>3
<1>5. \E f : Solves(f, N)
  <2>1. \A n \in 0..N : n \in G
    <3> HIDE DEF G
    <3> QED
      BY <1>1, <1>3, <1>4, Induct
  <2> QED
    BY <1>1, <2>1
<1>6. Solves(X, N)
  <2> HIDE DEF Solves
  <2> QED
    BY <1>2, <1>5
<1>7. DOMAIN X = 0..N /\ X[0] = Base /\ \A i \in 1..N : X[i] = Next(i, X[i - 1])
  BY <1>1, <1>6
<1> QED
  BY <1>7 DEF N, Base, Next, X

\* What the producer holds after all the bytes.
Taking(acc, bytes) == ByteWise(acc, bytes)[Len(bytes)]

LEMMA TakingNothing ==
  ASSUME NEW acc
  PROVE  Taking(acc, <<>>) = acc
<1>1. <<>> \in Seq(Alphabet) /\ Len(<<>>) = 0
  BY EmptySeq
<1>2. ByteWise(acc, <<>>)[0] = acc
  BY <1>1, ByteWiseDef
<1> QED
  BY <1>1, <1>2, Zenon DEF Taking

LEMMA TakingJoined ==
  ASSUME NEW acc, NEW s \in Seq(Alphabet), NEW t \in Seq(Alphabet)
  PROVE  Taking(acc, s \o t) = Taking(Taking(acc, s), t)
<1> DEFINE u == s \o t
           A == ByteWise(acc, u)
           B == ByteWise(acc, s)
           b == B[Len(s)]
           C == ByteWise(b, t)
           n == Len(s)
           m == Len(t)
<1>1. /\ u \in Seq(Alphabet) /\ Len(u) = n + m /\ n \in Nat /\ m \in Nat
      /\ \A k \in 1..n : u[k] = s[k]
      /\ \A k \in 1..m : u[n + k] = t[k]
  BY Joined
<1> HIDE DEF u
<1>2. A[0] = acc /\ \A i \in 1..Len(u) : A[i] = OneByte(A[i - 1], u[i])
  <2>1. u \in Seq(Alphabet)
    BY <1>1
  <2> HIDE DEF B, C, b, n, m
  <2> QED
    BY <2>1, ByteWiseDef
<1>3. B[0] = acc /\ \A i \in 1..n : B[i] = OneByte(B[i - 1], s[i])
  BY ByteWiseDef
<1>4. C[0] = b /\ \A i \in 1..m : C[i] = OneByte(C[i - 1], t[i])
  BY ByteWiseDef
<1> HIDE DEF A, B, C, n, m
<1>5. \A i \in 0..n : A[i] = B[i]
  <2> DEFINE G == {i \in 0..n : A[i] = B[i]}
  <2>1. 0 \in G
    BY <1>1, <1>2, <1>3
  <2>2. ASSUME NEW i \in 0..(n - 1), i \in G
        PROVE  i + 1 \in G
    <3>1. i + 1 \in 1..n /\ i + 1 \in 1..Len(u) /\ (i + 1) - 1 = i /\ i + 1 \in 0..n
      BY <1>1
    <3>2. A[i] = B[i] /\ u[i + 1] = s[i + 1]
      BY <1>1, <2>2, <3>1
    <3>3. A[i + 1] = OneByte(A[i], u[i + 1]) /\ B[i + 1] = OneByte(B[i], s[i + 1])
      BY <1>2, <1>3, <3>1
    <3>4. A[i + 1] = B[i + 1]
      BY <3>2, <3>3, Zenon
    <3> QED
      BY <3>1, <3>4
  <2> HIDE DEF G
  <2>3. \A i \in 0..n : i \in G
    BY <1>1, <2>1, <2>2, Induct
  <2> QED
    BY <2>3 DEF G
<1>6. \A i \in 0..m : A[n + i] = C[i]
  <2> DEFINE G == {i \in 0..m : A[n + i] = C[i]}
  <2>1. 0 \in G
    <3>1. n \in 0..n /\ n + 0 = n /\ b = B[n]
      BY <1>1 DEF n
    <3> QED
      BY <1>1, <1>4, <1>5, <3>1
  <2>2. ASSUME NEW i \in 0..(m - 1), i \in G
        PROVE  i + 1 \in G
    <3> DEFINE x == n + i
    <3>1. /\ i + 1 \in 1..m /\ x + 1 \in 1..Len(u) /\ (i + 1) - 1 = i /\ i + 1 \in 0..m
          /\ (x + 1) - 1 = x /\ n + (i + 1) = x + 1
      BY <1>1
    <3>2. A[x] = C[i] /\ u[n + (i + 1)] = t[i + 1]
      BY <1>1, <2>2, <3>1
    <3> HIDE DEF x
    <3>3. A[x + 1] = OneByte(A[x], u[x + 1]) /\ C[i + 1] = OneByte(C[i], t[i + 1])
      BY <1>2, <1>4, <3>1
    <3>4. A[n + (i + 1)] = C[i + 1]
      BY <3>1, <3>2, <3>3
    <3> QED
      BY <3>1, <3>4
  <2> HIDE DEF G
  <2>3. \A i \in 0..m : i \in G
    BY <1>1, <2>1, <2>2, Induct
  <2> QED
    BY <2>3 DEF G
<1>7. A[Len(u)] = C[m]
  <2>1. m \in 0..m
    BY <1>1
  <2> QED
    BY <1>1, <1>6, <2>1
<1>8. Taking(acc, u) = A[Len(u)] /\ Taking(acc, s) = b /\ Taking(b, t) = C[m]
  BY DEF Taking, A, B, C, m
<1> QED
  BY <1>7, <1>8, Zenon DEF u

LEMMA TakingOne ==
  ASSUME NEW acc, NEW x \in Alphabet
  PROVE  Taking(acc, <<x>>) = OneByte(acc, x)
<1> DEFINE s == <<x>>
           A == ByteWise(acc, s)
<1>1. s \in Seq(Alphabet) /\ Len(s) = 1 /\ s[1] = x
  OBVIOUS
<1> HIDE DEF s
<1>2. A[0] = acc /\ \A i \in 1..Len(s) : A[i] = OneByte(A[i - 1], s[i])
  BY <1>1, ByteWiseDef
<1>3. Taking(acc, s) = A[Len(s)]
  BY DEF Taking
<1> HIDE DEF A
<1>4. 1 \in 1..Len(s) /\ 1 - 1 = 0
  BY <1>1
<1>5. A[1] = OneByte(acc, x)
  BY <1>1, <1>2, <1>4
<1> QED
  BY <1>1, <1>3, <1>5 DEF s

\* The byte steps of a producer that has not ended.
LEMMA HoldingBytes ==
  ASSUME NEW l, NEW j, NEW o
  PROVE  /\ OneByte(Holding(l, j, o), "CR") = Holding(l, j, o)
         /\ \A x : x \notin {"CR", "LF"} =>
              OneByte(Holding(l, j, o), x) = Holding(Append(l, x), j, o)
         /\ l = <<>> => OneByte(Holding(l, j, o), "LF") = Holding(l, j, o)
         /\ l # <<>> => OneByte(Holding(l, j, o), "LF") = OneLine(Holding(l, j, o), trimWhitespace(l))
<1> DEFINE no == FALSE
           H(x) == [line |-> x, json |-> j, out |-> o, ended |-> no]
           h == H(l)
<1>1. ~no
  OBVIOUS
<1>2. \A x : Holding(x, j, o) = H(x)
  BY Zenon DEF Holding
<1> HIDE DEF no
<1>3. h.line = l /\ h.ended = no
  OBVIOUS
<1>4. \A x : [h EXCEPT !.line = Append(@, x)] = H(Append(l, x))
  OBVIOUS
<1> HIDE DEF h
<1>5. OneByte(h, "CR") = h
  BY DEF OneByte, TakeByte
<1>6. \A x : x \notin {"CR", "LF"} => OneByte(h, x) = H(Append(l, x))
  BY <1>1, <1>3, <1>4 DEF OneByte, TakeByte
<1>7. l = <<>> => OneByte(h, "LF") = h
  BY <1>1, <1>3 DEF OneByte, TakeByte
<1>8. l # <<>> => OneByte(h, "LF") = OneLine(h, trimWhitespace(l))
  BY <1>1, <1>3 DEF OneByte, TakeByte, OneLine
<1>9. h = Holding(l, j, o)
  BY <1>2, Zenon DEF h
<1> QED
  BY <1>2, <1>5, <1>6, <1>7, <1>8, <1>9, Zenon

\* What a complete line does to it.
LEMMA HoldingLine ==
  ASSUME NEW l, NEW j, NEW o, NEW text
  PROVE  OneLine(Holding(l, j, o), text) =
           IF IsDelimiter(text) THEN Holding(<<>>, <<>>, Append(o, j))
           ELSE IF IsComment(text) THEN Holding(<<>>, j, o) ELSE Holding(<<>>, j \o text, o)
<1> DEFINE no == FALSE
           H(x, y, z) == [line |-> x, json |-> y, out |-> z, ended |-> no]
           h == H(l, j, o)
<1>1. \A x, y, z : Holding(x, y, z) = H(x, y, z)
  BY Zenon DEF Holding
<1> HIDE DEF no
<1>2. OneLine(h, text) = [TakeLine(h, text, 0, FALSE) EXCEPT !.line = <<>>]
  BY Zenon DEF OneLine
<1>3. h.line = l /\ h.json = j /\ h.out = o
  OBVIOUS
<1>4. CASE IsDelimiter(text)
  <2> DEFINE none == <<>>
             oj == Append(o, j)
  <2>1. TakeLine(h, text, 0, FALSE) = H(l, none, oj)
    BY <1>1, <1>3, <1>4, Zenon DEF TakeLine
  <2> HIDE DEF none, oj
  <2>2. [H(l, none, oj) EXCEPT !.line = none] = H(none, none, oj)
    OBVIOUS
  <2>3. none = <<>>
    BY DEF none
  <2> HIDE DEF h, H
  <2>4. OneLine(h, text) = H(none, none, oj)
    BY <1>2, <2>1, <2>2, <2>3, Zenon
  <2> QED
    BY <1>1, <1>4, <2>4, Zenon DEF h, none, oj
<1>5. CASE ~IsDelimiter(text) /\ IsComment(text)
  <2>1. TakeLine(h, text, 0, FALSE) = h
    BY <1>5, Zenon DEF TakeLine
  <2>2. [h EXCEPT !.line = <<>>] = H(<<>>, j, o)
    OBVIOUS
  <2> HIDE DEF h, H
  <2>3. OneLine(h, text) = H(<<>>, j, o)
    BY <1>2, <2>1, <2>2, Zenon
  <2> QED
    BY <1>1, <1>5, <2>3, Zenon DEF h
<1>6. CASE ~IsDelimiter(text) /\ ~IsComment(text)
  <2> DEFINE none == <<>>
             jt == j \o text
  <2>1. TakeLine(h, text, 0, FALSE) = H(l, jt, o)
    BY <1>1, <1>3, <1>6, Zenon DEF TakeLine
  <2> HIDE DEF none, jt
  <2>2. [H(l, jt, o) EXCEPT !.line = none] = H(none, jt, o)
    OBVIOUS
  <2>3. none = <<>>
    BY DEF none
  <2> HIDE DEF h, H
  <2>4. OneLine(h, text) = H(none, jt, o)
    BY <1>2, <2>1, <2>2, <2>3, Zenon
  <2> QED
    BY <1>1, <1>6, <2>4, Zenon DEF h, none, jt
<1> QED
  BY <1>4, <1>5, <1>6

\* A byte after two sequences is a byte after the second.
Extends(s, t, x) == Append(s \o t, x) = s \o Append(t, x)

LEMMA AppendOver ==
  ASSUME NEW S, NEW s \in Seq(S), NEW t \in Seq(S), NEW x \in S
  PROVE  Extends(s, t, x)
<1> DEFINE u == s \o t
           v == Append(t, x)
           a == Append(u, x)
           b == s \o v
           n == Len(s)
           m == Len(t)
<1>1. /\ u \in Seq(S) /\ Len(u) = n + m /\ n \in Nat /\ m \in Nat
      /\ \A k \in 1..n : u[k] = s[k]
      /\ \A k \in 1..m : u[n + k] = t[k]
  BY Joined
<1>2. v \in Seq(S) /\ Len(v) = m + 1 /\ v[m + 1] = x /\ \A k \in 1..m : v[k] = t[k]
  BY Appended
<1> HIDE DEF u, v
<1>3. a \in Seq(S) /\ Len(a) = Len(u) + 1 /\ a[Len(u) + 1] = x /\ \A k \in 1..Len(u) : a[k] = u[k]
  BY <1>1, Appended
<1>4. /\ b \in Seq(S) /\ Len(b) = n + Len(v)
      /\ \A k \in 1..n : b[k] = s[k]
      /\ \A k \in 1..Len(v) : b[n + k] = v[k]
  <2>1. v \in Seq(S)
    BY <1>2
  <2> HIDE DEF a, m
  <2> QED
    BY <2>1, Joined
<1> HIDE DEF a, b, n, m
<1>5. Len(a) = Len(b)
  BY <1>1, <1>2, <1>3, <1>4
<1>6. ASSUME NEW k \in 1..Len(a)
      PROVE  a[k] = b[k]
  <2>1. CASE k \in 1..n
    <3>1. k \in 1..Len(u)
      BY <1>1, <2>1
    <3> QED
      BY <1>1, <1>3, <1>4, <2>1, <3>1
  <2>2. CASE k \in (n + 1)..(n + m)
    <3> DEFINE q == k - n
    <3>1. q \in 1..m /\ q \in 1..Len(v) /\ k \in 1..Len(u) /\ n + q = k
      BY <1>1, <1>2, <2>2
    <3> HIDE DEF q
    <3>2. a[n + q] = t[q] /\ b[n + q] = t[q]
      BY <1>1, <1>2, <1>3, <1>4, <3>1
    <3> QED
      BY <3>1, <3>2
  <2>3. CASE k = (n + m) + 1
    <3>1. k = Len(u) + 1 /\ k = n + (m + 1) /\ m + 1 \in 1..Len(v)
      BY <1>1, <1>2, <2>3
    <3>2. a[k] = x
      BY <1>3, <3>1
    <3>3. b[n + (m + 1)] = x
      BY <1>2, <1>4, <3>1
    <3> QED
      BY <3>1, <3>2, <3>3
  <2> QED
    BY <1>1, <1>3, <2>1, <2>2, <2>3
<1>7. a = b
  BY <1>3, <1>4, <1>5, <1>6, SeqEqual
<1> QED
  BY <1>7 DEF a, b, u, v, Extends

LEMMA OneMore ==
  ASSUME NEW S, NEW s \in Seq(S), NEW i \in 0..(Len(s) - 1)
  PROVE  SubSeq(s, 1, i + 1) = Append(SubSeq(s, 1, i), s[i + 1])
<1> DEFINE p == SubSeq(s, 1, i)
           q == SubSeq(s, 1, i + 1)
           x == s[i + 1]
           a == Append(p, x)
<1>1. i \in 0..Len(s) /\ i + 1 \in 0..Len(s) /\ x \in S /\ 0 \in 0..Len(s)
  OBVIOUS
<1>2. p \in Seq(S) /\ Len(p) = i /\ \A k \in 1..i : p[k] = s[k]
  OBVIOUS
<1>3. q \in Seq(S) /\ Len(q) = i + 1 /\ \A k \in 1..(i + 1) : q[k] = s[k]
  OBVIOUS
<1> HIDE DEF p, q
<1>4. a \in Seq(S) /\ Len(a) = i + 1 /\ a[i + 1] = x /\ \A k \in 1..i : a[k] = p[k]
  BY <1>1, <1>2, Appended
<1> HIDE DEF a
<1>5. ASSUME NEW k \in 1..Len(q)
      PROVE  q[k] = a[k]
  <2>1. k \in 1..i \/ k = i + 1
    BY <1>3
  <2>2. q[k] = s[k]
    BY <1>3
  <2> QED
    BY <1>2, <1>4, <2>1, <2>2
<1>6. q = a
  BY <1>3, <1>4, <1>5, SeqEqual
<1> QED
  BY <1>6 DEF q, a, p

LEMMA ScriptBytes ==
  /\ Blanks \subseteq Alphabet /\ {"SP"} \subseteq Alphabet /\ "LF" \in Alphabet
  /\ Seq(Blanks) \subseteq Seq(Alphabet) /\ Seq({"SP"}) \subseteq Seq(Alphabet)
<1>1. Blanks \subseteq Alphabet /\ {"SP"} \subseteq Alphabet /\ "LF" \in Alphabet
  BY FramingAssumption DEF Blanks
<1> QED
  BY <1>1, SeqMonotonic

\* White space leaves spaces on the line.
LEMMA TakingBlanks ==
  ASSUME NEW l \in Seq(Alphabet), NEW j, NEW o, NEW s \in Seq(Blanks)
  PROVE  \E r \in Seq({"SP"}) : Taking(Holding(l, j, o), s) = Holding(l \o r, j, o)
<1> DEFINE A == ByteWise(Holding(l, j, o), s)
           P(i) == \E r \in Seq({"SP"}) : A[i] = Holding(l \o r, j, o)
           G == {i \in 0..Len(s) : P(i)}
<1>1. A[0] = Holding(l, j, o) /\ \A i \in 1..Len(s) : A[i] = OneByte(A[i - 1], s[i])
  <2>1. s \in Seq(Alphabet)
    BY ScriptBytes
  <2> QED
    BY <2>1, ByteWiseDef
<1> HIDE DEF A
<1>2. 0 \in G
  <2>1. <<>> \in Seq({"SP"}) /\ l \o <<>> = l
    OBVIOUS
  <2>2. P(0)
    BY <1>1, <2>1, Zenon
  <2>3. 0 \in 0..Len(s)
    OBVIOUS
  <2> HIDE DEF P
  <2> QED
    BY <2>2, <2>3
<1>3. ASSUME NEW i \in 0..(Len(s) - 1), i \in G
      PROVE  i + 1 \in G
  <2>1. PICK r \in Seq({"SP"}) : A[i] = Holding(l \o r, j, o)
    BY <1>3
  <2>2. i + 1 \in 1..Len(s) /\ (i + 1) - 1 = i /\ i + 1 \in 0..Len(s) /\ s[i + 1] \in Blanks
    OBVIOUS
  <2>3. A[i + 1] = OneByte(Holding(l \o r, j, o), s[i + 1])
    BY <1>1, <2>1, <2>2
  <2>4. CASE s[i + 1] = "CR"
    <3>1. A[i + 1] = Holding(l \o r, j, o)
      BY <2>3, <2>4, HoldingBytes
    <3>2. P(i + 1)
      BY <3>1
    <3> HIDE DEF P
    <3> QED
      BY <2>2, <3>2
  <2>5. CASE s[i + 1] = "SP"
    <3>1. A[i + 1] = Holding(Append(l \o r, "SP"), j, o)
      <4>1. "SP" \notin {"CR", "LF"}
        OBVIOUS
      <4>2. OneByte(Holding(l \o r, j, o), "SP") = Holding(Append(l \o r, "SP"), j, o)
        BY <4>1, HoldingBytes
      <4> QED
        BY <2>3, <2>5, <4>2, Zenon
    <3>2. Append(l \o r, "SP") = l \o Append(r, "SP") /\ Append(r, "SP") \in Seq({"SP"})
      <4>1. r \in Seq(Alphabet) /\ "SP" \in Alphabet
        BY ScriptBytes
      <4>2. "SP" \in {"SP"}
        OBVIOUS
      <4>3. Append(r, "SP") \in Seq({"SP"})
        BY <4>2, Appended
      <4>4. Extends(l, r, "SP")
        BY <4>1, AppendOver
      <4> QED
        BY <4>3, <4>4 DEF Extends
    <3>3. P(i + 1)
      BY <3>1, <3>2, Zenon
    <3> HIDE DEF P
    <3> QED
      BY <2>2, <3>3
  <2> QED
    BY <2>2, <2>4, <2>5 DEF Blanks
<1>4. \A i \in 0..Len(s) : i \in G
  <2>1. Len(s) \in Nat
    OBVIOUS
  <2> HIDE DEF G
  <2> QED
    BY <1>2, <1>3, <2>1, Induct
<1>5. P(Len(s))
  <2>1. Len(s) \in 0..Len(s)
    OBVIOUS
  <2> HIDE DEF P
  <2> QED
    BY <1>4, <2>1
<1> QED
  BY <1>5 DEF Taking, A

\* Text is put on the line.
LEMMA TakingText ==
  ASSUME NEW l \in Seq(Alphabet), NEW j, NEW o, NEW s \in Seq(Alphabet),
         \A i \in 1..Len(s) : s[i] \notin {"CR", "LF"}
  PROVE  Taking(Holding(l, j, o), s) = Holding(l \o s, j, o)
<1> DEFINE A == ByteWise(Holding(l, j, o), s)
           G == {i \in 0..Len(s) : A[i] = Holding(l \o SubSeq(s, 1, i), j, o)}
<1>1. A[0] = Holding(l, j, o) /\ \A i \in 1..Len(s) : A[i] = OneByte(A[i - 1], s[i])
  BY ByteWiseDef
<1> HIDE DEF A
<1>2. 0 \in G
  <2>1. SubSeq(s, 1, 0) = <<>> /\ l \o <<>> = l /\ 0 \in 0..Len(s)
    OBVIOUS
  <2>2. A[0] = Holding(l \o SubSeq(s, 1, 0), j, o)
    BY <1>1, <2>1, Zenon
  <2> QED
    BY <2>1, <2>2
<1>3. ASSUME NEW i \in 0..(Len(s) - 1), i \in G
      PROVE  i + 1 \in G
  <2> DEFINE p == SubSeq(s, 1, i)
             x == s[i + 1]
  <2>1. i + 1 \in 1..Len(s) /\ (i + 1) - 1 = i /\ i + 1 \in 0..Len(s) /\ i \in 0..Len(s)
    OBVIOUS
  <2>2. p \in Seq(Alphabet) /\ x \in Alphabet /\ x \notin {"CR", "LF"}
    BY <2>1, Parts
  <2>3. SubSeq(s, 1, i + 1) = Append(p, x)
    BY <2>1, OneMore
  <2>4. A[i] = Holding(l \o p, j, o)
    BY <1>3
  <2> HIDE DEF p, x
  <2>5. A[i + 1] = OneByte(Holding(l \o p, j, o), x)
    BY <1>1, <2>1, <2>4 DEF x
  <2>6. OneByte(Holding(l \o p, j, o), x) = Holding(Append(l \o p, x), j, o)
    BY <2>2, HoldingBytes
  <2>7. Append(l \o p, x) = l \o Append(p, x)
    <3>1. Extends(l, p, x)
      BY <2>2, AppendOver
    <3> QED
      BY <3>1 DEF Extends
  <2>8. A[i + 1] = Holding(l \o SubSeq(s, 1, i + 1), j, o)
    BY <2>3, <2>5, <2>6, <2>7, Zenon
  <2> QED
    BY <2>1, <2>8
<1>4. \A i \in 0..Len(s) : i \in G
  <2>1. Len(s) \in Nat
    OBVIOUS
  <2> HIDE DEF G
  <2> QED
    BY <1>2, <1>3, <2>1, Induct
<1>5. A[Len(s)] = Holding(l \o SubSeq(s, 1, Len(s)), j, o)
  <2>1. Len(s) \in 0..Len(s)
    OBVIOUS
  <2> QED
    BY <1>4, <2>1
<1>6. SubSeq(s, 1, Len(s)) = s
  BY SubSeqFull
<1> QED
  BY <1>5, <1>6, Zenon DEF Taking, A

\* Spaces on both sides of a text are what trimWhitespace takes away.
LEMMA TrimmedText ==
  ASSUME NEW l \in Seq({"SP"}), NEW r \in Seq({"SP"}), NEW t \in Seq(Alphabet), Trimmed(t)
  PROVE  trimWhitespace((l \o t) \o r) = t /\ (((l \o t) \o r = <<>>) => t = <<>>)
<1> DEFINE s == l \o t
           u == s \o r
           a == Len(l)
           m == Len(t)
           z == Len(r)
           T == {i \in 1..Len(u) : u[i] # "SP"}
<1>1. l \in Seq(Alphabet) /\ r \in Seq(Alphabet)
  BY ScriptBytes
<1>2. /\ s \in Seq(Alphabet) /\ Len(s) = a + m /\ a \in Nat /\ m \in Nat
      /\ \A k \in 1..a : s[k] = l[k]
      /\ \A k \in 1..m : s[a + k] = t[k]
  BY <1>1, Joined
<1> HIDE DEF s
<1>3. /\ u \in Seq(Alphabet) /\ Len(u) = Len(s) + z /\ z \in Nat
      /\ \A k \in 1..Len(s) : u[k] = s[k]
      /\ \A k \in 1..z : u[Len(s) + k] = r[k]
  <2>1. s \in Seq(Alphabet) /\ r \in Seq(Alphabet)
    BY <1>1, <1>2
  <2> QED
    BY <2>1, Joined
<1> HIDE DEF u
<1>4. (\A k \in 1..a : l[k] = "SP") /\ (\A k \in 1..z : r[k] = "SP")
  OBVIOUS
<1> HIDE DEF a, m, z
<1>5. \A i \in T : i \in (a + 1)..(a + m)
  <2> SUFFICES ASSUME NEW i \in T, i \notin (a + 1)..(a + m)
               PROVE  FALSE
    OBVIOUS
  <2>1. i \in 1..Len(u) /\ u[i] # "SP" /\ i \in Int
    OBVIOUS
  <2>2. CASE i <= a
    <3>1. i \in 1..a /\ i \in 1..Len(s)
      BY <1>2, <2>1, <2>2
    <3> QED
      BY <1>2, <1>3, <1>4, <2>1, <3>1
  <2>3. CASE i > a + m
    <3> DEFINE k == i - (a + m)
    <3>1. k \in 1..z /\ Len(s) + k = i
      BY <1>2, <1>3, <2>1, <2>3
    <3> HIDE DEF k
    <3>2. u[Len(s) + k] = "SP"
      BY <1>3, <1>4, <3>1
    <3> QED
      BY <2>1, <3>1, <3>2
  <2> QED
    BY <1>2, <2>1, <2>2, <2>3
<1>6. \A k \in 1..m : u[a + k] = t[k] /\ a + k \in 1..Len(u)
  <2> SUFFICES ASSUME NEW k \in 1..m
               PROVE  u[a + k] = t[k] /\ a + k \in 1..Len(u)
    OBVIOUS
  <2>1. a + k \in 1..Len(s) /\ a + k \in 1..Len(u)
    BY <1>2, <1>3
  <2> QED
    BY <1>2, <1>3, <2>1
<1>7. trimWhitespace(u) = IF T = {} THEN <<>> ELSE SubSeq(u, Min(T), Max(T))
  BY Zenon DEF trimWhitespace
<1>8. CASE t = <<>>
  <2>1. m = 0
    BY <1>8 DEF m
  <2>2. T = {}
    <3> HIDE DEF T
    <3>1. \A i \in T : i \in (a + 1)..(a + 0)
      BY <1>5, <2>1
    <3> QED
      BY <1>2, <3>1
  <2> QED
    BY <1>7, <1>8, <2>2, Zenon DEF u, s
<1>9. CASE t # <<>>
  <2>1. m >= 1 /\ t[1] # "SP" /\ t[m] # "SP"
    <3>1. m >= 1
      BY <1>9, EmptySeq DEF m
    <3> QED
      BY <1>9, <3>1 DEF Trimmed, m
  <2>2. a + 1 \in T /\ a + m \in T /\ 1 \in 1..m /\ m \in 1..m
    <3>1. 1 \in 1..m /\ m \in 1..m
      BY <1>2, <2>1
    <3> QED
      BY <1>6, <2>1, <3>1
  <2> HIDE DEF T
  <2>3. Min(T) = a + 1
    <3>1. (a + 1 \in T /\ \A y \in T : a + 1 <= y) /\ a + 1 \in Int
      BY <1>2, <1>5, <2>2
    <3>2. \E x \in T : \A y \in T : x <= y
      BY <3>1
    <3>3. Min(T) \in T /\ \A y \in T : Min(T) <= y
      BY <3>2 DEF Min
    <3>4. Min(T) \in Int
      BY <1>2, <1>5, <3>3
    <3>5. Min(T) <= a + 1 /\ a + 1 <= Min(T)
      BY <3>1, <3>3
    <3> QED
      BY <3>1, <3>4, <3>5
  <2>4. Max(T) = a + m
    <3>1. (a + m \in T /\ \A y \in T : a + m >= y) /\ a + m \in Int
      BY <1>2, <1>5, <2>2
    <3>2. \E x \in T : \A y \in T : x >= y
      BY <3>1
    <3>3. Max(T) \in T /\ \A y \in T : Max(T) >= y
      BY <3>2 DEF Max
    <3>4. Max(T) \in Int
      BY <1>2, <1>5, <3>3
    <3>5. Max(T) >= a + m /\ a + m >= Max(T)
      BY <3>1, <3>3
    <3> QED
      BY <3>1, <3>4, <3>5
  <2>5. SubSeq(u, a + 1, a + m) = t
    <3>1. a \in 0..Len(u) /\ a + Len(t) <= Len(u) /\ \A k \in 1..Len(t) : u[a + k] = t[k]
      BY <1>2, <1>3, <1>6 DEF m
    <3>2. SubSeq(u, a + 1, a + Len(t)) = t
      BY <1>3, <3>1, SameBytes
    <3> QED
      BY <3>2 DEF m
  <2>6. T # {}
    BY <2>2
  <2>7. trimWhitespace(u) = t
    BY <1>7, <2>3, <2>4, <2>5, <2>6, Zenon
  <2>8. u # <<>>
    <3>1. Len(u) # 0
      BY <1>2, <1>3, <2>1
    <3>2. Len(<<>>) = 0
      OBVIOUS
    <3> QED
      BY <3>1, <3>2, Zenon
  <2> QED
    BY <2>7, <2>8, Zenon DEF u, s
<1> QED
  BY <1>8, <1>9

\* One line.
LEMMA LineTaken ==
  ASSUME NEW line \in ScriptLines, Trimmed(line.text), NEW j \in Seq(Alphabet), NEW o
  PROVE  /\ LineBytes(line) \in Seq(Alphabet)
         /\ Taking(Holding(<<>>, j, o), LineBytes(line)) =
              IF IsDelimiter(line.text) THEN Holding(<<>>, <<>>, Append(o, j))
              ELSE Holding(<<>>, j \o TextOf(line), o)
<1> DEFINE h == Holding(<<>>, j, o)
           w == line.left
           t == line.text
           e == line.right
           s == w \o t
           v == s \o e
           f == <<"LF">>
<1>1. w \in Seq(Blanks) /\ t \in Seq(Alphabet) /\ e \in Seq(Blanks) /\ Trimmed(t)
  BY DEF ScriptLines
<1>2. w \in Seq(Alphabet) /\ e \in Seq(Alphabet) /\ f \in Seq(Alphabet) /\ "LF" \in Alphabet
      /\ <<>> \in Seq(Alphabet)
  BY <1>1, ScriptBytes
<1>3. LineBytes(line) = v \o f /\ TextOf(line) = IF IsComment(t) THEN <<>> ELSE t
  BY DEF LineBytes, TextOf
<1> HIDE DEF h, w, t, e
<1>4. s \in Seq(Alphabet)
  BY <1>1, <1>2, Joined
<1> HIDE DEF s
<1>5. v \in Seq(Alphabet)
  BY <1>2, <1>4, Joined
<1> HIDE DEF v, f
<1>6. v \o f \in Seq(Alphabet)
  BY <1>2, <1>5, Joined
<1>7. PICK x \in Seq({"SP"}) : Taking(h, w) = Holding(<<>> \o x, j, o)
  <2> DEFINE nil == <<>>
  <2>1. nil \in Seq(Alphabet)
    BY <1>2
  <2> HIDE DEF nil
  <2>2. \E x \in Seq({"SP"}) : Taking(Holding(nil, j, o), w) = Holding(nil \o x, j, o)
    BY <1>1, <2>1, TakingBlanks
  <2> QED
    BY <2>2, Zenon DEF h, nil
<1>8. x \in Seq(Alphabet) /\ <<>> \o x = x
  BY ScriptBytes
<1>9. Taking(h, s) = Holding(x \o t, j, o)
  <2>1. Taking(h, s) = Taking(Taking(h, w), t)
    BY <1>1, <1>2, TakingJoined DEF s
  <2>2. Taking(Holding(x, j, o), t) = Holding(x \o t, j, o)
    BY <1>1, <1>8, TakingText DEF Trimmed
  <2> QED
    BY <1>7, <1>8, <2>1, <2>2, Zenon
<1>10. x \o t \in Seq(Alphabet)
  BY <1>1, <1>8, Joined
<1> DEFINE q == x \o t
<1>11. q \in Seq(Alphabet)
  BY <1>10
<1>12. PICK y \in Seq({"SP"}) : Taking(Holding(q, j, o), e) = Holding(q \o y, j, o)
  <2> HIDE DEF q
  <2> QED
    BY <1>1, <1>11, TakingBlanks
<1> DEFINE c == (x \o t) \o y
<1>13. Taking(h, v) = Holding(c, j, o)
  <2>1. Taking(h, v) = Taking(Taking(h, s), e)
    BY <1>2, <1>4, TakingJoined DEF v
  <2> QED
    BY <1>9, <1>12, <2>1, Zenon
<1>14. trimWhitespace(c) = t /\ (c = <<>> => t = <<>>)
  BY <1>1, TrimmedText
<1> HIDE DEF c
<1>15. Taking(h, v \o f) = OneByte(Holding(c, j, o), "LF")
  <2>1. Taking(h, v \o f) = Taking(Taking(h, v), f)
    BY <1>2, <1>5, TakingJoined
  <2>2. Taking(Holding(c, j, o), f) = OneByte(Holding(c, j, o), "LF")
    BY <1>2, TakingOne DEF f
  <2> QED
    BY <1>13, <2>1, <2>2, Zenon
<1>16. j \o <<>> = j
  OBVIOUS
<1>17. CASE c = <<>>
  <2>1. OneByte(Holding(c, j, o), "LF") = Holding(c, j, o)
    BY <1>17, HoldingBytes
  <2>2. t = <<>>
    BY <1>14, <1>17
  <2>3. ~IsDelimiter(t) /\ ~IsComment(t)
    <3>1. <<>> # <<"// -----">>
      <4>1. Len(<<>>) = 0 /\ Len(<<"// -----">>) = 1
        OBVIOUS
      <4> QED
        BY <4>1
    <3> QED
      BY <2>2, <3>1, Zenon DEF IsDelimiter, IsComment
  <2>4. Taking(h, v \o f) = Holding(<<>>, j \o TextOf(line), o)
    BY <1>3, <1>15, <1>16, <1>17, <2>1, <2>2, <2>3, Zenon
  <2> QED
    BY <1>3, <1>6, <2>3, <2>4, Zenon DEF h, t
<1>18. CASE c # <<>>
  <2>1. OneByte(Holding(c, j, o), "LF") = OneLine(Holding(c, j, o), t)
    BY <1>14, <1>18, HoldingBytes
  <2>2. OneLine(Holding(c, j, o), t) =
          IF IsDelimiter(t) THEN Holding(<<>>, <<>>, Append(o, j))
          ELSE IF IsComment(t) THEN Holding(<<>>, j, o) ELSE Holding(<<>>, j \o t, o)
    BY HoldingLine
  <2>3. CASE IsDelimiter(t)
    BY <1>3, <1>6, <1>15, <2>1, <2>2, <2>3, Zenon DEF h, t
  <2>4. CASE ~IsDelimiter(t) /\ IsComment(t)
    <3>1. Taking(h, v \o f) = Holding(<<>>, j \o TextOf(line), o)
      BY <1>3, <1>15, <1>16, <2>1, <2>2, <2>4, Zenon
    <3> QED
      BY <1>3, <1>6, <2>4, <3>1, Zenon DEF h, t
  <2>5. CASE ~IsDelimiter(t) /\ ~IsComment(t)
    <3>1. Taking(h, v \o f) = Holding(<<>>, j \o TextOf(line), o)
      BY <1>3, <1>15, <2>1, <2>2, <2>5, Zenon
    <3> QED
      BY <1>3, <1>6, <2>5, <3>1, Zenon DEF h, t
  <2> QED
    BY <2>3, <2>4, <2>5
<1> QED
  BY <1>17, <1>18

LineRead(line, j, o) ==
  /\ LineBytes(line) \in Seq(Alphabet)
  /\ Taking(Holding(<<>>, j, o), LineBytes(line)) =
       IF IsDelimiter(line.text) THEN Holding(<<>>, <<>>, Append(o, j))
       ELSE Holding(<<>>, j \o TextOf(line), o)

LEMMA LineReads ==
  ASSUME NEW line \in ScriptLines, Trimmed(line.text), NEW j \in Seq(Alphabet), NEW o
  PROVE  LineRead(line, j, o)
BY LineTaken, Zenon DEF LineRead

\* A message: its lines make up its text, and the last one hands it on.
MessageRead(message, o) ==
  /\ Layout(message) \in Seq(Alphabet)
  /\ Taking(Holding(<<>>, <<>>, o), Layout(message)) =
       Holding(<<>>, <<>>, Append(o, message.content))

LEMMA MessageReads ==
  ASSUME NEW message \in [content : Seq(Alphabet), lines : Seq(ScriptLines)],
         WellLaid(message), NEW o
  PROVE  MessageRead(message, o)
<1> DEFINE nil == <<>>
           h == Holding(nil, nil, o)
           L == message.lines
           n == Len(L)
           P == [i \in 1..n |-> LineBytes(L[i])]
           X == [i \in 1..n |-> TextOf(L[i])]
           U == JoinedUpTo(P)
           V == JoinedUpTo(X)
           G == {i \in Nat : /\ U[i] \in Seq(Alphabet) /\ V[i] \in Seq(Alphabet)
                             /\ Taking(h, U[i]) = Holding(nil, V[i], o)}
<1>1. /\ L \in Seq(ScriptLines) /\ L # <<>> /\ n \in Nat
      /\ \A i \in 1..n : /\ Trimmed(L[i].text)
                         /\ IsDelimiter(L[i].text) <=> i = n
      /\ message.content = Join(X)
  BY DEF WellLaid
<1>2. nil \in Seq(Alphabet)
  OBVIOUS
<1>3. n >= 1
  BY <1>1, EmptySeq
<1>4. \A i \in 1..n : L[i] \in ScriptLines
  BY <1>1
<1>5. Layout(message) = Join(P)
  BY Zenon DEF Layout
<1> HIDE DEF L, n
<1>6. \A i \in 1..n : LineBytes(L[i]) \in Seq(Alphabet)
  <2> SUFFICES ASSUME NEW i \in 1..n
               PROVE  LineBytes(L[i]) \in Seq(Alphabet)
    OBVIOUS
  <2> DEFINE line == L[i]
  <2>1. line \in ScriptLines /\ Trimmed(line.text)
    BY <1>1, <1>4
  <2> HIDE DEF line, nil
  <2>2. LineRead(line, nil, o)
    BY <1>2, <2>1, LineReads
  <2> QED
    BY <2>2 DEF LineRead, line
<1>7. \A i \in 1..n : TextOf(L[i]) \in Seq(Alphabet)
  <2> SUFFICES ASSUME NEW i \in 1..n
               PROVE  TextOf(L[i]) \in Seq(Alphabet)
    OBVIOUS
  <2>1. L[i].text \in Seq(Alphabet)
    BY <1>4 DEF ScriptLines
  <2> QED
    BY <1>2, <2>1 DEF TextOf
<1>8. P \in Seq(Seq(Alphabet)) /\ Len(P) = n
  <2>1. P \in [1..n -> Seq(Alphabet)]
    BY <1>6
  <2> HIDE DEF P
  <2> QED
    BY <1>1, <2>1, MadeSeq
<1>9. X \in Seq(Seq(Alphabet)) /\ Len(X) = n
  <2>1. X \in [1..n -> Seq(Alphabet)]
    BY <1>7
  <2> HIDE DEF X
  <2> QED
    BY <1>1, <2>1, MadeSeq
<1>10. \A i \in 1..n : P[i] = LineBytes(L[i]) /\ X[i] = TextOf(L[i])
  OBVIOUS
<1> HIDE DEF P, X
<1>11. U[0] = nil /\ \A i \in 1..n : U[i] = U[i - 1] \o P[i]
  BY <1>8, JoinedUpToDef
<1>12. V[0] = nil /\ \A i \in 1..n : V[i] = V[i - 1] \o X[i]
  BY <1>9, JoinedUpToDef
<1>13. Join(P) = U[n] /\ Join(X) = V[n]
  BY <1>8, <1>9, Zenon DEF Join
<1> HIDE DEF U, V
<1>14. 0 \in G
  <2>1. Taking(h, nil) = h
    <3> HIDE DEF h
    <3> QED
      BY TakingNothing
  <2> QED
    BY <1>2, <1>11, <1>12, <2>1
<1> HIDE DEF nil, h
\* one more line, from a message begun
<1>15. ASSUME NEW i \in 0..(n - 1), i \in G
       PROVE  /\ i + 1 \in 1..n /\ V[i] \in Seq(Alphabet) /\ U[i] \in Seq(Alphabet)
              /\ U[i + 1] = U[i] \o P[i + 1] /\ V[i + 1] = V[i] \o X[i + 1]
              /\ P[i + 1] \in Seq(Alphabet) /\ X[i + 1] \in Seq(Alphabet)
              /\ Taking(h, U[i + 1]) = Taking(Holding(nil, V[i], o), P[i + 1])
              /\ LineRead(L[i + 1], V[i], o)
  <2>1. i + 1 \in 1..n /\ (i + 1) - 1 = i
    BY <1>1
  <2>2. U[i] \in Seq(Alphabet) /\ V[i] \in Seq(Alphabet) /\ Taking(h, U[i]) = Holding(nil, V[i], o)
    BY <1>15
  <2>3. U[i + 1] = U[i] \o P[i + 1] /\ V[i + 1] = V[i] \o X[i + 1]
    BY <1>11, <1>12, <2>1
  <2>4. P[i + 1] \in Seq(Alphabet) /\ X[i + 1] \in Seq(Alphabet)
    BY <1>6, <1>7, <1>10, <2>1
  <2> DEFINE a == U[i]
             p == P[i + 1]
             v == V[i]
             line == L[i + 1]
  <2>5. line \in ScriptLines /\ Trimmed(line.text)
    BY <1>1, <1>4, <2>1
  <2>6. a \in Seq(Alphabet) /\ p \in Seq(Alphabet) /\ v \in Seq(Alphabet)
    BY <2>2, <2>4
  <2> HIDE DEF a, p, v, line
  <2>7. Taking(h, a \o p) = Taking(Taking(h, a), p)
    BY <2>6, TakingJoined
  <2>8. LineRead(line, v, o)
    BY <2>5, <2>6, LineReads
  <2>9. Taking(h, U[i + 1]) = Taking(Holding(nil, V[i], o), P[i + 1])
    BY <2>2, <2>3, <2>7, Zenon DEF a, p
  <2> QED
    BY <2>1, <2>2, <2>3, <2>4, <2>8, <2>9, Zenon DEF line, v
<1> HIDE DEF G
<1>16. \A i \in 0..((n - 1) - 1) : i \in G => (i + 1) \in G
  <2> SUFFICES ASSUME NEW i \in 0..((n - 1) - 1), i \in G
               PROVE  i + 1 \in G
    OBVIOUS
  <2>1. i \in 0..(n - 1) /\ i + 1 \in 1..n /\ i + 1 # n /\ i + 1 \in Nat
    BY <1>1
  <2>2. /\ V[i] \in Seq(Alphabet) /\ U[i] \in Seq(Alphabet)
        /\ U[i + 1] = U[i] \o P[i + 1] /\ V[i + 1] = V[i] \o X[i + 1]
        /\ P[i + 1] \in Seq(Alphabet) /\ X[i + 1] \in Seq(Alphabet)
        /\ Taking(h, U[i + 1]) = Taking(Holding(nil, V[i], o), P[i + 1])
        /\ LineRead(L[i + 1], V[i], o)
    BY <1>15, <2>1
  <2>3. ~IsDelimiter(L[i + 1].text)
    BY <1>1, <2>1
  <2>4. P[i + 1] = LineBytes(L[i + 1]) /\ X[i + 1] = TextOf(L[i + 1])
    BY <1>10, <2>1
  <2>5. Taking(h, U[i + 1]) = Holding(nil, V[i + 1], o)
    BY <2>2, <2>3, <2>4, Zenon DEF LineRead, nil
  <2>6. U[i + 1] \in Seq(Alphabet)
    BY <2>2
  <2>7. V[i + 1] \in Seq(Alphabet)
    BY <2>2
  <2> QED
    BY <2>1, <2>5, <2>6, <2>7 DEF G
<1>17. n - 1 \in G /\ n - 1 \in 0..(n - 1)
  <2>1. n - 1 \in Nat /\ n - 1 \in 0..(n - 1)
    BY <1>1, <1>3
  <2> QED
    BY <1>14, <1>16, <2>1, Induct
<1> DEFINE k == n - 1
<1>18. k + 1 = n /\ n \in 1..n
  BY <1>1, <1>3
<1>19. k \in G /\ k \in 0..(n - 1)
  BY <1>17
<1> HIDE DEF k
<1>20. /\ V[k] \in Seq(Alphabet) /\ U[k] \in Seq(Alphabet)
       /\ U[n] = U[k] \o P[n] /\ V[n] = V[k] \o X[n]
       /\ P[n] \in Seq(Alphabet)
       /\ Taking(h, U[n]) = Taking(Holding(nil, V[k], o), P[n])
       /\ LineRead(L[n], V[k], o)
  BY <1>15, <1>18, <1>19
<1>21. IsDelimiter(L[n].text)
  BY <1>1, <1>18
<1>22. P[n] = LineBytes(L[n]) /\ X[n] = TextOf(L[n])
  BY <1>10, <1>18
<1>23. TextOf(L[n]) = <<>>
  <2>1. L[n].text = <<"// -----">>
    BY <1>21 DEF IsDelimiter
  <2>2. <<"// -----">> # <<>> /\ <<"// -----">>[1] = "// -----"
    OBVIOUS
  <2>3. IsComment(L[n].text)
    BY <2>1, <2>2 DEF IsComment
  <2> QED
    BY <2>3 DEF TextOf
<1>24. V[n] = V[k]
  <2>1. V[k] \o <<>> = V[k]
    BY <1>20
  <2> QED
    BY <1>20, <1>22, <1>23, <2>1, Zenon
<1>25. Taking(h, U[n]) = Holding(nil, nil, Append(o, V[n]))
  BY <1>20, <1>21, <1>22, <1>24, Zenon DEF LineRead, nil
<1>26. U[n] \in Seq(Alphabet)
  BY <1>20
<1> QED
  BY <1>1, <1>5, <1>13, <1>25, <1>26, Zenon DEF MessageRead, h, nil

\* A script: message after message.
LEMMA ScriptReads ==
  ASSUME NEW n \in Nat,
         NEW script \in Seq([content : Seq(Alphabet), lines : Seq(ScriptLines)]),
         n = Len(script), \A i \in 1..n : WellLaid(script[i])
  PROVE  getMessages(Join([i \in 1..n |-> Layout(script[i])]), 0, FALSE)
           = [i \in 1..n |-> script[i].content]
<1> DEFINE nil == <<>>
           h == Holding(nil, nil, nil)
           P == [i \in 1..n |-> Layout(script[i])]
           C == [i \in 1..n |-> script[i].content]
           U == JoinedUpTo(P)
           G == {i \in Nat : /\ U[i] \in Seq(Alphabet)
                             /\ Taking(h, U[i]) = Holding(nil, nil, SubSeq(C, 1, i))}
<1>1. \A i \in 1..n : /\ script[i] \in [content : Seq(Alphabet), lines : Seq(ScriptLines)]
                      /\ script[i].content \in Seq(Alphabet)
  <2> DEFINE M == [content : Seq(Alphabet), lines : Seq(ScriptLines)]
  <2>1. script \in Seq(M) /\ n = Len(script)
    OBVIOUS
  <2>2. \A m \in M : m.content \in Seq(Alphabet)
    OBVIOUS
  <2> HIDE DEF M
  <2>3. \A i \in 1..n : script[i] \in M
    BY <2>1
  <2>4. \A i \in 1..n : script[i].content \in Seq(Alphabet)
    BY <2>2, <2>3
  <2> QED
    BY <2>3, <2>4 DEF M
<1>2. \A i \in 1..n : \A o : MessageRead(script[i], o)
  <2> SUFFICES ASSUME NEW i \in 1..n, NEW o
               PROVE  MessageRead(script[i], o)
    OBVIOUS
  <2> DEFINE m == script[i]
  <2>1. m \in [content : Seq(Alphabet), lines : Seq(ScriptLines)] /\ WellLaid(m)
    BY <1>1
  <2> HIDE DEF m
  <2>2. MessageRead(m, o)
    BY <2>1, MessageReads
  <2> QED
    BY <2>2 DEF m
<1>3. P \in Seq(Seq(Alphabet)) /\ Len(P) = n
  <2>1. \A i \in 1..n : Layout(script[i]) \in Seq(Alphabet)
    BY <1>2 DEF MessageRead
  <2>2. P \in [1..n -> Seq(Alphabet)]
    BY <2>1
  <2> HIDE DEF P
  <2> QED
    BY <2>2, MadeSeq
<1>4. C \in Seq(Seq(Alphabet)) /\ Len(C) = n
  <2>1. C \in [1..n -> Seq(Alphabet)]
    BY <1>1
  <2> HIDE DEF C
  <2> QED
    BY <2>1, MadeSeq
<1>5. \A i \in 1..n : P[i] = Layout(script[i]) /\ C[i] = script[i].content
  OBVIOUS
<1> HIDE DEF P, C
<1>6. U[0] = nil /\ \A i \in 1..n : U[i] = U[i - 1] \o P[i]
  BY <1>3, JoinedUpToDef
<1>7. Join(P) = U[n]
  BY <1>3, Zenon DEF Join
<1> HIDE DEF U
<1>8. 0 \in G
  <2>1. Taking(h, nil) = h
    <3> HIDE DEF h
    <3> QED
      BY TakingNothing
  <2>2. SubSeq(C, 1, 0) = <<>>
    BY <1>4
  <2>3. Taking(h, U[0]) = Holding(nil, nil, SubSeq(C, 1, 0))
    BY <1>6, <2>1, <2>2, Zenon
  <2>4. U[0] \in Seq(Alphabet)
    BY <1>6
  <2> QED
    BY <2>3, <2>4
<1> HIDE DEF nil, h
<1>9. \A i \in 0..(n - 1) : i \in G => (i + 1) \in G
  <2> SUFFICES ASSUME NEW i \in 0..(n - 1), i \in G
               PROVE  i + 1 \in G
    OBVIOUS
  <2>1. i + 1 \in 1..n /\ (i + 1) - 1 = i /\ i + 1 \in Nat
    OBVIOUS
  <2> DEFINE a == U[i]
             p == P[i + 1]
             m == script[i + 1]
             c == SubSeq(C, 1, i)
  <2>2. a \in Seq(Alphabet) /\ Taking(h, a) = Holding(nil, nil, c)
    OBVIOUS
  <2>3. U[i + 1] = a \o p
    BY <1>6, <2>1
  <2>4. p = Layout(m) /\ C[i + 1] = m.content /\ MessageRead(m, c)
    BY <1>2, <1>5, <2>1
  <2>5. SubSeq(C, 1, i + 1) = Append(c, C[i + 1])
    <3>1. i \in 0..(Len(C) - 1)
      BY <1>4
    <3> QED
      BY <1>4, <3>1, OneMore
  <2> HIDE DEF a, p, m, c
  <2>6. p \in Seq(Alphabet)
    BY <2>4 DEF MessageRead
  <2>7. Taking(h, a \o p) = Taking(Taking(h, a), p)
    BY <2>2, <2>6, TakingJoined
  <2>8. Taking(Holding(nil, nil, c), Layout(m)) = Holding(nil, nil, Append(c, m.content))
    BY <2>4, Zenon DEF MessageRead, nil
  <2>9. Taking(h, U[i + 1]) = Holding(nil, nil, SubSeq(C, 1, i + 1))
    BY <2>2, <2>3, <2>4, <2>5, <2>7, <2>8, Zenon
  <2>10. U[i + 1] \in Seq(Alphabet)
    BY <2>2, <2>3, <2>6, Joined
  <2> QED
    BY <2>1, <2>9, <2>10
<1>10. n \in G
  <2>1. n \in 0..n
    OBVIOUS
  <2> HIDE DEF G
  <2> QED
    BY <1>8, <1>9, <2>1, Induct
<1>11. Taking(h, U[n]) = Holding(nil, nil, SubSeq(C, 1, n))
  BY <1>10
<1>12. SubSeq(C, 1, n) = C
  BY <1>4, SubSeqFull
<1>13. Holding(nil, nil, C).out = C
  BY DEF Holding
<1>14. getMessages(Join(P), 0, FALSE) = Taking(h, U[n]).out
  BY <1>7, Zenon DEF getMessages, Taking, ByteWise, h, nil
<1>15. getMessages(Join(P), 0, FALSE) = C
  BY <1>11, <1>12, <1>13, <1>14, Zenon
<1> QED
  BY <1>15, Zenon DEF P, C

LEMMA ScriptsReturn == ScriptsAsWritten
<1> SUFFICES ASSUME NEW script \in Scripts
             PROVE  getMessages(Join([i \in 1..Len(script) |-> Layout(script[i])]), 0, FALSE)
                      = [i \in 1..Len(script) |-> script[i].content]
  BY Zenon DEF ScriptsAsWritten
<1>1. /\ script \in Seq([content : Seq(Alphabet), lines : Seq(ScriptLines)])
      /\ \A i \in 1..Len(script) : WellLaid(script[i])
  BY FramingAssumption
<1> DEFINE n == Len(script)
<1>2. n \in Nat
  BY <1>1
<1> HIDE DEF n
<1>3. getMessages(Join([i \in 1..n |-> Layout(script[i])]), 0, FALSE)
        = [i \in 1..n |-> script[i].content]
  BY <1>1, <1>2, ScriptReads DEF n
<1> QED
  BY <1>3 DEF n

-----------------------------------------------------------------------------
(***************************************************************************)
(* The two producers.                                                      *)
(***************************************************************************)

LEMMA FrameInvariant == FramingSpec => []FrameInv
<1> QED
  BY FrameInvInit, FrameInvNext, PTL DEF FramingSpec

\* Whatever a peer writes, however long and however the stream cuts it, wherever
\* it ends, and whatever the limit and the overload handler's answer: at every
\* moment LSPStreamMessageProducer::listen has handed on, in order, the bodies of
\* the first whole messages, all of them when it returns.  And whatever the layout
\* of a script, DelimitedStreamMessageProducer::listen hands on its messages.
THEOREM FramesArrive == FramingSpec => []FramesAsWritten
<1>1. FrameInv => FramesAsWritten
  <2> SUFFICES ASSUME FrameInv
               PROVE  FramesAsWritten
    OBVIOUS
  <2>1. blocks \in Seq(PeerBlocks) /\ Len(blocks) \in Nat
    BY WiresType DEF FrameInv
  <2>2. listening \in BOOLEAN /\ (~listening => delivered = WrittenWhole)
    BY DEF FrameInv
  <2>3. \A k \in 0..Len(blocks) : IsPrefix(Bodies(blocks, cut, limit)[k], WrittenWhole)
    BY <2>1, BodiesPrefix DEF WrittenWhole
  <2>4. \E k \in 0..Len(blocks) : delivered = Bodies(blocks, cut, limit)[k]
    <3>1. CASE listening
      BY <3>1 DEF FrameInv, Taken
    <3>2. CASE ~listening
      <4>1. Len(blocks) \in 0..Len(blocks)
        BY <2>1
      <4> QED
        BY <2>2, <3>2, <4>1 DEF WrittenWhole
    <3> QED
      BY <3>1, <3>2
  <2>5. IsPrefix(delivered, WrittenWhole)
    BY <2>3, <2>4, Zenon
  <2> QED
    BY <2>2, <2>5, ScriptsReturn, Zenon DEF FramesAsWritten
<1> QED
  BY <1>1, FrameInvariant, PTL

-----------------------------------------------------------------------------
(***************************************************************************)
(* Escapes.                                                                *)
(***************************************************************************)
Codes == (UriChars \cup {"%"}) \cup HexDigits
Hexed == {":", "%", " ", "?", "#", "/"}

LEMMA HexIs ==
  /\ DOMAIN Hex = Hexed
  /\ Hex[":"] = <<"3", "A">> /\ Hex["%"] = <<"2", "5">> /\ Hex[" "] = <<"2", "0">>
  /\ Hex["?"] = <<"3", "F">> /\ Hex["#"] = <<"2", "3">> /\ Hex["/"] = <<"2", "F">>
BY DEF Hex, Hexed

IsPair(f, x, y) == f[1] = x /\ f[2] = y /\ f = <<f[1], f[2]>>

LEMMA PairOf ==
  ASSUME NEW f, NEW x, NEW y, f = <<x, y>>
  PROVE  IsPair(f, x, y)
BY DEF IsPair

LEMMA HexByte ==
  ASSUME NEW c \in DOMAIN Hex
  PROVE  /\ Hex[c][1] \in HexDigits /\ Hex[c][2] \in HexDigits
         /\ Byte(Hex[c][1], Hex[c][2]) = c
<1>0. /\ IsPair(Hex[":"], "3", "A") /\ IsPair(Hex["%"], "2", "5") /\ IsPair(Hex[" "], "2", "0")
      /\ IsPair(Hex["?"], "3", "F") /\ IsPair(Hex["#"], "2", "3") /\ IsPair(Hex["/"], "2", "F")
  <2>1. IsPair(Hex[":"], "3", "A")
    <3> DEFINE f == Hex[":"]
    <3>1. f = <<"3", "A">>
      BY HexIs
    <3> HIDE DEF f
    <3>2. IsPair(f, "3", "A")
      BY <3>1, PairOf
    <3> QED
      BY <3>2 DEF f
  <2>2. IsPair(Hex["%"], "2", "5")
    <3> DEFINE f == Hex["%"]
    <3>1. f = <<"2", "5">>
      BY HexIs
    <3> HIDE DEF f
    <3>2. IsPair(f, "2", "5")
      BY <3>1, PairOf
    <3> QED
      BY <3>2 DEF f
  <2>3. IsPair(Hex[" "], "2", "0")
    <3> DEFINE f == Hex[" "]
    <3>1. f = <<"2", "0">>
      BY HexIs
    <3> HIDE DEF f
    <3>2. IsPair(f, "2", "0")
      BY <3>1, PairOf
    <3> QED
      BY <3>2 DEF f
  <2>4. IsPair(Hex["?"], "3", "F")
    <3> DEFINE f == Hex["?"]
    <3>1. f = <<"3", "F">>
      BY HexIs
    <3> HIDE DEF f
    <3>2. IsPair(f, "3", "F")
      BY <3>1, PairOf
    <3> QED
      BY <3>2 DEF f
  <2>5. IsPair(Hex["#"], "2", "3")
    <3> DEFINE f == Hex["#"]
    <3>1. f = <<"2", "3">>
      BY HexIs
    <3> HIDE DEF f
    <3>2. IsPair(f, "2", "3")
      BY <3>1, PairOf
    <3> QED
      BY <3>2 DEF f
  <2>6. IsPair(Hex["/"], "2", "F")
    <3> DEFINE f == Hex["/"]
    <3>1. f = <<"2", "F">>
      BY HexIs
    <3> HIDE DEF f
    <3>2. IsPair(f, "2", "F")
      BY <3>1, PairOf
    <3> QED
      BY <3>2 DEF f
  <2> QED
    BY <2>1, <2>2, <2>3, <2>4, <2>5, <2>6
<1>1. /\ Hex[":"][1] = "3" /\ Hex[":"][2] = "A" /\ Hex["%"][1] = "2" /\ Hex["%"][2] = "5"
      /\ Hex[" "][1] = "2" /\ Hex[" "][2] = "0" /\ Hex["?"][1] = "3" /\ Hex["?"][2] = "F"
      /\ Hex["#"][1] = "2" /\ Hex["#"][2] = "3" /\ Hex["/"][1] = "2" /\ Hex["/"][2] = "F"
  BY <1>0, Zenon DEF IsPair
<1>2. c \in Hexed
  BY HexIs
<1>3. Hex[c][1] \in HexDigits /\ Hex[c][2] \in HexDigits
  BY <1>1, <1>2 DEF Hexed, HexDigits
<1>4. \A d \in Hexed : Hex[d][1] = Hex[c][1] /\ Hex[d][2] = Hex[c][2] => d = c
  BY <1>1, <1>2 DEF Hexed
<1>5. \A d \in Hexed : Hex[d] = <<Hex[d][1], Hex[d][2]>>
  BY <1>0, Zenon DEF Hexed, IsPair
<1>6. \A d \in Hexed : Hex[d] = <<Hex[c][1], Hex[c][2]>> => d = c
  <2> SUFFICES ASSUME NEW d \in Hexed, Hex[d] = <<Hex[c][1], Hex[c][2]>>
               PROVE  d = c
    OBVIOUS
  <2>1. Hex[d][1] = Hex[c][1] /\ Hex[d][2] = Hex[c][2]
    OBVIOUS
  <2> QED
    BY <1>4, <2>1
<1>7. Hex[c] = <<Hex[c][1], Hex[c][2]>>
  BY <1>2, <1>5
<1>8. c \in DOMAIN Hex /\ DOMAIN Hex = Hexed
  BY HexIs
<1> QED
  BY <1>3, <1>6, <1>7, <1>8, Zenon DEF Byte

\* The code of a character: itself, or an escape.
LEMMA CodeShape ==
  ASSUME NEW c \in UriChars, NEW safe
  PROVE  /\ EncodeByte(c, safe) \in Seq(Codes)
         /\ Len(EncodeByte(c, safe)) \in 1..3
         /\ c \in DOMAIN Hex \ safe =>
              /\ Len(EncodeByte(c, safe)) = 3
              /\ EncodeByte(c, safe)[1] = "%"
              /\ EncodeByte(c, safe)[2] = Hex[c][1]
              /\ EncodeByte(c, safe)[3] = Hex[c][2]
         /\ c \notin DOMAIN Hex \ safe =>
              Len(EncodeByte(c, safe)) = 1 /\ EncodeByte(c, safe)[1] = c
<1> DEFINE e == EncodeByte(c, safe)
<1>1. CASE c \in DOMAIN Hex \ safe
  <2> DEFINE x == Hex[c][1]
             y == Hex[c][2]
  <2>1. e = <<"%", x, y>>
    BY <1>1 DEF EncodeByte
  <2>2. x \in Codes /\ y \in Codes /\ "%" \in Codes
    BY <1>1, HexByte DEF Codes
  <2> HIDE DEF x, y, e
  <2>3. e \in Seq(Codes) /\ Len(e) = 3 /\ e[1] = "%" /\ e[2] = x /\ e[3] = y
    BY <2>1, <2>2
  <2> QED
    BY <1>1, <2>3 DEF e, x, y
<1>2. CASE c \notin DOMAIN Hex \ safe
  <2>1. e = <<c>>
    BY <1>2 DEF EncodeByte
  <2>2. c \in Codes
    BY DEF Codes
  <2> HIDE DEF e
  <2>3. e \in Seq(Codes) /\ Len(e) = 1 /\ e[1] = c
    BY <2>1, <2>2
  <2> QED
    BY <1>2, <2>3 DEF e
<1> QED
  BY <1>1, <1>2

LEMMA CodeBytes ==
  ASSUME NEW c \in UriChars, NEW safe
  PROVE  EncodeByte(c, safe) \in Seq(Codes)
BY CodeShape

\* Where the code of character i ends.
Mark(text, safe, i) == Len(Encodings(text, safe)[i])

LEMMA EncodingsDef ==
  ASSUME NEW safe, NEW text \in Seq(UriChars)
  PROVE  /\ DOMAIN Encodings(text, safe) = 0..Len(text)
         /\ Encodings(text, safe)[0] = <<>>
         /\ \A i \in 1..Len(text) :
              Encodings(text, safe)[i] = Encodings(text, safe)[i - 1] \o EncodeByte(text[i], safe)
<1> DEFINE N == Len(text)
           Base == <<>>
           Next(i, v) == v \o EncodeByte(text[i], safe)
           Solves(f, n) == f = [i \in 0..n |-> IF i = 0 THEN Base ELSE Next(i, f[i - 1])]
           X == Encodings(text, safe)
           G == {n \in 0..N : \E f : Solves(f, n)}
<1>1. N \in Nat
  OBVIOUS
<1>2. X = CHOOSE f : Solves(f, N)
  BY DEF Encodings
<1> HIDE DEF N, Base, Next, X
<1>3. 0 \in G
  <2>1. Solves([i \in 0..0 |-> Base], 0)
    OBVIOUS
  <2> HIDE DEF Solves
  <2> QED
    BY <1>1, <2>1
<1>4. ASSUME NEW n \in 0..(N - 1), n \in G
      PROVE  n + 1 \in G
  <2>1. PICK f : Solves(f, n)
    BY <1>4
  <2> DEFINE g == [i \in 0..(n + 1) |-> IF i = n + 1 THEN Next(n + 1, f[n]) ELSE f[i]]
  <2>2. \A i \in 0..(n + 1) : g[i] = IF i = 0 THEN Base ELSE Next(i, g[i - 1])
    <3> SUFFICES ASSUME NEW i \in 0..(n + 1)
                 PROVE  g[i] = IF i = 0 THEN Base ELSE Next(i, g[i - 1])
      OBVIOUS
    <3>1. CASE i = 0
      BY <2>1, <3>1
    <3>2. CASE i \in 1..n
      <4>1. g[i] = f[i] /\ g[i - 1] = f[i - 1]
        BY <3>2
      <4> QED
        BY <2>1, <3>2, <4>1
    <3>3. CASE i = n + 1
      <4>1. g[i] = Next(n + 1, f[n]) /\ i - 1 = n /\ g[n] = f[n]
        BY <3>3
      <4> QED
        BY <3>3, <4>1
    <3> QED
      BY <3>1, <3>2, <3>3
  <2>3. Solves(g, n + 1)
    BY <2>2
  <2> HIDE DEF g, Solves
  <2> QED
    BY <1>1, <2>3
<1>5. \E f : Solves(f, N)
  <2>1. \A n \in 0..N : n \in G
    <3> HIDE DEF G
    <3> QED
      BY <1>1, <1>3, <1>4, Induct
  <2> QED
    BY <1>1, <2>1
<1>6. Solves(X, N)
  <2> HIDE DEF Solves
  <2> QED
    BY <1>2, <1>5
<1>7. DOMAIN X = 0..N /\ X[0] = Base /\ \A i \in 1..N : X[i] = Next(i, X[i - 1])
  BY <1>1, <1>6
<1> QED
  BY <1>7 DEF N, Base, Next, X

LEMMA EncodingsType ==
  ASSUME NEW safe, NEW text \in Seq(UriChars)
  PROVE  \A i \in 0..Len(text) : Encodings(text, safe)[i] \in Seq(Codes) /\ Mark(text, safe, i) \in Nat
<1> DEFINE G == {i \in 0..Len(text) : Encodings(text, safe)[i] \in Seq(Codes)}
<1>1. 0 \in G
  <2>1. Encodings(text, safe)[0] = <<>>
    BY EncodingsDef
  <2>2. <<>> \in Seq(Codes)
    OBVIOUS
  <2>3. Encodings(text, safe)[0] \in Seq(Codes)
    BY <2>1, <2>2, Zenon
  <2>4. 0 \in 0..Len(text)
    OBVIOUS
  <2> QED
    BY <2>3, <2>4
<1>2. ASSUME NEW i \in 0..(Len(text) - 1), i \in G
      PROVE  i + 1 \in G
  <2>1. i + 1 \in 1..Len(text) /\ (i + 1) - 1 = i /\ Encodings(text, safe)[i] \in Seq(Codes)
    BY <1>2
  <2>2. Encodings(text, safe)[i + 1] = Encodings(text, safe)[i] \o EncodeByte(text[i + 1], safe)
    BY <2>1, EncodingsDef
  <2>3. EncodeByte(text[i + 1], safe) \in Seq(Codes)
    BY <2>1, CodeBytes
  <2>4. Encodings(text, safe)[i + 1] \in Seq(Codes)
    BY <2>1, <2>2, <2>3, Joined
  <2> QED
    BY <2>1, <2>4
<1>3. \A i \in 0..Len(text) : i \in G
  <2> HIDE DEF G
  <2> QED
    BY <1>1, <1>2, Induct
<1> QED
  BY <1>3 DEF Mark

LEMMA MarkZero ==
  ASSUME NEW safe, NEW text \in Seq(UriChars)
  PROVE  Mark(text, safe, 0) = 0
<1>1. Encodings(text, safe)[0] = <<>>
  BY EncodingsDef
<1>2. Len(<<>>) = 0
  OBVIOUS
<1> QED
  BY <1>1, <1>2, Zenon DEF Mark

LEMMA EncodingsPrefix ==
  ASSUME NEW safe, NEW text \in Seq(UriChars), NEW i \in 0..Len(text), NEW j \in i..Len(text)
  PROVE  /\ Mark(text, safe, i) <= Mark(text, safe, j)
         /\ \A k \in 1..Mark(text, safe, i) : Encodings(text, safe)[j][k] = Encodings(text, safe)[i][k]
<1> DEFINE P(m) == /\ Mark(text, safe, i) <= Mark(text, safe, m)
                   /\ \A k \in 1..Mark(text, safe, i) : Encodings(text, safe)[m][k] = Encodings(text, safe)[i][k]
           G == {d \in 0..(Len(text) - i) : P(i + d)}
<1>0. \A q \in 0..Len(text) : Encodings(text, safe)[q] \in Seq(Codes) /\ Mark(text, safe, q) \in Nat
  BY EncodingsType
<1>1. 0 \in G
  <2>1. i + 0 = i
    OBVIOUS
  <2>2. P(i)
    BY <1>0
  <2> QED
    BY <2>1, <2>2
<1>2. ASSUME NEW d \in 0..((Len(text) - i) - 1), d \in G
      PROVE  d + 1 \in G
  <2> DEFINE m == i + d
  <2>1. m + 1 \in 1..Len(text) /\ m \in 0..Len(text) /\ (m + 1) - 1 = m /\ i + (d + 1) = m + 1
    OBVIOUS
  <2>2. P(m)
    BY <1>2
  <2>3. Encodings(text, safe)[m + 1] = Encodings(text, safe)[m] \o EncodeByte(text[m + 1], safe)
    BY <2>1, EncodingsDef
  <2>4. EncodeByte(text[m + 1], safe) \in Seq(Codes) /\ Encodings(text, safe)[m] \in Seq(Codes)
    BY <2>1, CodeBytes, <1>0
  <2> HIDE DEF m
  <2>5. Mark(text, safe, m) \in Nat /\ Mark(text, safe, i) \in Nat
    BY <2>1, <1>0
  <2>6. /\ Mark(text, safe, m) <= Mark(text, safe, m + 1)
        /\ \A k \in 1..Mark(text, safe, m) : Encodings(text, safe)[m + 1][k] = Encodings(text, safe)[m][k]
    <3> DEFINE s == Encodings(text, safe)[m]
               t == EncodeByte(text[m + 1], safe)
    <3>1. Len(s) <= Len(s \o t) /\ \A k \in 1..Len(s) : (s \o t)[k] = s[k]
      <4> HIDE DEF s, t
      <4>1. s \in Seq(Codes) /\ t \in Seq(Codes)
        BY <2>4 DEF s, t
      <4> QED
        BY <4>1, Joined
    <3> QED
      BY <2>3, <3>1 DEF Mark
  <2>7. P(m + 1)
    <3>1. Mark(text, safe, m + 1) \in Nat
      BY <2>1, <1>0
    <3> QED
      BY <2>2, <2>5, <2>6, <3>1
  <2> QED
    BY <2>1, <2>7
<1>3. Len(text) - i \in Nat /\ j - i \in 0..(Len(text) - i)
  OBVIOUS
<1>4. \A d \in 0..(Len(text) - i) : d \in G
  <2> HIDE DEF G
  <2> QED
    BY <1>1, <1>2, <1>3, Induct
<1>5. P(i + (j - i))
  BY <1>3, <1>4
<1>6. i + (j - i) = j
  OBVIOUS
<1> QED
  BY <1>5, <1>6

LEMMA CodeAt ==
  ASSUME NEW safe, NEW text \in Seq(UriChars), NEW i \in 1..Len(text)
  PROVE  /\ PercentEncode(text, safe) \in Seq(Codes)
         /\ Len(PercentEncode(text, safe)) = Mark(text, safe, Len(text))
         /\ Mark(text, safe, i - 1) \in Nat
         /\ Mark(text, safe, i) = Mark(text, safe, i - 1) + Len(EncodeByte(text[i], safe))
         /\ Mark(text, safe, i) <= Len(PercentEncode(text, safe))
         /\ \A k \in 1..Len(EncodeByte(text[i], safe)) :
              PercentEncode(text, safe)[Mark(text, safe, i - 1) + k] = EncodeByte(text[i], safe)[k]
<1> DEFINE b == Encodings(text, safe)[i - 1]
           c == EncodeByte(text[i], safe)
<1>1. Len(text) \in Nat /\ i - 1 \in 0..Len(text) /\ i \in 0..Len(text) /\ Len(text) \in i..Len(text)
  OBVIOUS
<1>2. PercentEncode(text, safe) \in Seq(Codes) /\ Len(PercentEncode(text, safe)) = Mark(text, safe, Len(text))
  BY <1>1, EncodingsType DEF PercentEncode, Mark
<1>3. b \in Seq(Codes) /\ c \in Seq(Codes) /\ Encodings(text, safe)[i] = b \o c
  <2>1. b \in Seq(Codes)
    BY <1>1, EncodingsType
  <2>2. c \in Seq(Codes)
    BY CodeBytes
  <2>3. Encodings(text, safe)[i] = b \o c
    BY <1>1, EncodingsDef
  <2> QED
    BY <2>1, <2>2, <2>3
<1>4. Len(b) = Mark(text, safe, i - 1) /\ Mark(text, safe, i) = Len(b \o c)
  BY <1>3 DEF Mark
<1>5. /\ Mark(text, safe, i) <= Mark(text, safe, Len(text))
      /\ \A k \in 1..Mark(text, safe, i) : PercentEncode(text, safe)[k] = Encodings(text, safe)[i][k]
  BY <1>1, EncodingsPrefix DEF PercentEncode
<1> HIDE DEF b, c
<1>6. \A k \in 1..Len(c) : Len(b) + k \in 1..Len(b \o c) /\ (b \o c)[Len(b) + k] = c[k]
  BY <1>3
<1>7. Mark(text, safe, i) = Len(b) + Len(c)
  BY <1>3, <1>4, Joined
<1>8. \A k \in 1..Len(c) : PercentEncode(text, safe)[Len(b) + k] = c[k]
  BY <1>3, <1>4, <1>5, <1>6
<1>9. Mark(text, safe, i - 1) \in Nat
  BY <1>1, EncodingsType
<1> QED
  BY <1>2, <1>4, <1>5, <1>7, <1>8, <1>9 DEF c

LEMMA MarkGrows ==
  ASSUME NEW safe, NEW text \in Seq(UriChars), NEW i \in 0..Len(text), NEW j \in i..Len(text)
  PROVE  /\ Mark(text, safe, i) \in Nat /\ Mark(text, safe, j) \in Nat
         /\ j - i <= Mark(text, safe, j) - Mark(text, safe, i)
         /\ Mark(text, safe, j) <= Len(PercentEncode(text, safe))
<1> DEFINE P(m) == m - i <= Mark(text, safe, m) - Mark(text, safe, i)
           G == {d \in 0..(Len(text) - i) : P(i + d)}
<1>0. Mark(text, safe, i) \in Nat
  BY EncodingsType
<1>1. 0 \in G
  <2>1. i + 0 = i /\ P(i)
    BY <1>0
  <2> QED
    BY <2>1
<1>2. ASSUME NEW d \in 0..((Len(text) - i) - 1), d \in G
      PROVE  d + 1 \in G
  <2> DEFINE m == i + d
  <2>1. m + 1 \in 1..Len(text) /\ m \in 0..Len(text) /\ (m + 1) - 1 = m /\ i + (d + 1) = m + 1
    OBVIOUS
  <2>2. P(m)
    BY <1>2
  <2> HIDE DEF m
  <2>3. Mark(text, safe, m + 1) = Mark(text, safe, m) + Len(EncodeByte(text[m + 1], safe)) /\ Mark(text, safe, m) \in Nat
    BY <2>1, CodeAt
  <2>4. text[m + 1] \in UriChars
    BY <2>1
  <2>5. Len(EncodeByte(text[m + 1], safe)) \in 1..3
    BY <2>4, CodeShape
  <2>6. P(m + 1)
    <3>1. \A x, y, z, t \in Nat, w \in 1..3 : x - i <= y - z /\ t = y + w => (x + 1) - i <= t - z
      OBVIOUS
    <3>2. m \in Nat /\ Mark(text, safe, m + 1) \in Nat
      BY <2>1, <2>3, <2>5
    <3> QED
      BY <1>0, <2>2, <2>3, <2>5, <3>1, <3>2
  <2> QED
    BY <2>1, <2>6
<1>3. Len(text) - i \in Nat /\ j - i \in 0..(Len(text) - i) /\ i + (j - i) = j
  OBVIOUS
<1>4. \A d \in 0..(Len(text) - i) : d \in G
  <2> HIDE DEF G
  <2> QED
    BY <1>1, <1>2, <1>3, Induct
<1>5. P(i + (j - i))
  BY <1>3, <1>4
<1>6. j \in 0..Len(text) /\ Len(text) \in j..Len(text)
  OBVIOUS
<1>7. Mark(text, safe, j) <= Mark(text, safe, Len(text)) /\ Mark(text, safe, j) \in Nat
  BY <1>6, EncodingsPrefix, EncodingsType
<1>8. Mark(text, safe, Len(text)) = Len(PercentEncode(text, safe))
  BY DEF Mark, PercentEncode
<1> QED
  BY <1>0, <1>3, <1>5, <1>7, <1>8

LEMMA DecodingsDef ==
  ASSUME NEW S, NEW text \in Seq(S)
  PROVE  /\ DOMAIN Decodings(text) = 0..Len(text)
         /\ Decodings(text)[0] = [at |-> 0, out |-> <<>>]
         /\ \A i \in 1..Len(text) :
              Decodings(text)[i] = DecodeRound(text, Decodings(text)[i - 1])
<1> DEFINE N == Len(text)
           Base == [at |-> 0, out |-> <<>>]
           Next(i, v) == DecodeRound(text, v)
           Solves(f, n) == f = [i \in 0..n |-> IF i = 0 THEN Base ELSE Next(i, f[i - 1])]
           X == Decodings(text)
           G == {n \in 0..N : \E f : Solves(f, n)}
<1>1. N \in Nat
  OBVIOUS
<1>2. X = CHOOSE f : Solves(f, N)
  BY DEF Decodings
<1> HIDE DEF N, Base, Next, X
<1>3. 0 \in G
  <2>1. Solves([i \in 0..0 |-> Base], 0)
    OBVIOUS
  <2> HIDE DEF Solves
  <2> QED
    BY <1>1, <2>1
<1>4. ASSUME NEW n \in 0..(N - 1), n \in G
      PROVE  n + 1 \in G
  <2>1. PICK f : Solves(f, n)
    BY <1>4
  <2> DEFINE g == [i \in 0..(n + 1) |-> IF i = n + 1 THEN Next(n + 1, f[n]) ELSE f[i]]
  <2>2. \A i \in 0..(n + 1) : g[i] = IF i = 0 THEN Base ELSE Next(i, g[i - 1])
    <3> SUFFICES ASSUME NEW i \in 0..(n + 1)
                 PROVE  g[i] = IF i = 0 THEN Base ELSE Next(i, g[i - 1])
      OBVIOUS
    <3>1. CASE i = 0
      BY <2>1, <3>1
    <3>2. CASE i \in 1..n
      <4>1. g[i] = f[i] /\ g[i - 1] = f[i - 1]
        BY <3>2
      <4> QED
        BY <2>1, <3>2, <4>1
    <3>3. CASE i = n + 1
      <4>1. g[i] = Next(n + 1, f[n]) /\ i - 1 = n /\ g[n] = f[n]
        BY <3>3
      <4> QED
        BY <3>3, <4>1
    <3> QED
      BY <3>1, <3>2, <3>3
  <2>3. Solves(g, n + 1)
    BY <2>2
  <2> HIDE DEF g, Solves
  <2> QED
    BY <1>1, <2>3
<1>5. \E f : Solves(f, N)
  <2>1. \A n \in 0..N : n \in G
    <3> HIDE DEF G
    <3> QED
      BY <1>1, <1>3, <1>4, Induct
  <2> QED
    BY <1>1, <2>1
<1>6. Solves(X, N)
  <2> HIDE DEF Solves
  <2> QED
    BY <1>2, <1>5
<1>7. DOMAIN X = 0..N /\ X[0] = Base /\ \A i \in 1..N : X[i] = Next(i, X[i - 1])
  BY <1>1, <1>6
<1> QED
  BY <1>7 DEF N, Base, Next, X

Decoded(at_, out) == [at |-> at_, out |-> out]

LEMMA DecodeRounds ==
  ASSUME NEW text, NEW a \in Nat, NEW o, Len(text) \in Nat
  PROVE  /\ a >= Len(text) => DecodeRound(text, Decoded(a, o)) = Decoded(a, o)
         /\ a < Len(text) /\ IsEscape(text, a + 1) =>
              DecodeRound(text, Decoded(a, o)) =
                Decoded(a + 3, Append(o, Byte(text[a + 2], text[a + 3])))
         /\ a < Len(text) /\ ~IsEscape(text, a + 1) =>
              DecodeRound(text, Decoded(a, o)) = Decoded(a + 1, Append(o, text[a + 1]))
<1>1. Decoded(a, o).at = a /\ Decoded(a, o).out = o
  BY DEF Decoded
<1>2. a >= Len(text) <=> ~(a < Len(text))
  OBVIOUS
<1> QED
  BY <1>1, <1>2, Zenon DEF DecodeRound, Decoded

\* One round decodes one character.
LEMMA DecodeCode ==
  ASSUME NEW safe, "%" \notin safe, NEW text \in Seq(UriChars), NEW k \in 1..Len(text), NEW o
  PROVE  DecodeRound(PercentEncode(text, safe), Decoded(Mark(text, safe, k - 1), o))
           = Decoded(Mark(text, safe, k), Append(o, text[k]))
<1> DEFINE w == PercentEncode(text, safe)
           m == Mark(text, safe, k - 1)
           n == Mark(text, safe, k)
           c == text[k]
           e == EncodeByte(c, safe)
<1>1. /\ w \in Seq(Codes) /\ m \in Nat /\ n = m + Len(e) /\ n <= Len(w)
      /\ \A q \in 1..Len(e) : w[m + q] = e[q]
  BY CodeAt
<1>2. c \in UriChars
  OBVIOUS
<1> HIDE DEF w, m, n, c
<1>3. /\ Len(e) \in 1..3
      /\ c \in DOMAIN Hex \ safe =>
              /\ Len(e) = 3 /\ e[1] = "%" /\ e[2] = Hex[c][1] /\ e[3] = Hex[c][2]
      /\ c \notin DOMAIN Hex \ safe => Len(e) = 1 /\ e[1] = c
  BY <1>2, CodeShape
<1> HIDE DEF e
<1>4. Len(w) \in Nat /\ m < Len(w)
  BY <1>1, <1>3
<1>5. CASE c \in DOMAIN Hex \ safe
  <2>0. Len(e) = 3 /\ e[1] = "%" /\ e[2] = Hex[c][1] /\ e[3] = Hex[c][2]
    BY <1>3, <1>5
  <2>1. n = m + 3 /\ (m + 1) + 2 <= Len(w) /\ (m + 1) + 1 = m + 2 /\ (m + 1) + 2 = m + 3
    BY <1>1, <1>4, <2>0
  <2>2. w[m + 1] = "%" /\ w[m + 2] = Hex[c][1] /\ w[m + 3] = Hex[c][2]
    <3>1. 1 \in 1..Len(e) /\ 2 \in 1..Len(e) /\ 3 \in 1..Len(e)
      BY <2>0
    <3>2. w[m + 1] = e[1] /\ w[m + 2] = e[2] /\ w[m + 3] = e[3]
      BY <1>1, <3>1
    <3> QED
      BY <2>0, <3>2, Zenon
  <2>3. /\ Hex[c][1] \in HexDigits /\ Hex[c][2] \in HexDigits
        /\ Byte(Hex[c][1], Hex[c][2]) = c
    <3>1. c \in DOMAIN Hex
      BY <1>5
    <3> QED
      BY <3>1, HexByte, Zenon
  <2>4. IsEscape(w, m + 1)
    BY <2>1, <2>2, <2>3, Zenon DEF IsEscape
  <2>5. DecodeRound(w, Decoded(m, o)) = Decoded(m + 3, Append(o, Byte(w[m + 2], w[m + 3])))
    BY <1>1, <1>4, <2>4, DecodeRounds
  <2>6. DecodeRound(w, Decoded(m, o)) = Decoded(n, Append(o, c))
    BY <2>1, <2>2, <2>3, <2>5, Zenon
  <2> QED
    BY <2>6 DEF w, m, n, c
<1>6. CASE c \notin DOMAIN Hex \ safe
  <2>1. n = m + 1 /\ w[m + 1] = c
    <3>1. 1 \in 1..Len(e)
      BY <1>3
    <3>2. w[m + 1] = e[1]
      BY <1>1, <3>1
    <3>3. Len(e) = 1 /\ e[1] = c
      BY <1>3, <1>6
    <3> QED
      BY <1>1, <3>2, <3>3
  <2>2. c # "%"
    BY <1>6, HexIs DEF Hexed
  <2>3. ~IsEscape(w, m + 1)
    BY <2>1, <2>2, Zenon DEF IsEscape
  <2>4. DecodeRound(w, Decoded(m, o)) = Decoded(m + 1, Append(o, w[m + 1]))
    BY <1>1, <1>4, <2>3, DecodeRounds
  <2>5. DecodeRound(w, Decoded(m, o)) = Decoded(n, Append(o, c))
    BY <2>1, <2>4, Zenon
  <2> QED
    BY <2>5 DEF w, m, n, c
<1> QED
  BY <1>5, <1>6

\* A text comes back from its encoding.
LEMMA DecodeEncode ==
  ASSUME NEW safe, "%" \notin safe, NEW text \in Seq(UriChars)
  PROVE  /\ PercentEncode(text, safe) \in Seq(Codes)
         /\ percent_decode_uri_component(PercentEncode(text, safe)) = text
<1> DEFINE w == PercentEncode(text, safe)
           n == Len(text)
           D == Decodings(w)
           M(k) == Mark(text, safe, k)
           G == {k \in 0..n : D[k] = Decoded(M(k), SubSeq(text, 1, k))}
           H == {k \in Nat : D[n + k] = Decoded(Len(w), text)}
<1>1. n \in Nat /\ 0 \in 0..n /\ n \in 0..n
  OBVIOUS
<1>2. w \in Seq(Codes) /\ Len(w) = M(n) /\ Len(w) \in Nat
  BY <1>1, EncodingsType DEF PercentEncode, Mark
<1>3. n <= Len(w) /\ M(0) = 0
  <2>1. M(0) = 0
    BY MarkZero
  <2>2. n - 0 <= M(n) - M(0)
    BY <1>1, MarkGrows
  <2> QED
    BY <1>1, <1>2, <2>1, <2>2
<1>4. D[0] = Decoded(0, <<>>) /\ \A k \in 1..Len(w) : D[k] = DecodeRound(w, D[k - 1])
  BY <1>2, DecodingsDef DEF Decoded
<1>5. \A k \in 1..n : \A o : DecodeRound(w, Decoded(M(k - 1), o)) = Decoded(M(k), Append(o, text[k]))
  BY DecodeCode
<1>6. percent_decode_uri_component(w) = D[Len(w)].out
  BY DEF percent_decode_uri_component
<1> HIDE DEF w, D, M
<1>7. 0 \in G
  <2>1. SubSeq(text, 1, 0) = <<>>
    OBVIOUS
  <2> QED
    BY <1>1, <1>3, <1>4, <2>1
<1>8. ASSUME NEW k \in 0..(n - 1), k \in G
      PROVE  k + 1 \in G
  <2>1. k + 1 \in 1..n /\ (k + 1) - 1 = k /\ k + 1 \in 0..n /\ k + 1 \in 1..Len(w)
    BY <1>2, <1>3
  <2> DEFINE c == SubSeq(text, 1, k)
  <2>2. SubSeq(text, 1, k + 1) = Append(c, text[k + 1])
    BY OneMore
  <2>3. D[k] = Decoded(M(k), c)
    BY <1>8
  <2> HIDE DEF c
  <2>4. D[k + 1] = DecodeRound(w, D[k])
    BY <1>4, <2>1
  <2>5. DecodeRound(w, Decoded(M(k), c)) = Decoded(M(k + 1), Append(c, text[k + 1]))
    <3>1. \A o : DecodeRound(w, Decoded(M((k + 1) - 1), o)) = Decoded(M(k + 1), Append(o, text[k + 1]))
      BY <1>5, <2>1, Zenon
    <3> QED
      BY <2>1, <3>1, Zenon
  <2>6. D[k + 1] = Decoded(M(k + 1), SubSeq(text, 1, k + 1))
    BY <2>2, <2>3, <2>4, <2>5, Zenon
  <2> QED
    BY <2>1, <2>6
<1>9. D[n] = Decoded(Len(w), text)
  <2>1. n \in G
    <3> HIDE DEF G
    <3> QED
      BY <1>1, <1>7, <1>8, Induct
  <2>2. SubSeq(text, 1, n) = text
    BY SubSeqFull
  <2>3. D[n] = Decoded(M(n), SubSeq(text, 1, n))
    BY <2>1
  <2> QED
    BY <1>2, <2>2, <2>3, Zenon
\* the rounds left over
<1> DEFINE N == Len(w) - n
<1>10. N \in Nat /\ n + N = Len(w)
  BY <1>1, <1>2, <1>3
<1> HIDE DEF N
<1>11. 0 \in H
  <2>1. n + 0 = n
    OBVIOUS
  <2> QED
    BY <1>9, <2>1
<1>12. ASSUME NEW k \in 0..(N - 1), k \in H
       PROVE  k + 1 \in H
  <2> DEFINE q == n + k
  <2>1. q + 1 \in 1..Len(w) /\ (q + 1) - 1 = q /\ n + (k + 1) = q + 1 /\ k + 1 \in Nat
    BY <1>1, <1>10
  <2>2. D[q] = Decoded(Len(w), text)
    BY <1>12
  <2> HIDE DEF q
  <2>3. D[q + 1] = DecodeRound(w, D[q])
    BY <1>4, <2>1
  <2>4. DecodeRound(w, Decoded(Len(w), text)) = Decoded(Len(w), text)
    <3>1. Len(w) >= Len(w)
      BY <1>2
    <3> QED
      BY <1>2, <3>1, DecodeRounds
  <2>5. D[n + (k + 1)] = Decoded(Len(w), text)
    BY <2>1, <2>2, <2>3, <2>4, Zenon
  <2> QED
    BY <2>1, <2>5
<1>13. D[Len(w)] = Decoded(Len(w), text)
  <2>1. N \in 0..N
    BY <1>10
  <2>2. N \in H
    <3> HIDE DEF H
    <3> QED
      BY <1>10, <1>11, <1>12, <2>1, Induct
  <2> QED
    BY <1>10, <2>2
<1>14. Decoded(Len(w), text).out = text
  BY DEF Decoded
<1>15. percent_decode_uri_component(w) = text
  BY <1>6, <1>13, <1>14, Zenon
<1> QED
  BY <1>2, <1>15 DEF w

-----------------------------------------------------------------------------
(***************************************************************************)
(* File URIs.                                                              *)
(***************************************************************************)
LEMMA NoBackslash ==
  "\\" \notin Codes /\ UriChars \subseteq Codes
<1>1. "\\" \notin PathChars
  BY UriAssumption
<1> QED
  BY <1>1 DEF Codes, UriChars, HexDigits

LEMMA SeparatorsKept ==
  ASSUME NEW s \in Seq(Codes)
  PROVE  NormalizePathSeparators(s) = s
<1>1. s \in [1..Len(s) -> Codes] /\ DOMAIN s = 1..Len(s)
  BY LenProperties
<1>2. \A i \in DOMAIN s : (IF s[i] = "\\" THEN "/" ELSE s[i]) = s[i]
  BY <1>1, NoBackslash
<1>3. NormalizePathSeparators(s) = [i \in DOMAIN s |-> s[i]]
  BY <1>2 DEF NormalizePathSeparators
<1> QED
  BY <1>1, <1>3

LEMMA UriSeq ==
  ASSUME NEW s \in Seq(UriChars)
  PROVE  s \in Seq(Codes) /\ NormalizePathSeparators(s) = s
<1>1. s \in Seq(Codes)
  BY NoBackslash, SeqMonotonic
<1> QED
  BY <1>1, SeparatorsKept

\* An encoded path holds neither of the characters that end the path of a URI.
FileCodes == Codes \ {"?", "#"}

LEMMA FileCode ==
  ASSUME NEW c \in UriChars, NEW safe, "?" \notin safe, "#" \notin safe
  PROVE  EncodeByte(c, safe) \in Seq(FileCodes)
<1> DEFINE e == EncodeByte(c, safe)
<1>1. CASE c \in DOMAIN Hex \ safe
  <2> DEFINE x == Hex[c][1]
             y == Hex[c][2]
  <2>1. e = <<"%", x, y>>
    BY <1>1 DEF EncodeByte
  <2>2. x \in HexDigits /\ y \in HexDigits
    BY <1>1, HexByte
  <2> HIDE DEF x, y, e
  <2>3. x \in FileCodes /\ y \in FileCodes /\ "%" \in FileCodes
    BY <2>2 DEF FileCodes, Codes, HexDigits
  <2>4. e \in Seq(FileCodes)
    BY <2>1, <2>3
  <2> QED
    BY <2>4 DEF e
<1>2. CASE c \notin DOMAIN Hex \ safe
  <2>1. e = <<c>>
    BY <1>2 DEF EncodeByte
  <2>2. c \in FileCodes
    BY <1>2, HexIs DEF Codes, FileCodes, Hexed
  <2> HIDE DEF e
  <2>3. e \in Seq(FileCodes)
    BY <2>1, <2>2
  <2> QED
    BY <2>3 DEF e
<1> QED
  BY <1>1, <1>2

LEMMA FileCodesOnly ==
  ASSUME NEW safe, "?" \notin safe, "#" \notin safe, NEW text \in Seq(UriChars)
  PROVE  PercentEncode(text, safe) \in Seq(FileCodes)
<1> DEFINE G == {i \in 0..Len(text) : Encodings(text, safe)[i] \in Seq(FileCodes)}
<1>1. 0 \in G
  <2>1. Encodings(text, safe)[0] = <<>>
    BY EncodingsDef
  <2>2. <<>> \in Seq(FileCodes)
    OBVIOUS
  <2>3. Encodings(text, safe)[0] \in Seq(FileCodes)
    BY <2>1, <2>2, Zenon
  <2>4. 0 \in 0..Len(text)
    OBVIOUS
  <2> QED
    BY <2>3, <2>4
<1>2. ASSUME NEW i \in 0..(Len(text) - 1), i \in G
      PROVE  i + 1 \in G
  <2>1. i + 1 \in 1..Len(text) /\ (i + 1) - 1 = i /\ Encodings(text, safe)[i] \in Seq(FileCodes)
    BY <1>2
  <2>2. Encodings(text, safe)[i + 1] = Encodings(text, safe)[i] \o EncodeByte(text[i + 1], safe)
    BY <2>1, EncodingsDef
  <2>3. text[i + 1] \in UriChars
    BY <2>1
  <2>4. EncodeByte(text[i + 1], safe) \in Seq(FileCodes)
    BY <2>3, FileCode
  <2>5. Encodings(text, safe)[i + 1] \in Seq(FileCodes)
    BY <2>1, <2>2, <2>4, Joined
  <2> QED
    BY <2>1, <2>5
<1>3. \A i \in 0..Len(text) : i \in G
  <2> HIDE DEF G
  <2> QED
    BY <1>1, <1>2, Induct
<1>4. Len(text) \in G
  BY <1>3
<1> QED
  BY <1>4 DEF PercentEncode

LEMMA FirstDef ==
  ASSUME NEW S, NEW s \in Seq(S), NEW chars
  PROVE  /\ First(s, chars) \in 1..(Len(s) + 1)
         /\ \A i \in 1..Len(s) : i < First(s, chars) => s[i] \notin chars
         /\ First(s, chars) <= Len(s) => s[First(s, chars)] \in chars
<1> DEFINE found == {i \in DOMAIN s : s[i] \in chars}
<1>1. DOMAIN s = 1..Len(s) /\ Len(s) \in Nat
  OBVIOUS
<1>2. CASE found = {}
  <2>1. First(s, chars) = Len(s) + 1
    BY <1>2 DEF First
  <2> QED
    BY <1>1, <1>2, <2>1
<1>3. CASE found # {}
  <2>1. found \in SUBSET Nat
    BY <1>1
  <2>2. \E i \in found : \A j \in found : i <= j
    BY <1>3, <2>1, LeastNat
  <2> DEFINE f == CHOOSE i \in found : \A j \in found : i <= j
  <2>3. f \in found /\ \A j \in found : f <= j
    BY <2>2
  <2>4. First(s, chars) = f
    BY <1>3, Zenon DEF First
  <2> HIDE DEF f
  <2>5. f \in 1..Len(s) /\ s[f] \in chars
    BY <1>1, <2>3
  <2>6. \A i \in 1..Len(s) : i < f => s[i] \notin chars
    BY <1>1, <2>3, <2>5
  <2> QED
    BY <1>1, <2>4, <2>5, <2>6
<1> QED
  BY <1>2, <1>3

LEMMA NoSuffix ==
  ASSUME NEW s \in Seq(FileCodes)
  PROVE  StripUriPathSuffix(s) = s
<1> DEFINE f == First(s, {"?", "#"})
<1>1. /\ f \in 1..(Len(s) + 1)
      /\ f <= Len(s) => s[f] \in {"?", "#"}
  BY FirstDef
<1> HIDE DEF f
<1>2. Len(s) \in Nat /\ \A i \in 1..Len(s) : s[i] \in FileCodes
  OBVIOUS
<1>3. f = Len(s) + 1
  BY <1>1, <1>2 DEF FileCodes
<1>4. f - 1 = Len(s)
  BY <1>2, <1>3
<1>5. SubSeq(s, 1, Len(s)) = s
  BY SubSeqFull
<1> QED
  BY <1>4, <1>5 DEF f, StripUriPathSuffix

LEMMA TwoSlashes ==
  ASSUME NEW S, NEW s \in Seq(S)
  PROVE  IsPrefix(<<"/", "/">>, s) <=> Len(s) >= 2 /\ s[1] = "/" /\ s[2] = "/"
<1> DEFINE t == <<"/", "/">>
<1>1. Len(t) = 2 /\ SubSeq(t, 1, 2) = t /\ t[1] = "/" /\ t[2] = "/" /\ t \in Seq({"/"})
  <2>1. t \in Seq({"/"}) /\ Len(t) = 2 /\ t[1] = "/" /\ t[2] = "/"
    OBVIOUS
  <2> HIDE DEF t
  <2>2. SubSeq(t, 1, Len(t)) = t
    BY <2>1, SubSeqFull
  <2> QED
    BY <2>1, <2>2, Zenon
<1>2. IsPrefix(t, s) <=> 2 <= Len(s) /\ t = SubSeq(s, 1, 2)
  <2> HIDE DEF t
  <2> QED
    BY <1>1 DEF IsPrefix
<1>3. Len(s) \in Nat
  OBVIOUS
<1>4. ASSUME Len(s) >= 2
      PROVE  t = SubSeq(s, 1, 2) <=> s[1] = "/" /\ s[2] = "/"
  <2> DEFINE u == SubSeq(s, 1, 2)
  <2>1. u \in Seq(S) /\ Len(u) = 2 /\ u[1] = s[1] /\ u[2] = s[2]
    BY <1>4
  <2>2. u = t => s[1] = "/" /\ s[2] = "/"
    BY <2>1, <1>1
  <2>3. s[1] = "/" /\ s[2] = "/" => u = t
    <3> SUFFICES ASSUME s[1] = "/", s[2] = "/"
                 PROVE  u = t
      OBVIOUS
    <3> HIDE DEF u, t
    <3>1. u \in Seq(S \cup {"/"}) /\ t \in Seq(S \cup {"/"})
      BY <1>1, <2>1, SeqMonotonic
    <3>2. \A i \in 1..Len(u) : u[i] = t[i]
      BY <1>1, <2>1
    <3> QED
      BY <1>1, <2>1, <3>1, <3>2, SeqEqual
  <2> QED
    BY <2>2, <2>3
<1> QED
  BY <1>2, <1>3, <1>4

\* The code of a character begins with the character or is an escape.
LEMMA CodeStart ==
  ASSUME NEW safe, "/" \in safe, NEW p \in Seq(UriChars), NEW i \in 1..Len(p)
  PROVE  /\ Mark(p, safe, i - 1) \in Nat
         /\ PercentEncode(p, safe)[Mark(p, safe, i - 1) + 1] \in {p[i], "%"}
         /\ p[i] = "/" => /\ PercentEncode(p, safe)[Mark(p, safe, i - 1) + 1] = "/"
                          /\ Mark(p, safe, i) = Mark(p, safe, i - 1) + 1
<1> DEFINE w == PercentEncode(p, safe)
           m == Mark(p, safe, i - 1)
           n == Mark(p, safe, i)
           c == p[i]
           e == EncodeByte(c, safe)
<1>1. m \in Nat /\ n = m + Len(e) /\ \A k \in 1..Len(e) : w[m + k] = e[k]
  BY CodeAt
<1>2. c \in UriChars
  OBVIOUS
<1> HIDE DEF w, m, n, c
<1>3. /\ Len(e) \in 1..3
      /\ c \in DOMAIN Hex \ safe => e[1] = "%"
      /\ c \notin DOMAIN Hex \ safe => Len(e) = 1 /\ e[1] = c
  BY <1>2, CodeShape
<1> HIDE DEF e
<1>4. w[m + 1] = e[1]
  <2>1. 1 \in 1..Len(e)
    BY <1>3
  <2> QED
    BY <1>1, <2>1
<1>5. e[1] \in {c, "%"}
  BY <1>3
<1>6. c = "/" => Len(e) = 1 /\ e[1] = c
  BY <1>3
<1> QED
  BY <1>1, <1>4, <1>5, <1>6 DEF w, m, n, c

\* The encodings of the first characters of a path.
LEMMA EncodedStart ==
  ASSUME NEW safe, "/" \in safe, NEW p \in Seq(UriChars), Len(p) >= 1, p[1] = "/"
  PROVE  /\ PercentEncode(p, safe) \in Seq(Codes)
         /\ Len(PercentEncode(p, safe)) >= Len(p)
         /\ PercentEncode(p, safe)[1] = "/"
         /\ Len(p) = 1 => Len(PercentEncode(p, safe)) = 1
         /\ Len(p) >= 2 => PercentEncode(p, safe)[2] \in {p[2], "%"}
         /\ Len(p) >= 2 /\ p[2] = "/" => PercentEncode(p, safe)[2] = "/"
         /\ Len(p) >= 3 /\ p[2] = "/" => PercentEncode(p, safe)[3] \in {p[3], "%"}
<1> DEFINE w == PercentEncode(p, safe)
           m1 == Mark(p, safe, 1)
           m2 == Mark(p, safe, 2)
<1>1. Len(p) \in Nat /\ 1 \in 1..Len(p) /\ 0 \in 0..Len(p) /\ Len(p) \in 0..Len(p)
  OBVIOUS
<1>2. Mark(p, safe, 0) = 0
  BY MarkZero
<1>3. w \in Seq(Codes) /\ Len(w) = Mark(p, safe, Len(p)) /\ Len(w) \in Nat
  BY <1>1, EncodingsType DEF PercentEncode, Mark
<1>4. Len(w) >= Len(p)
  <2>1. Len(p) - 0 <= Mark(p, safe, Len(p)) - Mark(p, safe, 0)
    BY <1>1, MarkGrows
  <2> QED
    BY <1>1, <1>2, <1>3, <2>1
<1>5. m1 = 1 /\ w[1] = "/"
  <2>1. 1 - 1 = 0 /\ 0 + 1 = 1
    OBVIOUS
  <2>2. p[1] = "/" => w[Mark(p, safe, 1 - 1) + 1] = "/" /\ m1 = Mark(p, safe, 1 - 1) + 1
    BY <1>1, CodeStart
  <2> QED
    BY <1>2, <2>1, <2>2, Zenon
<1>6. Len(p) = 1 => Len(w) = 1
  BY <1>3, <1>5
<1>7. ASSUME Len(p) >= 2
      PROVE  w[2] \in {p[2], "%"} /\ (p[2] = "/" => w[2] = "/" /\ m2 = 2)
  <2>1. 2 \in 1..Len(p) /\ 2 - 1 = 1 /\ 1 + 1 = 2
    BY <1>1, <1>7
  <2>2. /\ w[Mark(p, safe, 2 - 1) + 1] \in {p[2], "%"}
        /\ p[2] = "/" => w[Mark(p, safe, 2 - 1) + 1] = "/" /\ m2 = Mark(p, safe, 2 - 1) + 1
    BY <2>1, CodeStart
  <2> QED
    BY <1>5, <2>1, <2>2, Zenon
<1>8. ASSUME Len(p) >= 3, p[2] = "/"
      PROVE  w[3] \in {p[3], "%"}
  <2>1. 3 \in 1..Len(p) /\ 3 - 1 = 2 /\ 2 + 1 = 3 /\ Len(p) >= 2
    BY <1>1, <1>8
  <2>2. w[Mark(p, safe, 3 - 1) + 1] \in {p[3], "%"}
    BY <2>1, CodeStart
  <2>3. m2 = 2
    BY <1>7, <1>8, <2>1
  <2> QED
    BY <2>1, <2>2, <2>3, Zenon
<1> HIDE DEF w
<1> QED
  BY <1>3, <1>4, <1>5, <1>6, <1>7, <1>8 DEF w

\* The URI of an absolute path is its encoding, after an empty authority when
\* the path is not a share.
LEMMA MadeUri ==
  ASSUME NEW p \in Seq(UriChars), Len(p) >= 1, p[1] = "/"
  PROVE  MakeFileUriFromPath(p) =
           IF Len(p) >= 2 /\ p[2] = "/" THEN PercentEncode(p, {"/"})
           ELSE <<"/", "/">> \o PercentEncode(p, {"/"})
<1> DEFINE w == PercentEncode(p, {"/"})
<1>1. NormalizePathSeparators(p) = p
  BY UriSeq
<1>2. Len(p) \in Nat /\ p # <<>> /\ ~IsWindowsDrivePath(p)
  <2>1. "/" \notin Letters
    BY DEF Letters
  <2> QED
    BY <2>1 DEF IsWindowsDrivePath
<1>3. IsAbsoluteFilePath(p)
  BY <1>2 DEF IsAbsoluteFilePath
<1>4. MakeFileUriFromPath(p) = IF IsPrefix(<<"/", "/">>, w) THEN w ELSE <<"/", "/">> \o w
  BY <1>1, <1>2, <1>3, Zenon DEF MakeFileUriFromPath, PercentEncodeFilePath
<1>5. /\ w \in Seq(Codes) /\ Len(w) >= Len(p) /\ w[1] = "/"
      /\ Len(p) = 1 => Len(w) = 1
      /\ Len(p) >= 2 => w[2] \in {p[2], "%"}
      /\ Len(p) >= 2 /\ p[2] = "/" => w[2] = "/"
  <2>1. "/" \in {"/"}
    OBVIOUS
  <2> QED
    BY <2>1, EncodedStart
<1>6. IsPrefix(<<"/", "/">>, w) <=> Len(w) >= 2 /\ w[1] = "/" /\ w[2] = "/"
  <2> HIDE DEF w
  <2> QED
    BY <1>5, TwoSlashes
<1>7. IsPrefix(<<"/", "/">>, w) <=> Len(p) >= 2 /\ p[2] = "/"
  <2> HIDE DEF w
  <2>1. Len(w) \in Nat
    BY <1>5
  <2>2. CASE Len(p) = 1
    BY <1>5, <1>6, <2>1, <2>2
  <2>3. CASE Len(p) >= 2
    BY <1>2, <1>5, <1>6, <2>1, <2>3
  <2>4. Len(p) = 1 \/ Len(p) >= 2
    <3>1. \A x \in Nat : x >= 1 => x = 1 \/ x >= 2
      OBVIOUS
    <3>2. Len(p) \in Nat
      OBVIOUS
    <3> QED
      BY <3>1, <3>2, Zenon
  <2> QED
    BY <2>2, <2>3, <2>4, Zenon
<1> QED
  BY <1>4, <1>7, Zenon

LEMMA DecodedFilePath ==
  ASSUME NEW p \in Seq(UriChars)
  PROVE  /\ PercentDecodeFilePath(PercentEncode(p, {"/"})) = p
         /\ PercentEncode(p, {"/"}) \in Seq(FileCodes)
<1> DEFINE w == PercentEncode(p, {"/"})
<1>0. "%" \notin {"/"} /\ "?" \notin {"/"} /\ "#" \notin {"/"}
  OBVIOUS
<1>1. w \in Seq(Codes) /\ percent_decode_uri_component(w) = p
  BY <1>0, DecodeEncode
<1>2. w \in Seq(FileCodes)
  BY <1>0, FileCodesOnly
<1> HIDE DEF w
<1>3. NormalizePathSeparators(w) = w
  BY <1>1, SeparatorsKept
<1>4. PercentDecodeFilePath(w) = p
  BY <1>1, <1>3, Zenon DEF PercentDecodeFilePath
<1> QED
  BY <1>2, <1>4 DEF w

\* What a file URI with an empty authority, and one with a host, stand for.
LEMMA RawPathPlain ==
  ASSUME NEW w \in Seq(FileCodes), Len(w) >= 1, w[1] = "/"
  PROVE  RawPathFromFileUri(<<"/", "/">> \o w) = PercentDecodeFilePath(w)
<1> DEFINE t == <<"/", "/">>
           uri == t \o w
           rest == SubSeq(uri, 3, Len(uri))
           f == First(rest, {"/", "?", "#"})
           authority == SubSeq(rest, 1, f - 1)
           q == SubSeq(rest, Len(authority) + 1, Len(rest))
<1>1. t \in Seq(FileCodes) /\ Len(t) = 2
  BY DEF FileCodes, Codes, UriChars
<1>2. rest = w
  <2> HIDE DEF t
  <2>1. SubSeq(t \o w, Len(t) + 1, Len(t \o w)) = w
    BY <1>1, Halves
  <2>2. Len(t) + 1 = 3
    BY <1>1
  <2> QED
    BY <2>1, <2>2
<1>3. /\ f \in 1..(Len(w) + 1)
      /\ \A i \in 1..Len(w) : i < f => w[i] \notin {"/", "?", "#"}
  <2>1. /\ First(w, {"/", "?", "#"}) \in 1..(Len(w) + 1)
        /\ \A i \in 1..Len(w) : i < First(w, {"/", "?", "#"}) => w[i] \notin {"/", "?", "#"}
    BY FirstDef
  <2> QED
    BY <1>2, <2>1, Zenon
<1> HIDE DEF rest, f
<1>4. f = 1 /\ f - 1 = 0
  BY <1>3
<1>5. authority = <<>>
  <2>1. SubSeq(w, 1, 0) = <<>>
    OBVIOUS
  <2> QED
    BY <1>2, <1>4, <2>1, Zenon
<1> HIDE DEF authority
<1>6. q = w
  <2>1. Len(<<>>) + 1 = 1
    OBVIOUS
  <2>2. SubSeq(w, 1, Len(w)) = w
    BY SubSeqFull
  <2> QED
    BY <1>2, <1>5, <2>1, <2>2, Zenon
<1>7. StripUriPathSuffix(q) = w
  BY <1>6, NoSuffix
<1>8. authority \in {<<>>, <<"localhost">>}
  BY <1>5, Zenon
<1>9. RawPathFromFileUri(uri) = PercentDecodeFilePath(StripUriPathSuffix(q))
  BY <1>8, Zenon DEF RawPathFromFileUri, rest, authority, f
<1> QED
  BY <1>7, <1>9, Zenon

Regroups(a, b, c) == (a \o b) \o c = a \o (b \o c)

LEMMA Regrouped ==
  ASSUME NEW S, NEW a \in Seq(S), NEW b \in Seq(S), NEW c \in Seq(S)
  PROVE  Regroups(a, b, c)
BY ConcatAssociative DEF Regroups

LEMMA RawPathShare ==
  ASSUME NEW w \in Seq(FileCodes), Len(w) >= 3, w[1] = "/", w[2] = "/",
         w[3] \notin {"/", "localhost"}
  PROVE  RawPathFromFileUri(w) = PercentDecodeFilePath(w)
<1> DEFINE rest == SubSeq(w, 3, Len(w))
           f == First(rest, {"/", "?", "#"})
           authority == SubSeq(rest, 1, f - 1)
           n == Len(authority)
           q == SubSeq(rest, n + 1, Len(rest))
           t == <<"/", "/">>
<1>0. Len(w) \in Nat /\ w[3] \in FileCodes
  OBVIOUS
<1>1. rest \in Seq(FileCodes) /\ Len(rest) = Len(w) - 2 /\ rest[1] = w[3]
  <2>1. 2 \in 0..Len(w) /\ Len(w) \in 2..Len(w) /\ 1 \in 1..(Len(w) - 2)
    BY <1>0
  <2>2. /\ SubSeq(w, 2 + 1, Len(w)) \in Seq(FileCodes)
        /\ Len(SubSeq(w, 2 + 1, Len(w))) = Len(w) - 2
        /\ \A j \in 1..(Len(w) - 2) : SubSeq(w, 2 + 1, Len(w))[j] = w[2 + j]
    BY <2>1, Window
  <2>3. 2 + 1 = 3
    OBVIOUS
  <2> QED
    BY <2>1, <2>2, <2>3
<1>2. w = t \o rest
  <2>1. 2 \in 0..Len(w) /\ 2 + 1 = 3
    BY <1>0
  <2>2. w = SubSeq(w, 1, 2) \o SubSeq(w, 2 + 1, Len(w))
    BY <2>1, Parts
  <2>3. SubSeq(w, 1, 2) = t
    <3> DEFINE u == SubSeq(w, 1, 2)
    <3>1. u \in Seq(FileCodes) /\ Len(u) = 2 /\ u[1] = w[1] /\ u[2] = w[2]
      BY <1>0
    <3>2. t \in Seq(FileCodes) /\ Len(t) = 2 /\ t[1] = "/" /\ t[2] = "/"
      BY DEF FileCodes, Codes, UriChars
    <3> HIDE DEF u, t
    <3>3. u = t
      BY <3>1, <3>2, SeqEqual
    <3> QED
      BY <3>3 DEF u
  <2> QED
    BY <2>1, <2>2, <2>3, Zenon
<1> HIDE DEF rest
<1>3. /\ f \in 1..(Len(rest) + 1)
      /\ f <= Len(rest) => rest[f] \in {"/", "?", "#"}
  BY <1>1, FirstDef
<1> HIDE DEF f
<1>4. f - 1 \in 1..Len(rest)
  <2>1. f # 1
    BY <1>0, <1>1, <1>3 DEF FileCodes
  <2> QED
    BY <1>0, <1>1, <1>3, <2>1
<1>5. authority \in Seq(FileCodes) /\ n = f - 1 /\ authority[1] = w[3]
  <2>1. \A m \in 1..Len(rest) : /\ SubSeq(rest, 1, m) \in Seq(FileCodes)
                                /\ Len(SubSeq(rest, 1, m)) = m
                                /\ SubSeq(rest, 1, m)[1] = rest[1]
    BY <1>1
  <2> QED
    BY <1>1, <1>4, <2>1
<1>6. authority \notin {<<>>, <<"localhost">>}
  <2>1. authority # <<>>
    <3>1. Len(<<>>) = 0
      OBVIOUS
    <3>2. n # 0
      BY <1>0, <1>1, <1>4, <1>5
    <3> QED
      BY <3>1, <3>2
  <2>2. authority # <<"localhost">>
    <3>1. <<"localhost">>[1] = "localhost"
      OBVIOUS
    <3> QED
      BY <1>5, <3>1
  <2> QED
    BY <2>1, <2>2
<1>7. q \in Seq(FileCodes) /\ rest = authority \o q
  <2>1. f - 1 \in 0..Len(rest)
    BY <1>1, <1>4
  <2>2. /\ SubSeq(rest, (f - 1) + 1, Len(rest)) \in Seq(FileCodes)
        /\ rest = SubSeq(rest, 1, f - 1) \o SubSeq(rest, (f - 1) + 1, Len(rest))
    BY <1>1, <2>1, Parts
  <2> QED
    BY <1>5, <2>2, Zenon
<1>8. StripUriPathSuffix(q) = q
  BY <1>7, NoSuffix
<1>9. w = (t \o authority) \o q
  <2>1. t \in Seq(FileCodes)
    BY DEF FileCodes, Codes, UriChars
  <2> HIDE DEF t, authority, q, n
  <2>2. authority \in Seq(FileCodes)
    BY <1>5
  <2>3. q \in Seq(FileCodes)
    BY <1>7
  <2>4. Regroups(t, authority, q)
    BY <2>1, <2>2, <2>3, Regrouped
  <2>5. (t \o authority) \o q = t \o (authority \o q)
    BY <2>4 DEF Regroups
  <2>6. rest = authority \o q
    BY <1>7
  <2> QED
    BY <1>2, <2>5, <2>6, Zenon
<1>10. RawPathFromFileUri(w) = PercentDecodeFilePath((t \o authority) \o StripUriPathSuffix(q))
  <2> HIDE DEF authority, t
  <2>1. ~(authority \in {<<>>, <<"localhost">>})
    BY <1>6
  <2> QED
    BY <2>1, Zenon DEF RawPathFromFileUri, rest, f, authority, t
<1> QED
  BY <1>8, <1>9, <1>10, Zenon

\* A path other than the shares a URI does not keep comes back from its URI.
UriKeeps(p) ==
  /\ p \in Seq(UriChars) /\ Len(p) >= 1 /\ p[1] = "/"
  /\ Len(p) >= 2 /\ p[2] = "/" => Len(p) >= 3 /\ p[3] \notin {"/", "localhost"}

LEMMA FileUriBack ==
  ASSUME NEW p, UriKeeps(p)
  PROVE  RawPathFromFileUri(MakeFileUriFromPath(p)) = p
<1> DEFINE w == PercentEncode(p, {"/"})
           uri == MakeFileUriFromPath(p)
<1>0. p \in Seq(UriChars) /\ Len(p) >= 1 /\ p[1] = "/" /\ Len(p) \in Nat
  BY DEF UriKeeps
<1>1. uri = IF Len(p) >= 2 /\ p[2] = "/" THEN w ELSE <<"/", "/">> \o w
  BY <1>0, MadeUri
<1>2. PercentDecodeFilePath(w) = p /\ w \in Seq(FileCodes)
  BY <1>0, DecodedFilePath
<1>3. /\ Len(w) >= Len(p) /\ w[1] = "/"
      /\ Len(p) >= 2 /\ p[2] = "/" => w[2] = "/"
      /\ Len(p) >= 3 /\ p[2] = "/" => w[3] \in {p[3], "%"}
  <2>1. "/" \in {"/"}
    OBVIOUS
  <2> QED
    BY <1>0, <2>1, EncodedStart
<1> HIDE DEF w, uri
<1>4. Len(w) \in Nat
  BY <1>2
<1>5. CASE Len(p) >= 2 /\ p[2] = "/"
  <2>1. Len(p) >= 3 /\ p[3] \notin {"/", "localhost"}
    BY <1>5 DEF UriKeeps
  <2>2. Len(w) >= 3 /\ w[1] = "/" /\ w[2] = "/" /\ w[3] \notin {"/", "localhost"}
    BY <1>0, <1>3, <1>4, <1>5, <2>1
  <2>3. RawPathFromFileUri(w) = PercentDecodeFilePath(w)
    BY <1>2, <2>2, RawPathShare
  <2>4. uri = w
    BY <1>1, <1>5, Zenon
  <2> QED
    BY <1>2, <2>3, <2>4, Zenon DEF uri
<1>6. CASE ~(Len(p) >= 2 /\ p[2] = "/")
  <2>1. Len(w) >= 1
    BY <1>0, <1>3, <1>4
  <2>2. RawPathFromFileUri(<<"/", "/">> \o w) = PercentDecodeFilePath(w)
    BY <1>2, <1>3, <2>1, RawPathPlain
  <2>3. uri = <<"/", "/">> \o w
    BY <1>1, <1>6, Zenon
  <2> QED
    BY <1>2, <2>2, <2>3, Zenon DEF uri
<1> QED
  BY <1>5, <1>6

-----------------------------------------------------------------------------
(***************************************************************************)
(* Normalised paths: no component is empty or made of one or two dots.     *)
(***************************************************************************)
StopsAt(s, k) == k > Len(s) \/ s[k] = "/"

\* The component that begins at i is "." or "..".
Dotted(s, i) ==
  s[i] = "." /\ (StopsAt(s, i + 1) \/ (i < Len(s) /\ s[i + 1] = "." /\ StopsAt(s, i + 2)))

CleanPath(s) ==
  /\ s \in Seq(UriChars) /\ Len(s) >= 1 /\ s[1] = "/"
  /\ \A i \in 2..Len(s) : s[i - 1] = "/" => (s[i] = "/" => i = 2) /\ ~Dotted(s, i)

NormalPath(s) == CleanPath(s) /\ (Len(s) > 1 => s[Len(s)] # "/")

LEMMA GreatestNat ==
  ASSUME NEW n \in Nat, NEW T \in SUBSET (0..n), T # {}
  PROVE  \E x \in T : \A y \in T : y <= x
<1> DEFINE D == {d \in 0..n : n - d \in T}
<1>1. D \in SUBSET Nat
  OBVIOUS
<1>2. D # {}
  <2>1. PICK x \in T : TRUE
    OBVIOUS
  <2>2. x \in 0..n
    BY <2>1
  <2>3. n - x \in 0..n /\ n - (n - x) = x
    BY <2>2
  <2> QED
    BY <2>1, <2>3
<1>3. PICK d \in D : \A e \in D : d <= e
  BY <1>1, <1>2, LeastNat
<1>4. d \in 0..n /\ n - d \in T
  BY <1>3
<1>5. ASSUME NEW y \in T
      PROVE  y <= n - d
  <2>1. y \in 0..n /\ n - y \in 0..n /\ n - (n - y) = y
    OBVIOUS
  <2>2. n - y \in D
    BY <2>1
  <2>3. d <= n - y
    BY <1>3, <2>2
  <2> QED
    BY <1>4, <2>1, <2>3
<1> QED
  BY <1>4, <1>5

LEMMA LastSlashDef ==
  ASSUME NEW S, NEW s \in Seq(S)
  PROVE  /\ LastSlash(s) \in 0..Len(s)
         /\ LastSlash(s) # 0 => s[LastSlash(s)] = "/"
         /\ \A j \in 1..Len(s) : s[j] = "/" => j <= LastSlash(s)
<1> DEFINE slashes == {i \in DOMAIN s : s[i] = "/"}
<1>1. DOMAIN s = 1..Len(s) /\ Len(s) \in Nat
  OBVIOUS
<1>2. CASE slashes = {}
  <2>1. LastSlash(s) = 0
    BY <1>2 DEF LastSlash
  <2> QED
    BY <1>1, <1>2, <2>1
<1>3. CASE slashes # {}
  <2>1. slashes \in SUBSET (0..Len(s))
    BY <1>1
  <2>2. \E i \in slashes : \A j \in slashes : j <= i
    BY <1>1, <1>3, <2>1, GreatestNat
  <2> DEFINE f == CHOOSE i \in slashes : \A j \in slashes : j <= i
  <2>3. f \in slashes /\ \A j \in slashes : j <= f
    BY <2>2
  <2>4. LastSlash(s) = f
    BY <1>3, Zenon DEF LastSlash
  <2> HIDE DEF f
  <2>5. f \in 1..Len(s) /\ s[f] = "/"
    BY <1>1, <2>3
  <2>6. \A j \in 1..Len(s) : s[j] = "/" => j <= f
    BY <1>1, <2>3
  <2> QED
    BY <1>1, <2>4, <2>5, <2>6
<1> QED
  BY <1>2, <1>3

\* What one round of the normalisation does with a token.
OneDot(t) == Len(t) = 1 /\ t[1] = "."
TwoDots(t) == Len(t) = 2 /\ t[1] = "." /\ t[2] = "."
Parent(r) == SubSeq(r, 1, LastSlash(SubSeq(r, 1, Len(r) - 1)))

LEMMA TokenKinds ==
  ASSUME NEW S, NEW t \in Seq(S)
  PROVE  /\ t = <<>> <=> Len(t) = 0
         /\ t = <<".">> <=> OneDot(t)
         /\ t = <<".", ".">> <=> TwoDots(t)
<1>1. t = <<>> <=> Len(t) = 0
  OBVIOUS
<1> DEFINE d1 == <<".">>
           d2 == <<".", ".">>
<1>2. /\ d1 \in Seq(S \cup {"."}) /\ Len(d1) = 1 /\ d1[1] = "."
      /\ d2 \in Seq(S \cup {"."}) /\ Len(d2) = 2 /\ d2[1] = "." /\ d2[2] = "."
  OBVIOUS
<1>3. t \in Seq(S \cup {"."})
  BY SeqMonotonic
<1> HIDE DEF d1, d2
<1>4. OneDot(t) => t = d1
  <2> SUFFICES ASSUME OneDot(t)
               PROVE  t = d1
    OBVIOUS
  <2>1. Len(t) = Len(d1) /\ \A i \in 1..Len(t) : t[i] = d1[i]
    BY <1>2 DEF OneDot
  <2> QED
    BY <1>2, <1>3, <2>1, SeqEqual
<1>5. TwoDots(t) => t = d2
  <2> SUFFICES ASSUME TwoDots(t)
               PROVE  t = d2
    OBVIOUS
  <2>1. Len(t) = Len(d2) /\ \A i \in 1..Len(t) : t[i] = d2[i]
    BY <1>2 DEF TwoDots
  <2> QED
    BY <1>2, <1>3, <2>1, SeqEqual
<1>6. (t = d1 => OneDot(t)) /\ (t = d2 => TwoDots(t))
  BY <1>2, Zenon DEF OneDot, TwoDots
<1>7. (t = d1 <=> OneDot(t)) /\ (t = d2 <=> TwoDots(t))
  BY <1>4, <1>5, <1>6, Zenon
<1> QED
  BY <1>1, <1>7, Zenon DEF d1, d2

LEMMA ResolveCases ==
  ASSUME NEW S, NEW t \in Seq(S), NEW r
  PROVE  /\ Len(t) = 0 \/ OneDot(t) => Resolve(r, t) = Slashed(r)
         /\ Len(t) # 0 /\ ~OneDot(t) /\ ~TwoDots(t) => Resolve(r, t) = Slashed(r) \o t
         /\ TwoDots(t) => Resolve(r, t) = IF Len(Slashed(r)) > 1 THEN Parent(Slashed(r)) ELSE Slashed(r)
<1>1. /\ t = <<>> <=> Len(t) = 0
      /\ t = <<".">> <=> OneDot(t)
      /\ t = <<".", ".">> <=> TwoDots(t)
  BY TokenKinds
<1>2. TwoDots(t) => Len(t) # 0 /\ ~OneDot(t)
  BY DEF TwoDots, OneDot
<1>3. t \in {<<>>, <<".">>} <=> Len(t) = 0 \/ OneDot(t)
  BY <1>1, Zenon
<1> QED
  BY <1>1, <1>2, <1>3, Zenon DEF Resolve, Parent

\* Whether a component is dotted depends on the path up to the slash after it.
LEMMA SameDots ==
  ASSUME NEW r \in Seq(UriChars), NEW s \in Seq(UriChars), NEW n \in 1..Len(r), n <= Len(s),
         \A k \in 1..n : s[k] = r[k], r[n] = "/", NEW i \in 1..n, Dotted(s, i)
  PROVE  Dotted(r, i)
<1>1. Len(r) \in Nat /\ Len(s) \in Nat /\ i \in Nat /\ n \in Nat
  OBVIOUS
<1>2. s[i] = "." /\ s[i] = r[i] /\ s[n] = "/"
  BY DEF Dotted
<1>3. i < n
  BY <1>1, <1>2
<1>4. s[i + 1] = r[i + 1] /\ i + 1 \in 1..n
  BY <1>1, <1>3
<1>5. CASE StopsAt(s, i + 1)
  <2>1. s[i + 1] = "/"
    BY <1>1, <1>4, <1>5 DEF StopsAt
  <2> QED
    BY <1>2, <1>4, <2>1 DEF Dotted, StopsAt
<1>6. CASE ~StopsAt(s, i + 1)
  <2>1. s[i + 1] = "." /\ StopsAt(s, i + 2)
    BY <1>6 DEF Dotted
  <2>2. i + 1 < n
    BY <1>1, <1>2, <1>4, <2>1
  <2>3. s[i + 2] = r[i + 2] /\ i + 2 \in 1..n
    BY <1>1, <2>2
  <2>4. s[i + 2] = "/"
    BY <1>1, <2>1, <2>3 DEF StopsAt
  <2>5. StopsAt(r, i + 2) /\ r[i + 1] = "." /\ i < Len(r)
    BY <1>1, <1>4, <2>1, <2>3, <2>4 DEF StopsAt
  <2> QED
    BY <1>2, <2>5 DEF Dotted
<1> QED
  BY <1>5, <1>6

\* A slash at the end of a path ends a component as the end does.
LEMMA SlashDots ==
  ASSUME NEW r \in Seq(UriChars), NEW s \in Seq(UriChars), Len(r) = Len(s) + 1,
         \A k \in 1..Len(s) : r[k] = s[k], r[Len(r)] = "/", NEW i \in 1..Len(s)
  PROVE  Dotted(s, i) <=> Dotted(r, i)
<1>1. Len(r) \in Nat /\ Len(s) \in Nat /\ i \in Nat /\ r[i] = s[i]
  OBVIOUS
<1>2. StopsAt(s, i + 1) <=> StopsAt(r, i + 1)
  <2>1. CASE i + 1 \in 1..Len(s)
    BY <1>1, <2>1 DEF StopsAt
  <2>2. CASE i + 1 = Len(r)
    BY <1>1, <2>2 DEF StopsAt
  <2>3. i + 1 \in 1..Len(s) \/ i + 1 = Len(r)
    BY <1>1
  <2> QED
    BY <2>1, <2>2, <2>3, Zenon
<1>3. CASE i = Len(s)
  <2>1. i + 1 = Len(r) /\ StopsAt(r, i + 1)
    BY <1>1, <1>3 DEF StopsAt
  <2> QED
    BY <1>1, <1>2, <2>1, Zenon DEF Dotted
<1>4. CASE i < Len(s)
  <2>1. i + 1 \in 1..Len(s) /\ r[i + 1] = s[i + 1] /\ i < Len(r)
    BY <1>1, <1>4
  <2>2. StopsAt(s, i + 2) <=> StopsAt(r, i + 2)
    <3>1. CASE i + 2 \in 1..Len(s)
      BY <1>1, <3>1 DEF StopsAt
    <3>2. CASE i + 2 = Len(r)
      BY <1>1, <3>2 DEF StopsAt
    <3>3. i + 2 \in 1..Len(s) \/ i + 2 = Len(r)
      BY <1>1, <1>4
    <3> QED
      BY <3>1, <3>2, <3>3, Zenon
  <2> QED
    BY <1>1, <1>2, <1>4, <2>1, <2>2, Zenon DEF Dotted
<1>5. i = Len(s) \/ i < Len(s)
  BY <1>1
<1> QED
  BY <1>3, <1>4, <1>5, Zenon

LEMMA CleanPrefix ==
  ASSUME NEW r, CleanPath(r), NEW m \in 1..Len(r), r[m] = "/"
  PROVE  CleanPath(SubSeq(r, 1, m)) /\ Len(SubSeq(r, 1, m)) = m
<1> DEFINE s == SubSeq(r, 1, m)
<1>0. r \in Seq(UriChars) /\ Len(r) \in Nat /\ Len(r) >= 1 /\ r[1] = "/"
  BY DEF CleanPath
<1>1. s \in Seq(UriChars) /\ Len(s) = m /\ \A k \in 1..m : s[k] = r[k]
  BY <1>0
<1> HIDE DEF s
<1>2. ASSUME NEW i \in 2..Len(s), s[i - 1] = "/"
      PROVE  (s[i] = "/" => i = 2) /\ ~Dotted(s, i)
  <2>1. i \in 2..Len(r) /\ i \in 1..m /\ i - 1 \in 1..m
    BY <1>0, <1>1
  <2>2. r[i - 1] = "/" /\ s[i] = r[i]
    BY <1>1, <1>2, <2>1
  <2>3. (r[i] = "/" => i = 2) /\ ~Dotted(r, i)
    BY <2>1, <2>2 DEF CleanPath
  <2>4. m <= Len(s)
    BY <1>1
  <2>5. ~Dotted(s, i)
    BY <1>0, <1>1, <2>1, <2>3, <2>4, SameDots
  <2> QED
    BY <2>2, <2>3, <2>5
<1>3. Len(s) >= 1 /\ s[1] = "/"
  BY <1>0, <1>1
<1>4. CleanPath(s)
  BY <1>1, <1>2, <1>3 DEF CleanPath
<1> QED
  BY <1>1, <1>4 DEF s

LEMMA CleanSlashed ==
  ASSUME NEW r, CleanPath(r)
  PROVE  /\ CleanPath(Slashed(r))
         /\ Slashed(r)[Len(Slashed(r))] = "/"
<1>0. r \in Seq(UriChars) /\ Len(r) \in Nat /\ Len(r) >= 1 /\ r[1] = "/"
  BY DEF CleanPath
<1>1. CASE r[Len(r)] = "/"
  <2>1. Slashed(r) = r
    BY <1>1, Zenon DEF Slashed, Last
  <2> QED
    BY <1>1, <2>1, Zenon
<1>2. CASE r[Len(r)] # "/"
  <2> DEFINE s == Append(r, "/")
  <2>1. Slashed(r) = s
    BY <1>2, Zenon DEF Slashed, Last
  <2>2. "/" \in UriChars
    BY DEF UriChars
  <2>3. /\ s \in Seq(UriChars) /\ Len(s) = Len(r) + 1 /\ s[Len(r) + 1] = "/"
        /\ \A k \in 1..Len(r) : s[k] = r[k]
    BY <1>0, <2>2, Appended
  <2> HIDE DEF s
  <2>4. ASSUME NEW i \in 2..Len(s), s[i - 1] = "/"
        PROVE  (s[i] = "/" => i = 2) /\ ~Dotted(s, i)
    <3>1. i - 1 \in 1..Len(r) /\ r[i - 1] = "/"
      BY <1>0, <2>3, <2>4
    <3>2. i - 1 # Len(r)
      BY <1>2, <3>1
    <3>3. i \in 1..Len(r) /\ i \in 2..Len(r) /\ s[i] = r[i]
      BY <1>0, <2>3, <3>1, <3>2
    <3>4. (r[i] = "/" => i = 2) /\ ~Dotted(r, i)
      BY <3>1, <3>3 DEF CleanPath
    <3>5. s[Len(s)] = "/"
      BY <2>3
    <3>6. Dotted(r, i) <=> Dotted(s, i)
      BY <1>0, <2>3, <3>3, <3>5, SlashDots
    <3> QED
      BY <3>3, <3>4, <3>6, Zenon
  <2>5. Len(s) >= 1 /\ s[1] = "/" /\ s[Len(s)] = "/"
    BY <1>0, <2>3
  <2>6. CleanPath(s)
    BY <2>3, <2>4, <2>5 DEF CleanPath
  <2> QED
    BY <2>1, <2>5, <2>6, Zenon
<1> QED
  BY <1>1, <1>2

NameChars == UriChars \ {"/"}

LEMMA CleanToken ==
  ASSUME NEW r, CleanPath(r), r[Len(r)] = "/", NEW t \in Seq(NameChars), Len(t) # 0,
         ~OneDot(t), ~TwoDots(t)
  PROVE  CleanPath(r \o t)
<1> DEFINE s == r \o t
           n == Len(r)
<1>0. r \in Seq(UriChars) /\ n \in Nat /\ n >= 1 /\ r[1] = "/" /\ Len(t) \in Nat
  BY DEF CleanPath
<1>1. t \in Seq(UriChars) /\ \A k \in 1..Len(t) : t[k] # "/"
  <2>1. NameChars \subseteq UriChars
    BY DEF NameChars
  <2>2. t \in Seq(UriChars)
    BY <2>1, SeqMonotonic
  <2>3. \A k \in 1..Len(t) : t[k] \in NameChars
    OBVIOUS
  <2> QED
    BY <2>2, <2>3 DEF NameChars
<1>2. /\ s \in Seq(UriChars) /\ Len(s) = n + Len(t)
      /\ \A k \in 1..n : s[k] = r[k]
      /\ \A k \in 1..Len(t) : s[n + k] = t[k]
  BY <1>0, <1>1, Joined
<1> HIDE DEF s
<1>3. ASSUME NEW i \in 2..Len(s), s[i - 1] = "/"
      PROVE  (s[i] = "/" => i = 2) /\ ~Dotted(s, i)
  <2>1. CASE i <= n
    <3>1. i \in 1..n /\ i - 1 \in 1..n /\ i \in 2..n /\ n \in 1..n
      BY <1>0, <1>2, <2>1
    <3>2. r[i - 1] = "/" /\ s[i] = r[i]
      BY <1>2, <1>3, <3>1
    <3>3. (r[i] = "/" => i = 2) /\ ~Dotted(r, i)
      BY <3>1, <3>2 DEF CleanPath
    <3>4. n <= Len(s)
      BY <1>0, <1>2
    <3>5. ~Dotted(s, i)
      <4>1. ASSUME Dotted(s, i)
            PROVE  Dotted(r, i)
        BY <1>0, <1>2, <3>1, <3>4, <4>1, SameDots
      <4> QED
        BY <3>3, <4>1
    <3> QED
      BY <3>2, <3>3, <3>5
  <2>2. CASE i = n + 1
    <3>1. 1 \in 1..Len(t) /\ s[i] = t[1] /\ t[1] # "/"
      <4>1. 1 \in 1..Len(t)
        BY <1>0
      <4> QED
        BY <1>1, <1>2, <2>2, <4>1
    <3>2. ASSUME t[1] = ".", StopsAt(s, i + 1)
          PROVE  FALSE
      <4>1. CASE Len(t) = 1
        BY <3>2, <4>1 DEF OneDot
      <4>2. CASE Len(t) > 1
        <5>1. 2 \in 1..Len(t) /\ i + 1 = n + 2 /\ ~(i + 1 > Len(s))
          BY <1>0, <1>2, <2>2, <4>2
        <5>2. s[n + 2] = t[2] /\ t[2] # "/"
          BY <1>1, <1>2, <5>1
        <5> QED
          BY <3>2, <5>1, <5>2 DEF StopsAt
      <4>3. Len(t) = 1 \/ Len(t) > 1
        <5>1. \A x \in Nat : x # 0 => x = 1 \/ x > 1
          OBVIOUS
        <5> QED
          BY <1>0, <5>1, Zenon
      <4> QED
        BY <4>1, <4>2, <4>3, Zenon
    <3>3. ASSUME t[1] = ".", i < Len(s), s[i + 1] = ".", StopsAt(s, i + 2)
          PROVE  FALSE
      <4>1. 2 \in 1..Len(t) /\ i + 1 = n + 2
        BY <1>0, <1>2, <2>2, <3>3
      <4>2. t[2] = "."
        BY <1>2, <3>3, <4>1
      <4>3. CASE Len(t) = 2
        BY <3>3, <4>2, <4>3 DEF TwoDots
      <4>4. CASE Len(t) > 2
        <5>1. 3 \in 1..Len(t) /\ i + 2 = n + 3 /\ ~(i + 2 > Len(s))
          BY <1>0, <1>2, <2>2, <4>4
        <5>2. s[n + 3] = t[3] /\ t[3] # "/"
          BY <1>1, <1>2, <5>1
        <5> QED
          BY <3>3, <5>1, <5>2 DEF StopsAt
      <4>5. Len(t) = 2 \/ Len(t) > 2
        <5>1. \A x \in Nat : 2 \in 1..x => x = 2 \/ x > 2
          OBVIOUS
        <5> QED
          BY <1>0, <4>1, <5>1, Zenon
      <4> QED
        BY <4>3, <4>4, <4>5, Zenon
    <3> QED
      BY <3>1, <3>2, <3>3 DEF Dotted
  <2>3. CASE i > n + 1
    <3>1. (i - 1) - n \in 1..Len(t) /\ n + ((i - 1) - n) = i - 1
      BY <1>0, <1>2, <2>3
    <3>2. s[i - 1] # "/"
      BY <1>1, <1>2, <3>1
    <3> QED
      BY <1>3, <3>2
  <2> QED
    BY <1>0, <2>1, <2>2, <2>3
<1>4. Len(s) >= 1 /\ s[1] = "/"
  BY <1>0, <1>2
<1>5. CleanPath(s)
  BY <1>2, <1>3, <1>4 DEF CleanPath
<1> QED
  BY <1>5 DEF s

LEMMA ScansDef ==
  ASSUME NEW S, NEW root, NEW s \in Seq(S)
  PROVE  /\ DOMAIN Scans(root, s) = 0..Len(s)
         /\ Scans(root, s)[0] = [resolved |-> root, token |-> <<>>]
         /\ \A i \in 1..Len(s) :
              Scans(root, s)[i] = Scan(Scans(root, s)[i - 1], s[i])
<1> DEFINE N == Len(s)
           Base == [resolved |-> root, token |-> <<>>]
           Next(i, v) == Scan(v, s[i])
           Solves(f, n) == f = [i \in 0..n |-> IF i = 0 THEN Base ELSE Next(i, f[i - 1])]
           X == Scans(root, s)
           G == {n \in 0..N : \E f : Solves(f, n)}
<1>1. N \in Nat
  OBVIOUS
<1>2. X = CHOOSE f : Solves(f, N)
  BY DEF Scans
<1> HIDE DEF N, Base, Next, X
<1>3. 0 \in G
  <2>1. Solves([i \in 0..0 |-> Base], 0)
    OBVIOUS
  <2> HIDE DEF Solves
  <2> QED
    BY <1>1, <2>1
<1>4. ASSUME NEW n \in 0..(N - 1), n \in G
      PROVE  n + 1 \in G
  <2>1. PICK f : Solves(f, n)
    BY <1>4
  <2> DEFINE g == [i \in 0..(n + 1) |-> IF i = n + 1 THEN Next(n + 1, f[n]) ELSE f[i]]
  <2>2. \A i \in 0..(n + 1) : g[i] = IF i = 0 THEN Base ELSE Next(i, g[i - 1])
    <3> SUFFICES ASSUME NEW i \in 0..(n + 1)
                 PROVE  g[i] = IF i = 0 THEN Base ELSE Next(i, g[i - 1])
      OBVIOUS
    <3>1. CASE i = 0
      BY <2>1, <3>1
    <3>2. CASE i \in 1..n
      <4>1. g[i] = f[i] /\ g[i - 1] = f[i - 1]
        BY <3>2
      <4> QED
        BY <2>1, <3>2, <4>1
    <3>3. CASE i = n + 1
      <4>1. g[i] = Next(n + 1, f[n]) /\ i - 1 = n /\ g[n] = f[n]
        BY <3>3
      <4> QED
        BY <3>3, <4>1
    <3> QED
      BY <3>1, <3>2, <3>3
  <2>3. Solves(g, n + 1)
    BY <2>2
  <2> HIDE DEF g, Solves
  <2> QED
    BY <1>1, <2>3
<1>5. \E f : Solves(f, N)
  <2>1. \A n \in 0..N : n \in G
    <3> HIDE DEF G
    <3> QED
      BY <1>1, <1>3, <1>4, Induct
  <2> QED
    BY <1>1, <2>1
<1>6. Solves(X, N)
  <2> HIDE DEF Solves
  <2> QED
    BY <1>2, <1>5
<1>7. DOMAIN X = 0..N /\ X[0] = Base /\ \A i \in 1..N : X[i] = Next(i, X[i - 1])
  BY <1>1, <1>6
<1> QED
  BY <1>7 DEF N, Base, Next, X

Scanned(resolved, token) == [resolved |-> resolved, token |-> token]

LEMMA ScanRounds ==
  ASSUME NEW r, NEW t, NEW c
  PROVE  /\ c = "/" => Scan(Scanned(r, t), c) = Scanned(Resolve(r, t), <<>>)
         /\ c # "/" => Scan(Scanned(r, t), c) = Scanned(r, Append(t, c))
<1>1. Scanned(r, t).resolved = r /\ Scanned(r, t).token = t
  BY DEF Scanned
<1> QED
  BY <1>1, Zenon DEF Scan, Scanned

LEMMA ResolveClean ==
  ASSUME NEW r, CleanPath(r), NEW t \in Seq(NameChars)
  PROVE  CleanPath(Resolve(r, t))
<1> DEFINE s == Slashed(r)
           n == Len(s)
<1>1. CleanPath(s) /\ s[n] = "/"
  BY CleanSlashed
<1>2. /\ Len(t) = 0 \/ OneDot(t) => Resolve(r, t) = s
      /\ Len(t) # 0 /\ ~OneDot(t) /\ ~TwoDots(t) => Resolve(r, t) = s \o t
      /\ TwoDots(t) => Resolve(r, t) = IF n > 1 THEN Parent(s) ELSE s
  BY ResolveCases
<1> HIDE DEF s
<1>3. CASE Len(t) = 0 \/ OneDot(t)
  BY <1>1, <1>2, <1>3, Zenon
<1>4. CASE Len(t) # 0 /\ ~OneDot(t) /\ ~TwoDots(t)
  <2>1. CleanPath(s \o t)
    BY <1>1, <1>4, CleanToken
  <2> QED
    BY <1>2, <1>4, <2>1, Zenon
<1>5. CASE TwoDots(t) /\ ~(n > 1)
  BY <1>1, <1>2, <1>5, Zenon
<1>6. CASE TwoDots(t) /\ n > 1
  <2> DEFINE u == SubSeq(s, 1, n - 1)
             m == LastSlash(u)
  <2>1. s \in Seq(UriChars) /\ n \in Nat /\ s[1] = "/"
    BY <1>1 DEF CleanPath
  <2>2. u \in Seq(UriChars) /\ Len(u) = n - 1 /\ \A k \in 1..(n - 1) : u[k] = s[k]
    BY <1>6, <2>1
  <2> HIDE DEF u
  <2>3. m \in 0..Len(u) /\ (m # 0 => u[m] = "/") /\ \A j \in 1..Len(u) : u[j] = "/" => j <= m
    BY <2>2, LastSlashDef
  <2> HIDE DEF m
  <2>4. 1 \in 1..(n - 1)
    BY <1>6, <2>1
  <2>5. 1 <= m
    BY <2>1, <2>2, <2>3, <2>4
  <2>6. m \in 1..n /\ m \in 1..(n - 1) /\ s[m] = "/"
    BY <2>1, <2>2, <2>3, <2>5
  <2>7. CleanPath(SubSeq(s, 1, m))
    BY <1>1, <2>6, CleanPrefix
  <2>8. Parent(s) = SubSeq(s, 1, m)
    BY Zenon DEF Parent, m, u
  <2> QED
    BY <1>2, <1>6, <2>7, <2>8, Zenon
<1> QED
  BY <1>3, <1>4, <1>5, <1>6, Zenon

CleanScan(d) == \E r, t : d = Scanned(r, t) /\ CleanPath(r) /\ t \in Seq(NameChars)

LEMMA ScansClean ==
  ASSUME NEW root, CleanPath(root), NEW s \in Seq(UriChars)
  PROVE  \A i \in 0..Len(s) : CleanScan(Scans(root, s)[i])
<1> DEFINE D == Scans(root, s)
           P(i) == \E r, t : D[i] = Scanned(r, t) /\ CleanPath(r) /\ t \in Seq(NameChars)
           G == {i \in 0..Len(s) : P(i)}
<1>1. D[0] = Scanned(root, <<>>) /\ \A i \in 1..Len(s) : D[i] = Scan(D[i - 1], s[i])
  BY ScansDef DEF Scanned
<1> HIDE DEF D
<1>2. 0 \in G
  <2>1. <<>> \in Seq(NameChars)
    OBVIOUS
  <2>2. P(0)
    BY <1>1, <2>1, Zenon
  <2>3. 0 \in 0..Len(s)
    OBVIOUS
  <2> HIDE DEF P
  <2> QED
    BY <2>2, <2>3
<1>3. ASSUME NEW i \in 0..(Len(s) - 1), i \in G
      PROVE  i + 1 \in G
  <2>1. i + 1 \in 1..Len(s) /\ (i + 1) - 1 = i /\ i + 1 \in 0..Len(s)
    OBVIOUS
  <2>2. P(i)
    <3> HIDE DEF P
    <3> QED
      BY <1>3
  <2>3. PICK r, t : D[i] = Scanned(r, t) /\ CleanPath(r) /\ t \in Seq(NameChars)
    BY <2>2, Zenon
  <2> DEFINE c == s[i + 1]
  <2>4. D[i + 1] = Scan(Scanned(r, t), c)
    BY <1>1, <2>1, <2>3
  <2>5. c \in UriChars
    BY <2>1
  <2> HIDE DEF c
  <2>6. P(i + 1)
    <3>1. CASE c = "/"
      <4>1. D[i + 1] = Scanned(Resolve(r, t), <<>>)
        BY <2>4, <3>1, ScanRounds, Zenon
      <4>2. CleanPath(Resolve(r, t))
        BY <2>3, ResolveClean
      <4>3. <<>> \in Seq(NameChars)
        OBVIOUS
      <4> QED
        BY <4>1, <4>2, <4>3, Zenon
    <3>2. CASE c # "/"
      <4>1. D[i + 1] = Scanned(r, Append(t, c))
        BY <2>4, <3>2, ScanRounds, Zenon
      <4>2. c \in NameChars
        BY <2>5, <3>2 DEF NameChars
      <4>3. Append(t, c) \in Seq(NameChars)
        BY <2>3, <4>2, Appended
      <4> QED
        BY <2>3, <4>1, <4>3, Zenon
    <3> QED
      BY <3>1, <3>2
  <2> HIDE DEF P
  <2> QED
    BY <2>1, <2>6
<1>4. \A i \in 0..Len(s) : i \in G
  <2> HIDE DEF G
  <2>1. Len(s) \in Nat
    OBVIOUS
  <2> QED
    BY <1>2, <1>3, <2>1, Induct
<1> QED
  <2>1. \A i \in 0..Len(s) : P(i)
    <3> HIDE DEF P
    <3> QED
      BY <1>4
  <2> QED
    BY <2>1, Zenon DEF D, CleanScan

LEMMA CleanRoots ==
  CleanPath(<<"/">>) /\ CleanPath(<<"/", "/">>)
<1> DEFINE x == <<"/">>
           y == <<"/", "/">>
<1>0. "/" \in UriChars
  BY DEF UriChars
<1>1. /\ x \in Seq(UriChars) /\ Len(x) = 1 /\ x[1] = "/"
      /\ y \in Seq(UriChars) /\ Len(y) = 2 /\ y[1] = "/" /\ y[2] = "/"
  BY <1>0
<1> HIDE DEF x, y
<1>2. CleanPath(x)
  BY <1>1 DEF CleanPath
<1>3. ~Dotted(y, 2)
  BY <1>1 DEF Dotted
<1>4. CleanPath(y)
  BY <1>1, <1>3 DEF CleanPath
<1> QED
  BY <1>2, <1>4 DEF x, y

LEMMA TrailingSlash ==
  ASSUME NEW d, CleanPath(d)
  PROVE  NormalPath(IF Len(d) > 1 /\ Last(d) = "/" THEN Front(d) ELSE d)
<1>0. d \in Seq(UriChars) /\ Len(d) \in Nat /\ Len(d) >= 1 /\ d[1] = "/"
  BY DEF CleanPath
<1>1. CASE ~(Len(d) > 1 /\ Last(d) = "/")
  <2>1. NormalPath(d)
    BY <1>1 DEF NormalPath, Last
  <2> QED
    BY <1>1, <2>1, Zenon
<1>2. CASE Len(d) > 1 /\ Last(d) = "/"
  <2> DEFINE s == Front(d)
             n == Len(d) - 1
  <2>0. n \in Nat /\ n >= 1 /\ Len(d) = n + 1 /\ d[Len(d)] = "/"
    BY <1>0, <1>2 DEF Last
  <2>1. s \in Seq(UriChars) /\ Len(s) = n /\ \A k \in 1..n : s[k] = d[k]
    BY <1>0, <2>0 DEF Front
  <2> HIDE DEF s, n
  <2>2. ASSUME NEW i \in 2..Len(s), s[i - 1] = "/"
        PROVE  (s[i] = "/" => i = 2) /\ ~Dotted(s, i)
    <3>1. i \in 1..n /\ i - 1 \in 1..n /\ i \in 2..Len(d)
      BY <2>0, <2>1
    <3>2. d[i - 1] = "/" /\ s[i] = d[i]
      BY <2>1, <2>2, <3>1
    <3>3. (d[i] = "/" => i = 2) /\ ~Dotted(d, i)
      BY <3>1, <3>2 DEF CleanPath
    <3>4. Dotted(s, i) <=> Dotted(d, i)
      <4>1. Len(d) = Len(s) + 1 /\ i \in 1..Len(s) /\ \A k \in 1..Len(s) : d[k] = s[k]
        BY <2>0, <2>1, <3>1
      <4> QED
        BY <1>0, <2>0, <2>1, <4>1, SlashDots
    <3> QED
      BY <3>2, <3>3, <3>4, Zenon
  <2>3. Len(s) >= 1 /\ s[1] = "/"
    BY <1>0, <2>0, <2>1
  <2>4. CleanPath(s)
    BY <2>1, <2>2, <2>3 DEF CleanPath
  <2>5. Len(s) > 1 => s[Len(s)] # "/"
    <3> SUFFICES ASSUME n > 1, s[n] = "/"
                 PROVE  FALSE
      BY <2>1
    <3>1. n + 1 \in 2..Len(d) /\ (n + 1) - 1 = n /\ n + 1 # 2 /\ n \in 1..n
      BY <2>0
    <3>2. d[n] = "/" /\ d[n + 1] = "/"
      BY <2>0, <2>1, <3>1
    <3> QED
      BY <3>1, <3>2 DEF CleanPath
  <2>6. NormalPath(s)
    BY <2>4, <2>5 DEF NormalPath
  <2> QED
    BY <1>2, <2>6, Zenon DEF s
<1> QED
  BY <1>1, <1>2

\* What the server makes of a path is normalised.
LEMMA NormalizedPath ==
  ASSUME NEW p \in Seq(UriChars), Len(p) >= 1
  PROVE  NormalPath(NormalizePath(p))
<1> DEFINE root == IF IsShare(p) THEN <<"/", "/">> ELSE <<"/">>
           rest == SubSeq(p, Len(root) + 1, Len(p))
           last == Scans(root, rest)[Len(rest)]
           done == Resolve(last.resolved, last.token)
<1>1. CleanPath(root)
  BY CleanRoots, Zenon
<1>2. root \in Seq(UriChars) /\ Len(root) \in Nat
  <2> HIDE DEF root
  <2> QED
    BY <1>1 DEF CleanPath
<1> HIDE DEF root
<1>3. rest \in Seq(UriChars) /\ Len(rest) \in 0..Len(rest)
  <2>1. Len(p) \in Nat
    OBVIOUS
  <2>2. \A i \in (Len(root) + 1)..Len(p) : p[i] \in UriChars
    BY <1>2, <2>1
  <2>3. rest \in Seq(UriChars)
    BY <1>2, <2>1, <2>2, SubSeqProperties
  <2> HIDE DEF rest
  <2> QED
    BY <2>3
<1> HIDE DEF rest
<1>4. PICK r, t : last = Scanned(r, t) /\ CleanPath(r) /\ t \in Seq(NameChars)
  <2>1. \A i \in 0..Len(rest) : CleanScan(Scans(root, rest)[i])
    BY <1>1, <1>3, ScansClean
  <2> QED
    BY <1>3, <2>1, Zenon DEF CleanScan
<1>5. last.resolved = r /\ last.token = t
  <2> HIDE DEF last
  <2> QED
    BY <1>4 DEF Scanned
<1> HIDE DEF last
<1>6. CleanPath(done)
  <2>1. CleanPath(Resolve(r, t))
    BY <1>4, ResolveClean
  <2> QED
    BY <1>5, <2>1, Zenon
<1> HIDE DEF done
<1>7. p # <<>>
  OBVIOUS
<1>8. NormalizePath(p) = IF Len(done) > 1 /\ Last(done) = "/" THEN Front(done) ELSE done
  BY <1>7, Zenon DEF NormalizePath, root, rest, last, done
<1>9. NormalPath(IF Len(done) > 1 /\ Last(done) = "/" THEN Front(done) ELSE done)
  BY <1>6, TrailingSlash
<1> QED
  BY <1>8, <1>9, Zenon

LEMMA WindowMore ==
  ASSUME NEW S, NEW w \in Seq(S), NEW a \in 0..Len(w), NEW b \in a..(Len(w) - 1)
  PROVE  SubSeq(w, a + 1, b + 1) = Append(SubSeq(w, a + 1, b), w[b + 1])
<1> DEFINE x == SubSeq(w, a + 1, b + 1)
           y == SubSeq(w, a + 1, b)
           e == w[b + 1]
           z == Append(y, e)
<1>0. a \in Nat /\ b \in Nat /\ a <= b /\ Len(w) \in Nat /\ b + 1 \in a..Len(w) /\ b \in a..Len(w)
  OBVIOUS
<1>1. x \in Seq(S) /\ Len(x) = (b + 1) - a /\ \A j \in 1..((b + 1) - a) : x[j] = w[a + j]
  BY <1>0, Window
<1>2. y \in Seq(S) /\ Len(y) = b - a /\ \A j \in 1..(b - a) : y[j] = w[a + j]
  BY <1>0, Window
<1>3. e \in S
  BY <1>0
<1> HIDE DEF x, y, e
<1>4. /\ z \in Seq(S) /\ Len(z) = Len(y) + 1 /\ z[Len(y) + 1] = e
      /\ \A k \in 1..Len(y) : z[k] = y[k]
  BY <1>2, <1>3, Appended
<1> HIDE DEF z
<1>5. ASSUME NEW i \in 1..Len(x)
      PROVE  x[i] = z[i]
  <2>0. i \in 1..((b + 1) - a) /\ x[i] = w[a + i]
    BY <1>1
  <2>1. CASE i <= b - a
    <3>1. i \in 1..Len(y) /\ i \in 1..(b - a)
      BY <1>0, <1>2, <2>0, <2>1
    <3> QED
      BY <1>2, <1>4, <2>0, <3>1
  <2>2. CASE i = (b - a) + 1
    <3>1. i = Len(y) + 1 /\ a + i = b + 1
      BY <1>0, <1>2, <2>2
    <3> QED
      BY <1>4, <2>0, <3>1 DEF e
  <2>3. i <= b - a \/ i = (b - a) + 1
    BY <1>0, <2>0
  <2> QED
    BY <2>1, <2>2, <2>3, Zenon
<1>6. Len(x) = Len(z)
  BY <1>0, <1>1, <1>2, <1>4
<1>7. x = z
  BY <1>1, <1>4, <1>5, <1>6, SeqEqual
<1> QED
  BY <1>7 DEF x, y, z, e

\* A component of a clean path is appended as it is.
LEMMA ComponentKept ==
  ASSUME NEW p, CleanPath(p), NEW m \in 1..Len(p), NEW n \in (m + 1)..Len(p), p[m] = "/",
         StopsAt(p, n + 1), NEW r, Slashed(r) = SubSeq(p, 1, m)
  PROVE  Resolve(r, SubSeq(p, m + 1, n)) = SubSeq(p, 1, n)
<1> DEFINE t == SubSeq(p, m + 1, n)
<1>0. p \in Seq(UriChars) /\ Len(p) \in Nat
  BY DEF CleanPath
<1>1. t \in Seq(UriChars) /\ Len(t) = n - m /\ \A j \in 1..(n - m) : t[j] = p[m + j]
  <2>1. m \in 0..Len(p) /\ n \in m..Len(p)
    BY <1>0
  <2> QED
    BY <1>0, <2>1, Window
<1> HIDE DEF t
<1>2. m \in Nat /\ n \in Nat /\ m + 1 \in 2..Len(p) /\ (m + 1) - 1 = m /\ m + 1 <= n
  BY <1>0
<1>3. ~Dotted(p, m + 1)
  BY <1>2 DEF CleanPath
<1>4. ~OneDot(t)
  <2> SUFFICES ASSUME OneDot(t)
               PROVE  FALSE
    OBVIOUS
  <2>1. n - m = 1 /\ t[1] = "."
    BY <1>1 DEF OneDot
  <2>2. n = m + 1 /\ 1 \in 1..(n - m)
    BY <1>2, <2>1
  <2>3. p[m + 1] = "."
    BY <1>1, <2>1, <2>2
  <2>4. StopsAt(p, (m + 1) + 1)
    BY <2>2
  <2> QED
    BY <1>3, <2>3, <2>4 DEF Dotted
<1>5. ~TwoDots(t)
  <2> SUFFICES ASSUME TwoDots(t)
               PROVE  FALSE
    OBVIOUS
  <2>1. n - m = 2 /\ t[1] = "." /\ t[2] = "."
    BY <1>1 DEF TwoDots
  <2>2. n = m + 2 /\ 1 \in 1..(n - m) /\ 2 \in 1..(n - m) /\ (m + 1) + 1 = m + 2 /\ (m + 1) + 2 = n + 1
    BY <1>2, <2>1
  <2>3. p[m + 1] = "." /\ p[m + 2] = "." /\ m + 1 < Len(p)
    <3>1. p[m + 1] = "." /\ p[m + 2] = "."
      BY <1>1, <2>1, <2>2
    <3>2. m + 1 < Len(p)
      BY <1>0, <1>2, <2>2
    <3> QED
      BY <3>1, <3>2
  <2>4. StopsAt(p, (m + 1) + 2) /\ p[(m + 1) + 1] = "."
    BY <2>2, <2>3, Zenon
  <2> QED
    BY <1>3, <2>3, <2>4, Zenon DEF Dotted
<1>6. Len(t) # 0
  BY <1>1, <1>2
<1>7. Resolve(r, t) = Slashed(r) \o t
  BY <1>1, <1>4, <1>5, <1>6, ResolveCases
<1>8. SubSeq(p, 1, m) \o t = SubSeq(p, 1, n)
  <2>1. 0 \in 0..Len(p) /\ m \in 0..Len(p) /\ n \in m..Len(p)
    BY <1>0
  <2>2. SubSeq(p, 0 + 1, m) \o SubSeq(p, m + 1, n) = SubSeq(p, 0 + 1, n)
    BY <1>0, <2>1, WindowJoin
  <2>3. 0 + 1 = 1
    OBVIOUS
  <2> QED
    BY <2>2, <2>3, Zenon DEF t
<1> QED
  BY <1>7, <1>8, Zenon DEF t

\* The scan of a clean path has resolved it up to the slash before the token.
ScannedTo(p, n, d) ==
  \E m \in 1..n : \E r : /\ d = Scanned(r, SubSeq(p, m + 1, n))
                         /\ Slashed(r) = SubSeq(p, 1, m)
                         /\ p[m] = "/"
                         /\ \A k \in (m + 1)..n : p[k] # "/"

LEMMA ScanStep ==
  ASSUME NEW p, CleanPath(p), NEW n \in 1..(Len(p) - 1), NEW d, ScannedTo(p, n, d),
         p[n] = "/" => p[n + 1] # "/"
  PROVE  ScannedTo(p, n + 1, Scan(d, p[n + 1]))
<1>0. p \in Seq(UriChars) /\ Len(p) \in Nat /\ n \in Nat /\ n + 1 \in 1..Len(p) /\ n + 1 \in 1..(n + 1)
  BY DEF CleanPath
<1>a. PICK m \in 1..n : \E r : /\ d = Scanned(r, SubSeq(p, m + 1, n))
                               /\ Slashed(r) = SubSeq(p, 1, m)
                               /\ p[m] = "/"
                               /\ \A k \in (m + 1)..n : p[k] # "/"
  BY Zenon DEF ScannedTo
<1>1. PICK r : /\ d = Scanned(r, SubSeq(p, m + 1, n))
               /\ Slashed(r) = SubSeq(p, 1, m)
               /\ p[m] = "/"
               /\ \A k \in (m + 1)..n : p[k] # "/"
  BY <1>a, Zenon
<1> DEFINE c == p[n + 1]
           t == SubSeq(p, m + 1, n)
<1>2. CASE c # "/"
  <2>1. Scan(d, c) = Scanned(r, Append(t, c))
    BY <1>1, <1>2, ScanRounds, Zenon
  <2>2. Append(t, c) = SubSeq(p, m + 1, n + 1)
    <3>1. m \in 0..Len(p) /\ n \in m..(Len(p) - 1)
      BY <1>0
    <3> QED
      BY <1>0, <3>1, WindowMore
  <2>3. \A k \in (m + 1)..(n + 1) : p[k] # "/"
    <3> SUFFICES ASSUME NEW k \in (m + 1)..(n + 1)
                 PROVE  p[k] # "/"
      OBVIOUS
    <3>1. k \in (m + 1)..n \/ k = n + 1
      BY <1>0
    <3> QED
      BY <1>1, <1>2, <3>1
  <2>4. m \in 1..(n + 1)
    BY <1>0
  <2>5. Scan(d, c) = Scanned(r, SubSeq(p, m + 1, n + 1))
    BY <2>1, <2>2, Zenon
  <2> QED
    BY <1>1, <2>3, <2>4, <2>5, Zenon DEF ScannedTo
<1>3. CASE c = "/"
  <2>1. p[n] # "/"
    BY <1>3
  <2>2. m # n
    BY <1>1, <2>1
  <2>3. m \in 1..Len(p) /\ n \in (m + 1)..Len(p) /\ n \in (m + 1)..n
    BY <1>0, <2>2
  <2>4. StopsAt(p, n + 1)
    BY <1>3 DEF StopsAt
  <2> DEFINE q == SubSeq(p, 1, n)
  <2>5. Resolve(r, t) = q
    BY <1>1, <2>3, <2>4, ComponentKept
  <2>6. Scan(d, c) = Scanned(q, <<>>)
    <3>1. Scan(Scanned(r, t), c) = Scanned(Resolve(r, t), <<>>)
      BY <1>3, ScanRounds, Zenon
    <3> QED
      BY <1>1, <2>5, <3>1, Zenon
  <2>7. Last(q) = p[n]
    <3>1. Len(q) = n /\ q[n] = p[n]
      BY <1>0
    <3> QED
      BY <3>1, Zenon DEF Last
  <2>8. Slashed(q) = Append(q, c)
    BY <1>3, <2>1, <2>7, Zenon DEF Slashed
  <2>9. Append(q, c) = SubSeq(p, 1, n + 1)
    <3>1. n \in 0..(Len(p) - 1)
      BY <1>0
    <3> QED
      BY <1>0, <3>1, OneMore
  <2>10. SubSeq(p, (n + 1) + 1, n + 1) = <<>>
    <3>1. (n + 1) + 1 \in Int /\ n + 1 \in Int /\ n + 1 < (n + 1) + 1
      BY <1>0
    <3> QED
      BY <3>1, SubSeqEmpty
  <2>11. \A k \in ((n + 1) + 1)..(n + 1) : p[k] # "/"
    BY <1>0
  <2>12. Scan(d, c) = Scanned(q, SubSeq(p, (n + 1) + 1, n + 1))
    BY <2>6, <2>10, Zenon
  <2>13. Slashed(q) = SubSeq(p, 1, n + 1)
    BY <2>8, <2>9, Zenon
  <2> QED
    BY <1>0, <1>3, <2>11, <2>12, <2>13, Zenon DEF ScannedTo
<1> QED
  BY <1>2, <1>3

\* The slashes at the beginning of a clean path are its root.
RootLen(p) == IF Len(p) >= 2 /\ p[2] = "/" THEN 2 ELSE 1

LEMMA CleanRoot ==
  ASSUME NEW p, CleanPath(p)
  PROVE  /\ RootLen(p) \in 1..Len(p) /\ p[RootLen(p)] = "/"
         /\ \A n \in RootLen(p)..(Len(p) - 1) : p[n] = "/" => p[n + 1] # "/"
         /\ IsShare(p) <=> RootLen(p) = 2
         /\ (IF IsShare(p) THEN <<"/", "/">> ELSE <<"/">>) = SubSeq(p, 1, RootLen(p))
         /\ Slashed(SubSeq(p, 1, RootLen(p))) = SubSeq(p, 1, RootLen(p))
<1> DEFINE a == RootLen(p)
           root == IF IsShare(p) THEN <<"/", "/">> ELSE <<"/">>
           q == SubSeq(p, 1, a)
<1>0. p \in Seq(UriChars) /\ Len(p) \in Nat /\ Len(p) >= 1 /\ p[1] = "/"
  BY DEF CleanPath
<1>1. a \in 1..Len(p) /\ p[a] = "/" /\ a \in {1, 2} /\ (a = 2 <=> Len(p) >= 2 /\ p[2] = "/")
  BY <1>0 DEF RootLen
<1> HIDE DEF a
<1>2. ASSUME NEW n \in a..(Len(p) - 1), p[n] = "/"
      PROVE  p[n + 1] # "/"
  <2>1. n + 1 \in 2..Len(p) /\ (n + 1) - 1 = n
    BY <1>0, <1>1
  <2>2. p[n + 1] = "/" => n + 1 = 2
    BY <1>2, <2>1 DEF CleanPath
  <2>3. p[n + 1] = "/" => n = 1
    BY <2>1, <2>2
  <2>4. a = 2 => n # 1
    BY <1>0, <1>1
  <2>5. n = 1 => Len(p) >= 2 /\ n + 1 = 2
    BY <1>0, <1>1
  <2> QED
    BY <1>1, <2>3, <2>4, <2>5, Zenon
<1>3. IsShare(p) <=> a = 2
  <2>1. a = 2 /\ Len(p) # 2 => p[3] # "/"
    <3> SUFFICES ASSUME a = 2, Len(p) # 2
                 PROVE  p[3] # "/"
      OBVIOUS
    <3>0. Len(p) >= 2 /\ p[2] = "/"
      BY <1>1
    <3>1. 2 \in a..(Len(p) - 1) /\ 2 + 1 = 3 /\ p[2] = "/"
      <4>1. \A x \in Nat : x >= 2 /\ x # 2 => 2 \in 2..(x - 1)
        OBVIOUS
      <4>2. 2 \in 2..(Len(p) - 1)
        BY <1>0, <3>0, <4>1, Zenon
      <4>3. 2 + 1 = 3
        OBVIOUS
      <4> QED
        BY <3>0, <4>2, <4>3, Zenon
    <3> QED
      BY <1>2, <3>1
  <2> QED
    BY <1>0, <1>1, <2>1 DEF IsShare
<1>4. q \in Seq(UriChars) /\ Len(q) = a /\ \A k \in 1..a : q[k] = p[k]
  BY <1>0, <1>1
<1> HIDE DEF q
<1>5. root \in Seq(UriChars) /\ Len(root) = a /\ \A k \in 1..a : root[k] = "/"
  <2>0. "/" \in UriChars
    BY DEF UriChars
  <2> DEFINE x == <<"/">>
             y == <<"/", "/">>
  <2>1. /\ x \in Seq(UriChars) /\ Len(x) = 1 /\ x[1] = "/"
        /\ y \in Seq(UriChars) /\ Len(y) = 2 /\ y[1] = "/" /\ y[2] = "/"
    BY <2>0
  <2>2. (a = 2 => root = y) /\ (a = 1 => root = x)
    BY <1>3
  <2> HIDE DEF x, y, root
  <2>3. CASE a = 2
    BY <2>1, <2>2, <2>3
  <2>4. CASE a = 1
    BY <2>1, <2>2, <2>4
  <2> QED
    BY <1>1, <2>3, <2>4
<1> HIDE DEF root
<1>6. \A k \in 1..a : p[k] = "/"
  BY <1>0, <1>1
<1>7. root = q
  <2>1. Len(root) = Len(q) /\ \A k \in 1..Len(root) : root[k] = q[k]
    BY <1>4, <1>5, <1>6
  <2> QED
    BY <1>4, <1>5, <2>1, SeqEqual
<1>8. Slashed(q) = q
  <2>1. a \in 1..a
    BY <1>1
  <2>2. Last(q) = "/"
    BY <1>4, <1>6, <2>1 DEF Last
  <2> QED
    BY <2>2, Zenon DEF Slashed
<1>9. \A n \in a..(Len(p) - 1) : p[n] = "/" => p[n + 1] # "/"
  BY <1>2
<1>10. root = SubSeq(p, 1, a) /\ Slashed(SubSeq(p, 1, a)) = SubSeq(p, 1, a)
  BY <1>7, <1>8, Zenon DEF q
<1> QED
  BY <1>1, <1>3, <1>9, <1>10, Zenon DEF a, root

\* Normalising what is normalised changes nothing.
LEMMA NormalizedAgain ==
  ASSUME NEW p, NormalPath(p)
  PROVE  NormalizePath(p) = p
<1> DEFINE root == IF IsShare(p) THEN <<"/", "/">> ELSE <<"/">>
           a == RootLen(p)
           rest == SubSeq(p, Len(root) + 1, Len(p))
           D == Scans(root, rest)
           done == Resolve(D[Len(rest)].resolved, D[Len(rest)].token)
           G == {i \in Nat : ScannedTo(p, a + i, D[i])}
<1>0. /\ CleanPath(p) /\ p \in Seq(UriChars) /\ Len(p) \in Nat /\ Len(p) >= 1
      /\ Len(p) > 1 => p[Len(p)] # "/"
  BY DEF NormalPath, CleanPath
<1>1. /\ a \in 1..Len(p) /\ p[a] = "/"
      /\ \A n \in a..(Len(p) - 1) : p[n] = "/" => p[n + 1] # "/"
      /\ root = SubSeq(p, 1, a)
      /\ Slashed(SubSeq(p, 1, a)) = SubSeq(p, 1, a)
  BY <1>0, CleanRoot, Zenon
<1> HIDE DEF a, root
<1>2. Len(root) = a
  <2>1. \A m \in 1..Len(p) : Len(SubSeq(p, 1, m)) = m
    BY <1>0
  <2> QED
    BY <1>1, <2>1, Zenon
<1>3. rest \in Seq(UriChars) /\ Len(rest) = Len(p) - a /\ \A j \in 1..(Len(p) - a) : rest[j] = p[a + j]
  <2>1. a \in 0..Len(p) /\ Len(p) \in a..Len(p)
    BY <1>0, <1>1
  <2>2. /\ SubSeq(p, a + 1, Len(p)) \in Seq(UriChars) /\ Len(SubSeq(p, a + 1, Len(p))) = Len(p) - a
        /\ \A j \in 1..(Len(p) - a) : SubSeq(p, a + 1, Len(p))[j] = p[a + j]
    BY <1>0, <2>1, Window
  <2> QED
    BY <1>2, <2>2, Zenon
<1> HIDE DEF rest
<1>4. D[0] = Scanned(root, <<>>) /\ \A i \in 1..Len(rest) : D[i] = Scan(D[i - 1], rest[i])
  BY <1>3, ScansDef DEF Scanned
<1> HIDE DEF D
<1>5. 0 \in G
  <2>1. a + 0 = a /\ a \in 1..a /\ a \in Nat
    BY <1>1
  <2>2. SubSeq(p, a + 1, a) = <<>>
    <3>1. a + 1 \in Int /\ a \in Int /\ a < a + 1
      BY <1>1
    <3> QED
      BY <3>1, SubSeqEmpty
  <2>3. \A k \in (a + 1)..a : p[k] # "/"
    BY <2>1
  <2>4. D[0] = Scanned(root, SubSeq(p, a + 1, a)) /\ Slashed(root) = SubSeq(p, 1, a)
    BY <1>1, <1>4, <2>2, Zenon
  <2>5. ScannedTo(p, a, D[0])
    BY <1>1, <2>1, <2>3, <2>4, Zenon DEF ScannedTo
  <2> QED
    BY <2>1, <2>5
<1>6. ASSUME NEW i \in 0..(Len(rest) - 1), i \in G
      PROVE  i + 1 \in G
  <2> DEFINE n == a + i
  <2>1. /\ n \in 1..(Len(p) - 1) /\ n \in a..(Len(p) - 1) /\ a + (i + 1) = n + 1
        /\ i + 1 \in 1..Len(rest) /\ i + 1 \in 1..(Len(p) - a) /\ (i + 1) - 1 = i /\ i + 1 \in Nat
    BY <1>0, <1>1, <1>3
  <2>2. ScannedTo(p, n, D[i])
    BY <1>6
  <2> HIDE DEF n
  <2>3. D[i + 1] = Scan(D[i], p[n + 1])
    BY <1>3, <1>4, <2>1
  <2>4. p[n] = "/" => p[n + 1] # "/"
    BY <1>1, <2>1, Zenon
  <2>5. ScannedTo(p, n + 1, Scan(D[i], p[n + 1]))
    BY <1>0, <2>1, <2>2, <2>4, ScanStep
  <2>6. ScannedTo(p, a + (i + 1), D[i + 1])
    BY <2>1, <2>3, <2>5, Zenon
  <2> QED
    BY <2>1, <2>6
<1>7. Len(rest) \in G
  <2>1. Len(rest) \in Nat /\ Len(rest) \in 0..Len(rest)
    BY <1>3
  <2> HIDE DEF G
  <2> QED
    BY <1>5, <1>6, <2>1, Induct
<1> DEFINE N == Len(p)
<1>8. ScannedTo(p, N, D[Len(rest)])
  <2>1. a + Len(rest) = N
    BY <1>0, <1>1, <1>3
  <2>2. ScannedTo(p, a + Len(rest), D[Len(rest)])
    BY <1>7
  <2> QED
    BY <2>1, <2>2, Zenon
<1>a. PICK m \in 1..N : \E r : /\ D[Len(rest)] = Scanned(r, SubSeq(p, m + 1, N))
                               /\ Slashed(r) = SubSeq(p, 1, m)
                               /\ p[m] = "/"
                               /\ \A k \in (m + 1)..N : p[k] # "/"
  BY <1>8, Zenon DEF ScannedTo
<1>9. PICK r : /\ D[Len(rest)] = Scanned(r, SubSeq(p, m + 1, N))
               /\ Slashed(r) = SubSeq(p, 1, m)
               /\ p[m] = "/"
               /\ \A k \in (m + 1)..N : p[k] # "/"
  BY <1>a, Zenon
<1> DEFINE t == SubSeq(p, m + 1, N)
<1>10. Scanned(r, t).resolved = r /\ Scanned(r, t).token = t
  BY DEF Scanned
<1>11. done = Resolve(r, t)
  BY <1>9, <1>10, Zenon
<1>12. SubSeq(p, 1, N) = p
  BY <1>0, SubSeqFull
<1>13. done = p
  <2>1. CASE m = N
    <3>1. t = <<>>
      <4>1. m + 1 \in Int /\ N \in Int /\ N < m + 1
        BY <1>0, <2>1
      <4> QED
        BY <4>1, SubSeqEmpty
    <3>2. <<>> \in Seq(UriChars) /\ Len(<<>>) = 0
      OBVIOUS
    <3>3. Resolve(r, <<>>) = Slashed(r)
      BY <3>2, ResolveCases
    <3> QED
      BY <1>9, <1>11, <1>12, <2>1, <3>1, <3>3, Zenon
  <2>2. CASE m # N
    <3>1. m \in 1..Len(p) /\ N \in (m + 1)..Len(p)
      BY <1>0, <2>2
    <3>2. StopsAt(p, N + 1)
      BY <1>0 DEF StopsAt
    <3>3. Resolve(r, t) = SubSeq(p, 1, N)
      BY <1>0, <1>9, <3>1, <3>2, ComponentKept
    <3> QED
      BY <1>11, <1>12, <3>3, Zenon
  <2> QED
    BY <2>1, <2>2
<1> HIDE DEF done
<1>14. ~(Len(p) > 1 /\ Last(p) = "/") /\ p # <<>>
  BY <1>0 DEF Last
<1>15. NormalizePath(p) = IF Len(done) > 1 /\ Last(done) = "/" THEN Front(done) ELSE done
  BY <1>14, Zenon DEF NormalizePath, root, rest, D, done
<1> QED
  BY <1>13, <1>14, <1>15, Zenon

\* A normalised path is kept by its URI, but for the shares of localhost.
LEMMA NormalKept ==
  ASSUME NEW p, NormalPath(p), KeptByUris(p)
  PROVE  UriKeeps(p)
<1>0. /\ CleanPath(p) /\ p \in Seq(UriChars) /\ Len(p) \in Nat /\ Len(p) >= 1 /\ p[1] = "/"
      /\ Len(p) > 1 => p[Len(p)] # "/"
  BY DEF NormalPath, CleanPath
<1>1. ASSUME Len(p) >= 2, p[2] = "/"
      PROVE  Len(p) >= 3 /\ p[3] \notin {"/", "localhost"}
  <2>1. Len(p) >= 3
    <3>1. Len(p) # 2
      BY <1>0, <1>1
    <3> QED
      BY <1>0, <1>1, <3>1
  <2>2. p[3] # "/"
    <3>1. 3 \in 2..Len(p) /\ 3 - 1 = 2
      BY <1>0, <2>1
    <3>2. p[3] = "/" => 3 = 2
      BY <1>0, <1>1, <3>1 DEF CleanPath
    <3> QED
      BY <3>2
  <2>3. p[3] # "localhost"
    <3> SUFFICES ASSUME p[3] = "localhost"
                 PROVE  FALSE
      OBVIOUS
    <3> DEFINE x == <<"/", "/", "localhost">>
               y == SubSeq(p, 1, 3)
               T == UriChars \cup {"/", "localhost"}
    <3>1. x \in Seq(T) /\ Len(x) = 3 /\ x[1] = "/" /\ x[2] = "/" /\ x[3] = "localhost"
      OBVIOUS
    <3>2. y \in Seq(UriChars) /\ Len(y) = 3 /\ y[1] = p[1] /\ y[2] = p[2] /\ y[3] = p[3]
      BY <1>0, <2>1
    <3>3. IsPrefix(x, p) <=> Len(x) <= Len(p) /\ SubSeq(x, 1, Len(x)) = SubSeq(p, 1, Len(x))
      BY Zenon DEF IsPrefix
    <3> HIDE DEF x, y
    <3>4. y \in Seq(T)
      BY <3>2, SeqMonotonic
    <3>5. Len(x) = Len(y) /\ \A k \in 1..Len(x) : x[k] = y[k]
      BY <1>0, <1>1, <3>1, <3>2
    <3>6. x = y
      BY <3>1, <3>4, <3>5, SeqEqual
    <3>7. SubSeq(x, 1, Len(x)) = x
      BY <3>1, SubSeqFull
    <3>8. Len(x) <= Len(p)
      BY <2>1, <3>1
    <3>9. IsPrefix(x, p)
      BY <3>1, <3>3, <3>6, <3>7, <3>8, Zenon DEF y
    <3> QED
      BY <3>9, Zenon DEF KeptByUris, x
  <2> QED
    BY <2>1, <2>2, <2>3
<1> QED
  BY <1>0, <1>1 DEF UriKeeps

\* The slash at the beginning of a path is encoded as itself.
LEMMA EncodeTail ==
  ASSUME NEW safe, "/" \in safe, NEW p \in Seq(UriChars), Len(p) >= 1, p[1] = "/"
  PROVE  PercentEncode(p, safe) = <<"/">> \o PercentEncode(SubSeq(p, 2, Len(p)), safe)
<1> DEFINE q == SubSeq(p, 2, Len(p))
           n == Len(q)
           s == <<"/">>
           P == Encodings(p, safe)
           Q == Encodings(q, safe)
           G == {i \in Nat : P[i + 1] = s \o Q[i]}
<1>0. Len(p) \in Nat /\ s \in Seq(Codes) /\ <<>> \in Seq(Codes)
  BY DEF Codes, UriChars
<1>1. q \in Seq(UriChars) /\ n = Len(p) - 1 /\ n \in Nat /\ \A j \in 1..n : q[j] = p[j + 1]
  <2>1. 1 \in 0..Len(p) /\ Len(p) \in 1..Len(p) /\ 1 + 1 = 2
    BY <1>0
  <2>2. /\ SubSeq(p, 1 + 1, Len(p)) \in Seq(UriChars) /\ Len(SubSeq(p, 1 + 1, Len(p))) = Len(p) - 1
        /\ \A j \in 1..(Len(p) - 1) : SubSeq(p, 1 + 1, Len(p))[j] = p[1 + j]
    BY <2>1, Window
  <2>3. q \in Seq(UriChars) /\ n = Len(p) - 1 /\ \A j \in 1..(Len(p) - 1) : q[j] = p[1 + j]
    BY <2>1, <2>2, Zenon
  <2> HIDE DEF q
  <2> QED
    BY <1>0, <2>3
<1> HIDE DEF q
<1>2. P[0] = <<>> /\ \A i \in 1..Len(p) : P[i] = P[i - 1] \o EncodeByte(p[i], safe)
  BY EncodingsDef
<1>3. Q[0] = <<>> /\ \A i \in 1..n : Q[i] = Q[i - 1] \o EncodeByte(q[i], safe)
  BY <1>1, EncodingsDef
<1>4. \A i \in 0..n : Q[i] \in Seq(Codes)
  BY <1>1, EncodingsType
<1> HIDE DEF P, Q
<1>5. 0 \in G
  <2>1. 0 + 1 = 1 /\ 1 - 1 = 0 /\ 1 \in 1..Len(p)
    BY <1>0
  <2>2. EncodeByte("/", safe) = s
    BY Zenon DEF EncodeByte
  <2> HIDE DEF s
  <2>3. P[1] = P[1 - 1] \o EncodeByte(p[1], safe)
    BY <1>2, <2>1, Zenon
  <2>4. P[1] = <<>> \o s
    BY <1>2, <2>1, <2>2, <2>3, Zenon
  <2>5. <<>> \o s = s /\ s \o <<>> = s
    BY <1>0, ConcatEmptySeq
  <2>6. P[0 + 1] = s \o Q[0]
    BY <1>3, <2>1, <2>4, <2>5, Zenon
  <2> QED
    BY <2>6
<1>6. ASSUME NEW i \in 0..(n - 1), i \in G
      PROVE  i + 1 \in G
  <2> DEFINE e == EncodeByte(p[(i + 1) + 1], safe)
  <2>1. /\ i + 1 \in 1..n /\ (i + 1) - 1 = i /\ i \in 0..n /\ i + 1 \in Nat
        /\ (i + 1) + 1 \in 1..Len(p) /\ ((i + 1) + 1) - 1 = i + 1
    BY <1>0, <1>1
  <2>2. q[i + 1] = p[(i + 1) + 1] /\ q[i + 1] \in UriChars
    BY <1>1, <2>1
  <2>3. e \in Seq(Codes)
    BY <2>2, CodeBytes
  <2>4. Q[i + 1] = Q[i] \o e
    <3>1. Q[i + 1] = Q[(i + 1) - 1] \o EncodeByte(q[i + 1], safe)
      BY <1>3, <2>1, Zenon
    <3> QED
      BY <2>1, <2>2, <3>1, Zenon
  <2>5. P[(i + 1) + 1] = P[i + 1] \o e
    <3>1. P[(i + 1) + 1] = P[((i + 1) + 1) - 1] \o e
      BY <1>2, <2>1, Zenon
    <3> QED
      BY <2>1, <3>1, Zenon
  <2>6. P[i + 1] = s \o Q[i]
    BY <1>6
  <2> DEFINE v == Q[i]
  <2>7. v \in Seq(Codes)
    BY <1>4, <2>1
  <2> HIDE DEF s, e, v
  <2>8. Regroups(s, v, e)
    BY <1>0, <2>3, <2>7, Regrouped
  <2>9. P[(i + 1) + 1] = s \o Q[i + 1]
    BY <2>4, <2>5, <2>6, <2>8, Zenon DEF Regroups, v
  <2> QED
    BY <2>1, <2>9
<1>7. n \in G
  <2>1. n \in 0..n
    BY <1>1
  <2> HIDE DEF G, n
  <2> QED
    BY <1>1, <1>5, <1>6, <2>1, Induct
<1>8. n + 1 = Len(p)
  BY <1>0, <1>1
<1>9. P[n + 1] = s \o Q[n]
  BY <1>7
<1>10. P[Len(p)] = s \o Q[n]
  BY <1>8, <1>9, Zenon
<1> QED
  BY <1>10, Zenon DEF PercentEncode, P, Q, q

LEMMA TestUriBack ==
  ASSUME NEW p, NormalPath(p), ~IsShare(p)
  PROVE  TestToAbsolutePath(from_test_path(p)) = p
<1> DEFINE safe == {"/", ":"}
           skipped == {i \in 0..Len(p) : \A j \in 1..i : p[j] = "/"}
           w == PercentEncode(p, safe)
<1>0. CleanPath(p) /\ p \in Seq(UriChars) /\ Len(p) \in Nat /\ Len(p) >= 1 /\ p[1] = "/"
  BY DEF NormalPath, CleanPath
<1>1. NormalizePathSeparators(p) = p
  BY <1>0, UriSeq
<1>2. Len(p) >= 2 => p[2] # "/"
  BY <1>0, CleanRoot DEF RootLen
<1>3. 1 \in skipped /\ \A i \in skipped : i <= 1
  <2>1. 1 \in skipped
    BY <1>0
  <2>2. ASSUME NEW i \in skipped
        PROVE  i <= 1
    <3> SUFFICES ASSUME ~(i <= 1)
                 PROVE  FALSE
      OBVIOUS
    <3>1. i \in 0..Len(p) /\ \A j \in 1..i : p[j] = "/"
      OBVIOUS
    <3>2. 2 \in 1..i /\ Len(p) >= 2
      BY <1>0, <3>1
    <3> QED
      BY <1>2, <3>1, <3>2
  <2> QED
    BY <2>1, <2>2
<1>4. Max(skipped) = 1
  <2>1. \A x \in skipped : x \in Nat
    OBVIOUS
  <2> HIDE DEF skipped
  <2>2. Max(skipped) = CHOOSE x \in skipped : \A y \in skipped : x >= y
    BY Zenon DEF Max
  <2>3. 1 \in skipped /\ \A y \in skipped : 1 >= y
    BY <1>3, <2>1
  <2>4. \A x \in skipped : (\A y \in skipped : x >= y) => x = 1
    BY <1>3, <2>1
  <2> QED
    BY <2>2, <2>3, <2>4, Zenon
<1>5. NormalizeTestPath(p) = SubSeq(p, 1 + 1, Len(p))
  BY <1>1, <1>4, Zenon DEF NormalizeTestPath
<1>6. 1 + 1 = 2
  OBVIOUS
<1>7. from_test_path(p) = w
  <2>1. "/" \in safe
    OBVIOUS
  <2> HIDE DEF safe
  <2>2. w = <<"/">> \o PercentEncode(SubSeq(p, 2, Len(p)), safe)
    BY <1>0, <2>1, EncodeTail
  <2> QED
    BY <1>5, <1>6, <2>2, Zenon DEF from_test_path, PercentEncodeTestPath, safe
<1>8. percent_decode_uri_component(w) = p
  <2>1. "%" \notin safe
    OBVIOUS
  <2> HIDE DEF safe
  <2> QED
    BY <1>0, <2>1, DecodeEncode
<1>9. ~(p = <<>> \/ p[1] # "/")
  BY <1>0
<1>10. NormalizePath(p) = p
  BY NormalizedAgain
<1> HIDE DEF w
<1> QED
  BY <1>7, <1>8, <1>9, <1>10, Zenon DEF TestToAbsolutePath

LEMMA DirAndName ==
  ASSUME NEW p \in Seq(UriChars), p[1] = "/", Len(p) > 1, Last(p) # "/"
  PROVE  GetDirName(p) \o GetBaseName(p) = p
<1> DEFINE m == LastSlash(p)
<1>0. Len(p) \in Nat /\ p[Len(p)] # "/"
  BY DEF Last
<1>1. m \in 0..Len(p) /\ (m # 0 => p[m] = "/") /\ \A j \in 1..Len(p) : p[j] = "/" => j <= m
  BY LastSlashDef
<1> HIDE DEF m
<1>2. m # 0 /\ m < Len(p) /\ m \in 0..Len(p)
  <2>1. 1 \in 1..Len(p)
    BY <1>0
  <2>2. 1 <= m
    BY <1>1, <2>1
  <2>3. m # Len(p)
    BY <1>0, <1>1, <2>2
  <2> QED
    BY <1>0, <1>1, <2>2, <2>3
<1>3. p # <<"/">>
  <2>1. Len(<<"/">>) = 1 /\ ~(1 > 1)
    OBVIOUS
  <2> QED
    BY <2>1, Zenon
<1>4. GetDirName(p) = SubSeq(p, 1, m)
  BY <1>2, <1>3, Zenon DEF GetDirName, m
<1>5. GetBaseName(p) = SubSeq(p, m + 1, Len(p))
  BY <1>2, Zenon DEF GetBaseName, m
<1>6. p = SubSeq(p, 1, m) \o SubSeq(p, m + 1, Len(p))
  BY <1>2, Parts
<1> QED
  BY <1>4, <1>5, <1>6, Zenon

-----------------------------------------------------------------------------
(***************************************************************************)
(* Mapped directories.                                                     *)
(***************************************************************************)
Separators == {"/", "\\"}

Below(v, a) ==
  /\ Len(a) <= Len(v) /\ \A k \in 1..Len(a) : v[k] = a[k]
  /\ Len(v) = Len(a) \/ (Len(a) # 0 /\ (a[Len(a)] \in Separators \/ v[Len(a) + 1] \in Separators))

LEMMA Matching ==
  ASSUME NEW v \in Seq(UriChars), NEW a \in Seq(UriChars)
  PROVE  MatchesPathPrefix(v, a) <=> Below(v, a)
<1>0. Len(v) \in Nat /\ Len(a) \in Nat
  OBVIOUS
<1>1. SubSeq(a, 1, Len(a)) = a
  BY SubSeqFull
<1>2. IsPrefix(a, v) <=> Len(a) <= Len(v) /\ a = SubSeq(v, 1, Len(a))
  BY <1>1, Zenon DEF IsPrefix
<1>3. ASSUME Len(a) <= Len(v)
      PROVE  a = SubSeq(v, 1, Len(a)) <=> \A k \in 1..Len(a) : v[k] = a[k]
  <2> DEFINE u == SubSeq(v, 1, Len(a))
  <2>1. Len(a) \in 0..Len(v)
    BY <1>0, <1>3
  <2>2. u \in Seq(UriChars) /\ Len(u) = Len(a) /\ \A k \in 1..Len(a) : u[k] = v[k]
    BY <2>1
  <2> HIDE DEF u
  <2>3. (\A k \in 1..Len(a) : v[k] = a[k]) => a = u
    <3> SUFFICES ASSUME \A k \in 1..Len(a) : v[k] = a[k]
                 PROVE  a = u
      OBVIOUS
    <3>1. Len(a) = Len(u) /\ \A k \in 1..Len(a) : a[k] = u[k]
      BY <2>2
    <3> QED
      BY <2>2, <3>1, SeqEqual
  <2>4. a = u => \A k \in 1..Len(a) : v[k] = a[k]
    BY <2>2
  <2> QED
    BY <2>3, <2>4, Zenon DEF u
<1>4. IsPrefix(a, v) <=> Len(a) <= Len(v) /\ \A k \in 1..Len(a) : v[k] = a[k]
  BY <1>2, <1>3, Zenon
<1>5. ASSUME IsPrefix(a, v)
      PROVE  v = a <=> Len(v) = Len(a)
  <2>1. \A k \in 1..Len(a) : v[k] = a[k]
    BY <1>4, <1>5, Zenon
  <2>2. Len(v) = Len(a) => v = a
    <3> SUFFICES ASSUME Len(v) = Len(a)
                 PROVE  v = a
      OBVIOUS
    <3>1. \A k \in 1..Len(v) : v[k] = a[k]
      BY <2>1, Zenon
    <3> QED
      BY <3>1, SeqEqual
  <2> QED
    BY <2>2, Zenon
<1>6. a # <<>> <=> Len(a) # 0
  OBVIOUS
<1> QED
  BY <1>4, <1>5, <1>6, Zenon DEF MatchesPathPrefix, Below, Separators, Last

LEMMA Entries ==
  ASSUME NEW i \in DOMAIN Mapping
  PROVE  /\ Client[i] \in Seq(UriChars) /\ Server[i] \in Seq(UriChars)
         /\ PlainDirectory(Client[i]) /\ PlainDirectory(Server[i])
         /\ Last(Client[i]) = "/" => Last(Server[i]) = "/"
<1> DEFINE E == [client : Seq(UriChars), server : Seq(UriChars)]
           e == Mapping[i]
<1>1. Mapping \in Seq(E)
  BY UriAssumption
<1>2. e \in E
  <2> HIDE DEF E
  <2> QED
    BY <1>1
<1>3. e.client \in Seq(UriChars) /\ e.server \in Seq(UriChars)
  <2> HIDE DEF e
  <2> QED
    BY <1>2
<1>4. Client[i] = e.client /\ Server[i] = e.server
  BY DEF Client, Server
<1>5. PlainDirectory(e.client) /\ PlainDirectory(e.server)
  BY UriAssumption, Zenon
<1>6. Last(e.client) = "/" => Last(e.server) = "/"
  BY UriAssumption, Zenon
<1> HIDE DEF e
<1> QED
  BY <1>3, <1>4, <1>5, <1>6, Zenon

\* A path lies in one directory of the server at most.
LEMMA OneServer ==
  ASSUME NEW v \in Seq(UriChars), NEW i \in DOMAIN Mapping, NEW j \in DOMAIN Mapping,
         MatchesPathPrefix(v, Server[i]), MatchesPathPrefix(v, Server[j])
  PROVE  i = j
<1> SUFFICES ASSUME i # j
             PROVE  FALSE
  OBVIOUS
<1>1. /\ ~MatchesPathPrefix(Mapping[i].server, Mapping[j].server)
      /\ ~MatchesPathPrefix(Mapping[j].server, Mapping[i].server)
  BY UriAssumption, Zenon
<1> DEFINE x == Server[i]
           y == Server[j]
<1>2. x = Mapping[i].server /\ y = Mapping[j].server
  BY DEF Server
<1>3. x \in Seq(UriChars) /\ y \in Seq(UriChars)
  BY Entries
<1> HIDE DEF x, y
<1>4. ~Below(x, y) /\ ~Below(y, x)
  BY <1>1, <1>2, <1>3, Matching
<1>5. Below(v, x) /\ Below(v, y)
  BY <1>3, Matching DEF x, y
<1>6. Len(x) \in Nat /\ Len(y) \in Nat /\ Len(v) \in Nat
  BY <1>3
<1>7. \A a, b \in Seq(UriChars) : Len(a) <= Len(b) /\ Below(v, a) /\ Below(v, b) => Below(b, a)
  <2> SUFFICES ASSUME NEW a \in Seq(UriChars), NEW b \in Seq(UriChars),
                      Len(a) <= Len(b), Below(v, a), Below(v, b)
               PROVE  Below(b, a)
    OBVIOUS
  <2>0. Len(a) \in Nat /\ Len(b) \in Nat
    OBVIOUS
  <2>1. Len(b) <= Len(v) /\ (\A k \in 1..Len(a) : v[k] = a[k]) /\ (\A k \in 1..Len(b) : v[k] = b[k])
    BY Zenon DEF Below
  <2>2. \A k \in 1..Len(a) : b[k] = a[k]
    BY <2>0, <2>1
  <2>3. CASE Len(b) = Len(a)
    BY <2>2, <2>3 DEF Below
  <2>4. CASE Len(b) # Len(a)
    <3>1. Len(a) + 1 \in 1..Len(b) /\ Len(v) # Len(a)
      BY <1>6, <2>0, <2>1, <2>4
    <3>2. Len(a) # 0 /\ (a[Len(a)] \in Separators \/ v[Len(a) + 1] \in Separators)
      BY <3>1, Zenon DEF Below
    <3>3. v[Len(a) + 1] = b[Len(a) + 1]
      BY <2>1, <3>1
    <3> QED
      BY <2>2, <3>2, <3>3, Zenon DEF Below
  <2> QED
    BY <2>3, <2>4
<1>8. Len(x) <= Len(y) \/ Len(y) <= Len(x)
  BY <1>6
<1> QED
  BY <1>3, <1>4, <1>5, <1>7, <1>8, Zenon

\* A path in a mapped directory goes to the other one and comes back.
LEMMA RemapBack ==
  ASSUME NEW p \in Seq(UriChars), NEW c \in Seq(UriChars), NEW s \in Seq(UriChars),
         PlainDirectory(c), PlainDirectory(s), Last(c) = "/" => Last(s) = "/",
         MatchesPathPrefix(p, c)
  PROVE  /\ UriKeeps(p) /\ UriKeeps(RemapPrefix(p, c, s))
         /\ MatchesPathPrefix(RemapPrefix(p, c, s), s)
         /\ RemapPrefix(RemapPrefix(p, c, s), s, c) = p
<1> DEFINE t == SubSeq(p, Len(c) + 1, Len(p))
           v == s \o t
<1>0. Len(p) \in Nat /\ Len(c) \in Nat /\ Len(s) \in Nat
  OBVIOUS
<1>1. /\ Len(c) > 1 /\ c[1] = "/" /\ c[2] # "/" /\ Len(s) > 1 /\ s[1] = "/" /\ s[2] # "/"
      /\ c[Len(c)] = "/" => s[Len(s)] = "/"
  BY DEF PlainDirectory, Last
<1>2. Below(p, c)
  BY Matching
<1>3. Len(c) \in 0..Len(p) /\ \A k \in 1..Len(c) : p[k] = c[k]
  <2>1. Len(c) <= Len(p) /\ \A k \in 1..Len(c) : p[k] = c[k]
    BY <1>2 DEF Below
  <2> QED
    BY <1>0, <2>1
<1>4. SubSeq(p, 1, Len(c)) = c
  <2> DEFINE u == SubSeq(p, 1, Len(c))
  <2>1. u \in Seq(UriChars) /\ Len(u) = Len(c) /\ \A k \in 1..Len(c) : u[k] = p[k]
    BY <1>3
  <2> HIDE DEF u
  <2>2. Len(u) = Len(c) /\ \A k \in 1..Len(u) : u[k] = c[k]
    BY <1>3, <2>1
  <2>3. u = c
    BY <2>1, <2>2, SeqEqual
  <2> QED
    BY <2>3 DEF u
<1>5. t \in Seq(UriChars) /\ Len(t) = Len(p) - Len(c) /\ p = c \o t
  <2>1. /\ SubSeq(p, Len(c) + 1, Len(p)) \in Seq(UriChars)
        /\ Len(SubSeq(p, Len(c) + 1, Len(p))) = Len(p) - Len(c)
        /\ p = SubSeq(p, 1, Len(c)) \o SubSeq(p, Len(c) + 1, Len(p))
    BY <1>3, Parts
  <2> QED
    BY <1>4, <2>1, Zenon
<1>6. RemapPrefix(p, c, s) = v
  BY Zenon DEF RemapPrefix
<1> HIDE DEF t
<1>7. /\ v \in Seq(UriChars) /\ Len(v) = Len(s) + Len(t) /\ Len(t) \in Nat
      /\ \A k \in 1..Len(s) : v[k] = s[k]
      /\ \A k \in 1..Len(t) : v[Len(s) + k] = t[k]
  BY <1>5, Joined
<1>8. \A k \in 1..Len(t) : p[Len(c) + k] = t[k]
  <2>1. \A k \in 1..Len(t) : (c \o t)[Len(c) + k] = t[k]
    BY <1>5, Joined
  <2> QED
    BY <1>5, <2>1, Zenon
<1>9. SubSeq(v, Len(s) + 1, Len(v)) = t
  BY <1>5, Halves
<1> HIDE DEF v
<1>10. Below(v, s)
  <2>1. Len(s) <= Len(v)
    BY <1>0, <1>7
  <2>2. CASE Len(t) = 0
    <3>1. Len(v) = Len(s)
      BY <1>0, <1>7, <2>2
    <3> QED
      BY <1>7, <2>1, <3>1, Zenon DEF Below
  <2>3. CASE Len(t) # 0
    <3>1. Len(p) # Len(c) /\ 1 \in 1..Len(t)
      BY <1>0, <1>5, <1>7, <2>3
    <3>2. c[Len(c)] \in Separators \/ p[Len(c) + 1] \in Separators
      BY <1>2, <3>1, Zenon DEF Below
    <3>3. p[Len(c) + 1] = t[1] /\ v[Len(s) + 1] = t[1]
      BY <1>7, <1>8, <3>1
    <3>4. c[Len(c)] # "\\"
      <4>1. Len(c) \in 1..Len(c)
        BY <1>0, <1>1
      <4>2. c[Len(c)] \in UriChars
        BY <4>1
      <4> QED
        BY <4>2, NoBackslash
    <3>5. s[Len(s)] \in Separators \/ v[Len(s) + 1] \in Separators
      BY <1>1, <3>2, <3>3, <3>4, Zenon DEF Separators
    <3>6. Len(s) # 0
      BY <1>0, <1>1
    <3> QED
      BY <1>7, <2>1, <3>5, <3>6, Zenon DEF Below
  <2> QED
    BY <2>2, <2>3
<1>11. MatchesPathPrefix(v, s)
  BY <1>7, <1>10, Matching
<1>12. RemapPrefix(v, s, c) = p
  BY <1>5, <1>9, <1>11, Zenon DEF RemapPrefix
<1>13. UriKeeps(p)
  <2>1. 1 \in 1..Len(c) /\ 2 \in 1..Len(c) /\ Len(p) >= 1
    BY <1>0, <1>1, <1>3
  <2>2. p[1] = "/" /\ p[2] # "/"
    BY <1>1, <1>3, <2>1
  <2> QED
    BY <2>1, <2>2 DEF UriKeeps
<1>14. UriKeeps(v)
  <2>1. 1 \in 1..Len(s) /\ 2 \in 1..Len(s) /\ Len(v) >= 1
    BY <1>0, <1>1, <1>7
  <2>2. v[1] = "/" /\ v[2] # "/"
    BY <1>1, <1>7, <2>1
  <2> QED
    BY <1>7, <2>1, <2>2 DEF UriKeeps
<1> QED
  BY <1>6, <1>11, <1>12, <1>13, <1>14, Zenon

LEMMA MinOf ==
  ASSUME NEW T \in SUBSET Nat, T # {}
  PROVE  Min(T) \in T
<1>1. \E x \in T : \A y \in T : x <= y
  BY LeastNat
<1>2. Min(T) = CHOOSE x \in T : \A y \in T : x <= y
  BY Zenon DEF Min
<1> QED
  BY <1>1, <1>2, Zenon

\* A path of a mapped directory comes back through the mapping.
LEMMA MappingBack ==
  ASSUME NEW p \in Seq(UriChars), Mapped(p)
  PROVE  /\ UriKeeps(p) /\ UriKeeps(client_to_server(p))
         /\ server_to_client(client_to_server(p)) = p
<1> DEFINE changing(q, f, g) == {i \in DOMAIN Mapping : RemapPrefix(q, f[i], g[i]) # q}
           T == changing(p, Client, Server)
<1>0. DOMAIN Mapping \in SUBSET Nat
  BY UriAssumption
<1>1. PICK i \in DOMAIN Mapping : /\ MatchesPathPrefix(p, Client[i])
                                  /\ client_to_server(p) = RemapPrefix(p, Client[i], Server[i])
  <2>1. CASE T = {}
    <3>1. client_to_server(p) = p
      BY <2>1, Zenon DEF client_to_server, Remapped
    <3>2. PICK i \in DOMAIN Mapping : MatchesPathPrefix(p, Mapping[i].client)
      BY Zenon DEF Mapped
    <3>3. Mapping[i].client = Client[i]
      BY DEF Client
    <3>4. RemapPrefix(p, Client[i], Server[i]) = p
      BY <2>1
    <3> QED
      BY <3>1, <3>2, <3>3, <3>4, Zenon
  <2>2. CASE T # {}
    <3>1. T \in SUBSET Nat
      BY <1>0
    <3>2. Min(T) \in T
      BY <2>2, <3>1, MinOf
    <3> DEFINE i == Min(T)
    <3>3. client_to_server(p) = RemapPrefix(p, Client[i], Server[i])
      BY <2>2, Zenon DEF client_to_server, Remapped
    <3> HIDE DEF i
    <3>4. i \in DOMAIN Mapping /\ RemapPrefix(p, Client[i], Server[i]) # p
      BY <3>2 DEF i
    <3>5. MatchesPathPrefix(p, Client[i])
      BY <3>4, Zenon DEF RemapPrefix
    <3> QED
      BY <3>3, <3>4, <3>5, Zenon
  <2> QED
    BY <2>1, <2>2
<1> DEFINE c == Client[i]
           s == Server[i]
           v == RemapPrefix(p, c, s)
           U == changing(v, Server, Client)
<1>2. /\ c \in Seq(UriChars) /\ s \in Seq(UriChars) /\ PlainDirectory(c) /\ PlainDirectory(s)
      /\ Last(c) = "/" => Last(s) = "/"
  BY Entries
<1>3. /\ UriKeeps(p) /\ UriKeeps(v) /\ MatchesPathPrefix(v, s) /\ RemapPrefix(v, s, c) = p
  <2> HIDE DEF c, s
  <2>1. MatchesPathPrefix(p, c)
    BY <1>1 DEF c
  <2> QED
    BY <1>2, <2>1, RemapBack
<1>4. v \in Seq(UriChars)
  BY <1>3, Zenon DEF UriKeeps
<1> HIDE DEF v
<1>5. \A j \in U : j = i
  <2> SUFFICES ASSUME NEW j \in U
               PROVE  j = i
    OBVIOUS
  <2>1. j \in DOMAIN Mapping /\ RemapPrefix(v, Server[j], Client[j]) # v
    OBVIOUS
  <2>2. MatchesPathPrefix(v, Server[j])
    BY <2>1, Zenon DEF RemapPrefix
  <2> QED
    BY <1>3, <1>4, <2>1, <2>2, OneServer
<1>6. server_to_client(v) = p
  <2>1. CASE U = {}
    <3>1. server_to_client(v) = v
      BY <2>1, Zenon DEF server_to_client, Remapped
    <3>2. RemapPrefix(v, s, c) = v
      BY <2>1
    <3> QED
      BY <1>3, <3>1, <3>2, Zenon
  <2>2. CASE U # {}
    <3>1. U \in SUBSET Nat
      BY <1>0
    <3>2. Min(U) \in U
      BY <2>2, <3>1, MinOf
    <3>3. server_to_client(v) = RemapPrefix(v, Server[Min(U)], Client[Min(U)])
      BY <2>2, Zenon DEF server_to_client, Remapped
    <3>4. Min(U) = i
      BY <1>5, <3>2, Zenon
    <3> QED
      BY <1>3, <3>3, <3>4, Zenon
  <2> QED
    BY <2>1, <2>2
<1>7. client_to_server(p) = v
  BY <1>1 DEF v
<1> QED
  BY <1>3, <1>6, <1>7, Zenon

-----------------------------------------------------------------------------
\* What the theorem about paths rests on: the path a behaviour builds is
\* absolute and made of the characters of paths.
UriInv == path \in Seq(UriChars) /\ Len(path) >= 1 /\ path[1] = "/"

LEMMA PathsKept ==
  ASSUME UriInv
  PROVE  PathsComeBack
<1> DEFINE p == NormalizePath(path)
           uri == MakeFileUriFromPath(p)
<1>1. NormalPath(p)
  BY NormalizedPath DEF UriInv
<1> HIDE DEF p
<1>2. p \in Seq(UriChars) /\ p[1] = "/"
  BY <1>1, Zenon DEF NormalPath, CleanPath
<1>3. NormalizePath(p) = p
  BY <1>1, NormalizedAgain
<1>4. KeptByUris(p) => GetAbsolutePath(uri) = p
  <2> SUFFICES ASSUME KeptByUris(p)
               PROVE  GetAbsolutePath(uri) = p
    OBVIOUS
  <2>1. UriKeeps(p)
    BY <1>1, NormalKept
  <2>2. RawPathFromFileUri(uri) = p
    BY <2>1, FileUriBack
  <2> QED
    BY <1>3, <2>2, Zenon DEF GetAbsolutePath
<1>5. ~IsShare(p) => TestToAbsolutePath(from_test_path(p)) = p
  BY <1>1, TestUriBack
<1>6. percent_decode_uri_component(percent_encode_uri_component(path)) = path
  <2>1. "%" \notin {}
    OBVIOUS
  <2>2. percent_decode_uri_component(PercentEncode(path, {})) = path
    BY <2>1, DecodeEncode DEF UriInv
  <2> QED
    BY <2>2, Zenon DEF percent_encode_uri_component
<1>7. Len(p) > 1 /\ Last(p) # "/" => GetDirName(p) \o GetBaseName(p) = p
  BY <1>2, DirAndName
<1>8. Mapped(p) => remap_uri_to_client(RawPathFromFileUri(remap_uri_to_server(uri))) = uri
  <2> SUFFICES ASSUME Mapped(p)
               PROVE  remap_uri_to_client(RawPathFromFileUri(remap_uri_to_server(uri))) = uri
    OBVIOUS
  <2> DEFINE v == client_to_server(p)
  <2>1. UriKeeps(p) /\ UriKeeps(v) /\ server_to_client(v) = p
    BY <1>2, MappingBack
  <2> HIDE DEF v
  <2>2. RawPathFromFileUri(uri) = p
    BY <2>1, FileUriBack
  <2>3. RawPathFromFileUri(MakeFileUriFromPath(v)) = v
    BY <2>1, FileUriBack
  <2>4. remap_uri_to_server(uri) = MakeFileUriFromPath(v)
    BY <2>2, Zenon DEF remap_uri_to_server, v
  <2> QED
    BY <2>1, <2>3, <2>4, Zenon DEF remap_uri_to_client
<1> HIDE DEF uri
<1> QED
  BY <1>3, <1>4, <1>5, <1>6, <1>7, <1>8, Zenon DEF PathsComeBack, p, uri

\* Every path the server has made absolute is normalised for good, and survives
\* its way in a file URI, in a test URI, in a component and through the mapping
\* of directories, whatever the characters, the length and the mapping (of
\* which UriAssumption holds): percent-encoding (lsp.cpp), path normalisation
\* (utils.cpp) and PathMapping (path_mapping.cpp) undo each other.
THEOREM PathsReturn == UriSpec => []PathsComeBack
<1>1. UriInit => UriInv
  <2> SUFFICES ASSUME UriInit
               PROVE  UriInv
    OBVIOUS
  <2>1. "/" \in UriChars
    BY DEF UriChars
  <2>2. path = <<"/">>
    BY DEF UriInit
  <2> QED
    BY <2>1, <2>2 DEF UriInv
<1>2. UriInv /\ [UriNext]_path => UriInv'
  <2> SUFFICES ASSUME UriInv, [UriNext]_path
               PROVE  UriInv'
    OBVIOUS
  <2>1. CASE UNCHANGED path
    BY <2>1 DEF UriInv
  <2>2. ASSUME NEW c \in PathChars, Type(c)
        PROVE  UriInv'
    <3>1. c \in UriChars /\ path' = Append(path, c)
      BY <2>2 DEF UriChars, Type
    <3> QED
      BY <3>1 DEF UriInv
  <2> QED
    BY <2>1, <2>2 DEF UriNext
<1>3. UriInv => PathsComeBack
  BY PathsKept
<1> QED
  BY <1>1, <1>2, <1>3, PTL DEF UriSpec

=============================================================================
