----------------------------- MODULE StreamProofs -----------------------------
(***************************************************************************)
(* Reading a retrieval stream, for every length of the stream, every cut   *)
(* into chunks and every way it ends.                                      *)
(***************************************************************************)
EXTENDS RelocationProofs, SequenceTheorems

Token == R!Data \cup {"comment", "cr", "lf"}

-----------------------------------------------------------------------------
(***************************************************************************)
(* The data events of a text.  h reads s when it counts them up, token     *)
(* after token.                                                            *)
(***************************************************************************)

Reads(s, h) ==
  /\ h \in [0 .. Len(s) -> Seq(R!Data)]
  /\ h[0] = <<>>
  /\ \A n \in 1 .. Len(s) :
       h[n] = IF R!IsData(s[n]) THEN Append(h[n - 1], s[n]) ELSE h[n - 1]

Recursion(s, h) ==
  h = [n \in 0 .. Len(s) |->
         IF n = 0 THEN <<>>
         ELSE IF R!IsData(s[n]) THEN Append(h[n - 1], s[n]) ELSE h[n - 1]]

\* Whatever reads a text ends with its data.
LEMMA DataRead ==
  ASSUME NEW s \in Seq(Token), NEW h, Reads(s, h)
  PROVE  R!DataIn(s) = h[Len(s)]
<1> DEFINE g == CHOOSE f : Recursion(s, f)
<1>1. Recursion(s, h)
  <2>1. h = [n \in 0 .. Len(s) |-> h[n]]
    BY DEF Reads
  <2>2. ASSUME NEW n \in 0 .. Len(s)
        PROVE  h[n] = IF n = 0 THEN <<>>
                      ELSE IF R!IsData(s[n]) THEN Append(h[n - 1], s[n])
                      ELSE h[n - 1]
    <3>1. CASE n = 0
      BY <3>1 DEF Reads
    <3>2. CASE n # 0
      <4>1. n \in 1 .. Len(s)
        BY <3>2, LenProperties
      <4>. QED BY <3>2, <4>1, Zenon DEF Reads
    <3>. QED BY <3>1, <3>2
  <2>. QED BY <2>1, <2>2, Zenon DEF Recursion
<1>2. R!DataIn(s) = g[Len(s)]
  BY DEF R!DataIn, Recursion
<1>3. Recursion(s, g)
  BY <1>1, Zenon
<1> HIDE DEF g
<1>4. Len(s) \in Nat
  BY LenProperties
<1> DEFINE differ == {n \in 1 .. Len(s) : g[n] # h[n]}
<1>5. /\ g[0] = h[0]
      /\ \A n \in 1 .. Len(s) : g[n - 1] = h[n - 1] => g[n] = h[n]
  <2>1. ASSUME NEW n \in 0 .. Len(s)
        PROVE  g[n] = IF n = 0 THEN <<>>
                      ELSE IF R!IsData(s[n]) THEN Append(g[n - 1], s[n])
                      ELSE g[n - 1]
    BY <1>3, Zenon DEF Recursion
  <2>2. 0 \in 0 .. Len(s) /\ h[0] = <<>>
    BY <1>4 DEF Reads
  <2>3. ASSUME NEW n \in 1 .. Len(s), g[n - 1] = h[n - 1]
        PROVE  g[n] = h[n]
    <3>1. n \in 0 .. Len(s) /\ n # 0
      BY <1>4
    <3>2. h[n] = IF R!IsData(s[n]) THEN Append(h[n - 1], s[n])
                                   ELSE h[n - 1]
      BY DEF Reads
    <3>. QED BY <2>1, <2>3, <3>1, <3>2
  <2>. QED BY <2>1, <2>2, <2>3
<1>6. differ = {}
  <2>1. SUFFICES ASSUME differ # {} PROVE FALSE
    OBVIOUS
  <2>2. differ \in SUBSET (1 .. Len(s))
    OBVIOUS
  <2> HIDE DEF differ
  <2>3. PICK x \in differ : \A y \in differ : x <= y
    BY <1>4, <2>1, <2>2, LeastOf
  <2> USE DEF differ
  <2>4. x \in 1 .. Len(s) /\ g[x] # h[x]
    OBVIOUS
  <2>5. CASE x = 1
    BY <1>5, <2>4, <2>5
  <2>6. CASE x # 1
    <3>1. x - 1 \in 1 .. Len(s) /\ x - 1 < x
      BY <1>4, <2>4, <2>6
    <3>2. g[x - 1] = h[x - 1]
      BY <2>3, <3>1, <1>4
    <3>. QED BY <1>5, <2>4, <3>2
  <2>. QED BY <2>5, <2>6
<1>. QED BY <1>2, <1>4, <1>5, <1>6

\* One token more.
LEMMA ReadsOn ==
  ASSUME NEW s \in Seq(Token), NEW h, Reads(s, h), NEW e \in Token
  PROVE  \E f : /\ Reads(Append(s, e), f)
                /\ f[Len(s) + 1] = IF R!IsData(e) THEN Append(h[Len(s)], e)
                                                 ELSE h[Len(s)]
<1> DEFINE r == IF R!IsData(e) THEN Append(h[Len(s)], e) ELSE h[Len(s)]
           f == [n \in 0 .. Len(s) + 1 |-> IF n <= Len(s) THEN h[n] ELSE r]
           t == Append(s, e)
<1>1. /\ Len(s) \in Nat /\ Len(t) = Len(s) + 1
      /\ t[Len(s) + 1] = e /\ \A n \in 1 .. Len(s) : t[n] = s[n]
  BY AppendProperties, LenProperties
<1>2. r \in Seq(R!Data)
  <2>1. h[Len(s)] \in Seq(R!Data)
    BY <1>1 DEF Reads
  <2>2. R!IsData(e) => e \in R!Data
    BY DEF R!IsData
  <2>. QED BY <2>1, <2>2, AppendProperties
<1>3. f[Len(s) + 1] = r
  BY <1>1
<1>4. f \in [0 .. Len(t) -> Seq(R!Data)]
  <2> HIDE DEF r, t
  <2>. QED BY <1>1, <1>2 DEF Reads
<1>5. f[0] = <<>>
  BY <1>1 DEF Reads
<1>6. ASSUME NEW n \in 1 .. Len(t)
      PROVE  f[n] = IF R!IsData(t[n]) THEN Append(f[n - 1], t[n])
                                      ELSE f[n - 1]
  <2>1. n - 1 \in 0 .. Len(s) /\ f[n - 1] = h[n - 1]
    BY <1>1
  <2>2. CASE n = Len(s) + 1
    <3>1. t[n] = e /\ f[n] = r /\ f[n - 1] = h[Len(s)]
      BY <1>1, <1>3, <2>1, <2>2
    <3> HIDE DEF f, t
    <3>. QED BY <3>1
  <2>3. CASE n \in 1 .. Len(s)
    <3>1. t[n] = s[n] /\ f[n] = h[n]
      BY <1>1, <2>3
    <3> HIDE DEF f, t
    <3>. QED BY <2>1, <2>3, <3>1 DEF Reads
  <2>. QED BY <1>1, <2>2, <2>3
<1>7. Reads(t, f)
  <2> HIDE DEF f, t
  <2>. QED BY <1>4, <1>5, <1>6 DEF Reads
<1> HIDE DEF f
<1>. QED BY <1>3, <1>7

LEMMA EmptyRead == Reads(<<>>, [n \in 0 .. 0 |-> <<>>])
<1>1. <<>> \in Seq(R!Data) /\ Len(<<>>) = 0
  BY EmptySeq
<1>. QED BY <1>1 DEF Reads

\* Every text can be read.
LEMMA Readable ==
  ASSUME NEW s \in Seq(Token)
  PROVE  \E h : Reads(s, h)
<1> DEFINE bad == {n \in 1 .. Len(s) : ~\E h : Reads(SubSeq(s, 1, n), h)}
<1>1. Len(s) \in Nat
  BY LenProperties
<1>2. bad = {}
  <2>1. SUFFICES ASSUME bad # {} PROVE FALSE
    OBVIOUS
  <2>2. bad \in SUBSET (1 .. Len(s))
    OBVIOUS
  <2> HIDE DEF bad
  <2>3. PICK x \in bad : \A y \in bad : x <= y
    BY <1>1, <2>1, <2>2, LeastOf
  <2> USE DEF bad
  <2>4. x \in 1 .. Len(s) /\ ~\E h : Reads(SubSeq(s, 1, x), h)
    OBVIOUS
  <2>5. \E h : Reads(SubSeq(s, 1, x - 1), h)
    <3>1. CASE x = 1
      <4>1. SubSeq(s, 1, x - 1) = <<>>
        BY <3>1, SubSeqEmpty
      <4>. QED BY <4>1, EmptyRead
    <3>2. CASE x # 1
      <4>1. x - 1 \in 1 .. Len(s) /\ x - 1 < x
        BY <1>1, <2>4, <3>2
      <4>. QED BY <2>3, <4>1, <1>1
    <3>. QED BY <3>1, <3>2
  <2>6. /\ SubSeq(s, 1, x - 1) \in Seq(Token) /\ s[x] \in Token
        /\ SubSeq(s, 1, x) = Append(SubSeq(s, 1, x - 1), s[x])
    <3>1. s[x] \in Token
      BY <2>4, ElementOfSeq
    <3>2. SubSeq(s, 1, x) = Append(SubSeq(s, 1, x - 1), s[x])
      BY <1>1, <2>4, SubSeqRecursiveSecond
    <3>3. SubSeq(s, 1, x - 1) \in Seq(Token)
      BY <1>1, <2>4, SubSeqProperties
    <3>. QED BY <3>1, <3>2, <3>3
  <2> HIDE DEF bad
  <2>. QED BY <2>4, <2>5, <2>6, ReadsOn
<1>3. CASE s = <<>>
  BY <1>3, EmptyRead
<1>4. CASE s # <<>>
  <2>1. Len(s) \in 1 .. Len(s) /\ SubSeq(s, 1, Len(s)) = s
    BY <1>1, <1>4, SubSeqFull, EmptySeq
  <2>. QED BY <1>2, <2>1
<1>. QED BY <1>3, <1>4

LEMMA DataTyped ==
  ASSUME NEW s \in Seq(Token)
  PROVE  R!DataIn(s) \in Seq(R!Data)
<1>1. PICK h : Reads(s, h)
  BY Readable
<1>2. Len(s) \in Nat
  BY LenProperties
<1>. QED BY <1>1, <1>2, DataRead DEF Reads

LEMMA DataOnward ==
  ASSUME NEW s \in Seq(Token), NEW e \in Token
  PROVE  R!DataIn(Append(s, e)) = IF R!IsData(e) THEN Append(R!DataIn(s), e)
                                                 ELSE R!DataIn(s)
<1>1. PICK h : Reads(s, h)
  BY Readable
<1>2. PICK f : /\ Reads(Append(s, e), f)
               /\ f[Len(s) + 1] = IF R!IsData(e) THEN Append(h[Len(s)], e)
                                                ELSE h[Len(s)]
  BY <1>1, ReadsOn
<1>3. Append(s, e) \in Seq(Token) /\ Len(Append(s, e)) = Len(s) + 1
  BY AppendProperties
<1>4. R!DataIn(s) = h[Len(s)]
  BY <1>1, DataRead
<1>5. R!DataIn(Append(s, e)) = f[Len(s) + 1]
  BY <1>2, <1>3, DataRead
<1>. QED BY <1>2, <1>4, <1>5

\* A text without data has none.
LEMMA NoData ==
  ASSUME NEW s \in Seq(Token), \A n \in 1 .. Len(s) : ~R!IsData(s[n])
  PROVE  R!DataIn(s) = <<>>
<1> DEFINE h == [n \in 0 .. Len(s) |-> <<>>]
<1>1. Len(s) \in Nat /\ <<>> \in Seq(R!Data)
  BY LenProperties, EmptySeq
<1>2. Reads(s, h)
  BY <1>1 DEF Reads
<1>. QED BY <1>1, <1>2, DataRead

\* One with data at a single place has that.
LEMMA SingleDatum ==
  ASSUME NEW s \in Seq(Token), NEW a \in 1 .. Len(s), R!IsData(s[a]),
         \A n \in 1 .. Len(s) : R!IsData(s[n]) => n = a
  PROVE  R!DataIn(s) = <<s[a]>>
<1> DEFINE h == [n \in 0 .. Len(s) |-> IF n < a THEN <<>> ELSE <<s[a]>>]
<1>1. Len(s) \in Nat /\ <<>> \in Seq(R!Data)
  BY LenProperties, EmptySeq
<1>2. <<s[a]>> \in Seq(R!Data) /\ Append(<<>>, s[a]) = <<s[a]>>
  BY DEF R!IsData
<1>3. h \in [0 .. Len(s) -> Seq(R!Data)] /\ h[0] = <<>>
  BY <1>1, <1>2
<1>4. ASSUME NEW n \in 1 .. Len(s)
      PROVE  h[n] = IF R!IsData(s[n]) THEN Append(h[n - 1], s[n])
                                      ELSE h[n - 1]
  <2>1. CASE n = a
    <3>1. h[n - 1] = <<>> /\ h[n] = <<s[a]>>
      BY <1>1, <2>1
    <3> HIDE DEF h
    <3>. QED BY <1>2, <2>1, <3>1
  <2>2. CASE n # a
    <3>1. h[n - 1] = h[n]
      BY <1>1, <2>2
    <3> HIDE DEF h
    <3>. QED BY <2>2, <3>1
  <2>. QED BY <2>1, <2>2
<1>5. Reads(s, h)
  <2> HIDE DEF h
  <2>. QED BY <1>3, <1>4 DEF Reads
<1>6. R!DataIn(s) = h[Len(s)]
  <2> HIDE DEF h
  <2>. QED BY <1>5, DataRead
<1>. QED BY <1>1, <1>6

LEMMA AppendBoth ==
  ASSUME NEW T, NEW s \in Seq(T), NEW t \in Seq(T), NEW e \in T
  PROVE  s \o Append(t, e) = Append(s \o t, e)
<1>1. /\ s \o Append(t, e) \in Seq(T) /\ Append(s \o t, e) \in Seq(T)
      /\ Len(s \o Append(t, e)) = Len(Append(s \o t, e))
  BY ConcatProperties, AppendProperties
<1>2. ASSUME NEW n \in 1 .. Len(s \o Append(t, e))
      PROVE  (s \o Append(t, e))[n] = Append(s \o t, e)[n]
  OBVIOUS
<1>. QED BY <1>1, <1>2, SeqEqual

\* The data of two texts, one after the other.
LEMMA DataOfBoth ==
  ASSUME NEW s \in Seq(Token), NEW t \in Seq(Token)
  PROVE  R!DataIn(s \o t) = R!DataIn(s) \o R!DataIn(t)
<1> DEFINE p(n) == SubSeq(t, 1, n)
           bad == {n \in 1 .. Len(t) :
                     R!DataIn(s \o p(n)) # R!DataIn(s) \o R!DataIn(p(n))}
<1>1. /\ Len(s) \in Nat /\ Len(t) \in Nat
      /\ R!DataIn(s) \in Seq(R!Data)
  BY LenProperties, DataTyped
<1>2. /\ R!DataIn(<<>>) = <<>> /\ s \o <<>> = s
      /\ R!DataIn(s) \o <<>> = R!DataIn(s)
  <2>1. <<>> \in Seq(Token) /\ Len(<<>>) = 0
    BY EmptySeq
  <2>2. R!DataIn(<<>>) = <<>>
    <3>1. ASSUME NEW e \in Seq(Token), Len(e) = 0
          PROVE  R!DataIn(e) = <<>>
      <4>1. \A n \in 1 .. Len(e) : ~R!IsData(e[n])
        BY <3>1
      <4>. QED BY <4>1, NoData
    <3>. QED BY <2>1, <3>1
  <2>. QED BY <1>1, <2>2, ConcatEmptySeq
<1>3. bad = {}
  <2>1. SUFFICES ASSUME bad # {} PROVE FALSE
    OBVIOUS
  <2>2. bad \in SUBSET (1 .. Len(t))
    OBVIOUS
  <2> HIDE DEF bad
  <2>3. PICK x \in bad : \A y \in bad : x <= y
    BY <1>1, <2>1, <2>2, LeastOf
  <2> USE DEF bad
  <2>4. /\ x \in 1 .. Len(t)
        /\ R!DataIn(s \o p(x)) # R!DataIn(s) \o R!DataIn(p(x))
    OBVIOUS
  <2>5. R!DataIn(s \o p(x - 1)) = R!DataIn(s) \o R!DataIn(p(x - 1))
    <3>1. CASE x = 1
      <4>1. p(x - 1) = <<>>
        BY <3>1, SubSeqEmpty
      <4>. QED BY <1>2, <4>1
    <3>2. CASE x # 1
      <4>1. x - 1 \in 1 .. Len(t) /\ x - 1 < x
        BY <1>1, <2>4, <3>2
      <4>. QED BY <2>3, <4>1, <1>1
    <3>. QED BY <3>1, <3>2
  <2>6. /\ p(x - 1) \in Seq(Token) /\ t[x] \in Token
        /\ p(x) = Append(p(x - 1), t[x])
    <3>1. t[x] \in Token
      BY <2>4, ElementOfSeq
    <3>2. p(x) = Append(p(x - 1), t[x])
      BY <1>1, <2>4, SubSeqRecursiveSecond
    <3>3. p(x - 1) \in Seq(Token)
      BY <1>1, <2>4, SubSeqProperties
    <3>. QED BY <3>1, <3>2, <3>3
  <2> HIDE DEF bad, p
  <2>7. /\ s \o p(x - 1) \in Seq(Token)
        /\ s \o p(x) = Append(s \o p(x - 1), t[x])
    BY <2>6
  <2>8. R!DataIn(p(x - 1)) \in Seq(R!Data)
    BY <2>6, DataTyped
  <2>9. R!DataIn(s \o p(x)) = R!DataIn(s) \o R!DataIn(p(x))
    <3>1. CASE R!IsData(t[x])
      <4>1. /\ R!DataIn(p(x)) = Append(R!DataIn(p(x - 1)), t[x])
            /\ R!DataIn(s \o p(x)) = Append(R!DataIn(s \o p(x - 1)), t[x])
        BY <2>6, <2>7, <3>1, DataOnward
      <4>2. t[x] \in R!Data
        BY <3>1 DEF R!IsData
      <4>3. R!DataIn(s) \o Append(R!DataIn(p(x - 1)), t[x])
              = Append(R!DataIn(s) \o R!DataIn(p(x - 1)), t[x])
        BY SMTT(30), <1>1, <2>8, <4>2, AppendBoth
      <4>. QED BY <2>5, <4>1, <4>3, Zenon
    <3>2. CASE ~R!IsData(t[x])
      <4>1. /\ R!DataIn(p(x)) = R!DataIn(p(x - 1))
            /\ R!DataIn(s \o p(x)) = R!DataIn(s \o p(x - 1))
        BY <2>6, <2>7, <3>2, DataOnward
      <4>. QED BY <2>5, <4>1
    <3>. QED BY <3>1, <3>2
  <2>. QED BY <2>4, <2>9
<1>4. CASE t = <<>>
  BY <1>2, <1>4
<1>5. CASE t # <<>>
  <2>1. Len(t) \in 1 .. Len(t) /\ p(Len(t)) = t
    BY <1>1, <1>5, SubSeqFull, EmptySeq
  <2>. QED BY <1>3, <2>1
<1>. QED BY <1>4, <1>5

-----------------------------------------------------------------------------
(***************************************************************************)
(* Empty lines.                                                            *)
(***************************************************************************)

\* Between two data of a text there is an empty line.
Apart(text) ==
  \A x, y \in 1 .. Len(text) :
    x < y /\ R!IsData(text[x]) /\ R!IsData(text[y]) =>
      \E k \in x .. y : R!EmptyLine(text, k)

\* An empty line lies within its text, and holds no data.
LEMMA EmptyLineSpan ==
  ASSUME NEW s \in Seq(Token), NEW i \in Nat, R!EmptyLine(s, i)
  PROVE  /\ i \in 1 .. Len(s) /\ R!SecondFeed(s, i) \in i + 1 .. Len(s)
         /\ R!SecondFeed(s, i) <= i + 2
         /\ \A n \in i .. R!SecondFeed(s, i) : ~R!IsData(s[n])
<1>1. Len(s) \in Nat
  BY LenProperties
<1>2. i \in 1 .. Len(s) /\ s[i] = "lf"
  BY DEF R!EmptyLine, R!At
<1>3. /\ R!SecondFeed(s, i) \in {i + 1, i + 2}
      /\ R!SecondFeed(s, i) \in 1 .. Len(s) /\ s[R!SecondFeed(s, i)] = "lf"
      /\ R!SecondFeed(s, i) = i + 2 => s[i + 1] = "cr"
  BY <1>1, <1>2 DEF R!EmptyLine, R!SecondFeed, R!At
<1>4. ASSUME NEW n \in i .. R!SecondFeed(s, i)
      PROVE  s[n] \in {"cr", "lf"}
  BY <1>1, <1>2, <1>3
<1>. QED BY <1>1, <1>2, <1>3, <1>4 DEF R!IsData, R!Data

\* A text that grows keeps its empty lines ...
LEMMA EmptyLineStays ==
  ASSUME NEW s \in Seq(Token), NEW t \in Seq(Token), NEW i \in Nat,
         R!EmptyLine(s, i)
  PROVE  R!EmptyLine(s \o t, i)
<1>1. /\ Len(s) \in Nat /\ Len(t) \in Nat
      /\ Len(s \o t) = Len(s) + Len(t)
      /\ \A n \in 1 .. Len(s) : (s \o t)[n] = s[n]
  BY LenProperties, ConcatProperties
<1>2. /\ i \in 1 .. Len(s) /\ R!SecondFeed(s, i) \in i + 1 .. Len(s)
  BY EmptyLineSpan
<1>3. \A n \in 1 .. Len(s) : R!At(s \o t, n) = R!At(s, n)
  BY <1>1 DEF R!At
<1>4. i + 1 \in 1 .. Len(s)
  BY <1>1, <1>2
<1>5. R!SecondFeed(s \o t, i) = R!SecondFeed(s, i)
  BY <1>3, <1>4 DEF R!SecondFeed
<1>6. R!SecondFeed(s, i) \in 1 .. Len(s)
  BY <1>1, <1>2
<1>. QED BY <1>2, <1>3, <1>5, <1>6 DEF R!EmptyLine

\* ... and gets none where three tokens were there.
LEMMA EmptyLineComes ==
  ASSUME NEW s \in Seq(Token), NEW t \in Seq(Token), NEW i \in 1 .. Len(s),
         R!EmptyLine(s \o t, i), R!SecondFeed(s \o t, i) <= Len(s)
  PROVE  R!EmptyLine(s, i)
<1>1. /\ Len(s) \in Nat /\ Len(t) \in Nat
      /\ Len(s \o t) = Len(s) + Len(t)
      /\ \A n \in 1 .. Len(s) : (s \o t)[n] = s[n]
  BY LenProperties, ConcatProperties
<1>2. s \o t \in Seq(Token)
  BY ConcatProperties
<1>3. \A n \in 1 .. Len(s) : R!At(s \o t, n) = R!At(s, n)
  BY <1>1 DEF R!At
<1>4. R!SecondFeed(s \o t, i) \in i + 1 .. Len(s)
  <2>1. i \in Nat
    BY <1>1
  <2>2. R!SecondFeed(s \o t, i) \in i + 1 .. Len(s \o t)
    BY <1>2, <2>1, EmptyLineSpan
  <2>. QED BY <1>1, <2>2
<1>5. R!SecondFeed(s \o t, i) = R!SecondFeed(s, i)
  BY <1>1, <1>3, <1>4 DEF R!SecondFeed
<1>6. R!SecondFeed(s, i) \in 1 .. Len(s)
  BY <1>1, <1>4, <1>5
<1>. QED BY <1>3, <1>5, <1>6 DEF R!EmptyLine

\* What is left of a text when its first c tokens are cut off.
LEMMA EmptyLineOfRest ==
  ASSUME NEW s \in Seq(Token), NEW t \in Seq(Token), NEW i \in Nat \ {0}
  PROVE  R!EmptyLine(t, i) <=> R!EmptyLine(s \o t, Len(s) + i)
<1> DEFINE c == Len(s)
           r == s \o t
<1>1. /\ c \in Nat /\ Len(t) \in Nat /\ Len(r) = c + Len(t)
      /\ \A n \in 1 .. Len(t) : r[c + n] = t[n]
  BY LenProperties, ConcatProperties
<1> HIDE DEF c, r
<1>2. \A n \in Nat \ {0} : R!At(r, c + n) = R!At(t, n)
  BY <1>1 DEF R!At
<1>3. /\ i + 1 \in Nat \ {0} /\ i + 2 \in Nat \ {0}
      /\ c + i + 1 = c + (i + 1) /\ c + i + 2 = c + (i + 2)
  BY <1>1
<1>4. R!SecondFeed(r, c + i) = c + R!SecondFeed(t, i)
  <2>1. R!At(r, c + i + 1) = R!At(t, i + 1)
    BY <1>2, <1>3
  <2>. QED BY <1>1, <1>3, <2>1 DEF R!SecondFeed
<1>5. R!SecondFeed(t, i) \in Nat \ {0}
  BY <1>3 DEF R!SecondFeed
<1>6. /\ R!At(r, c + i) = R!At(t, i)
      /\ R!At(r, R!SecondFeed(r, c + i)) = R!At(t, R!SecondFeed(t, i))
  BY <1>2, <1>4, <1>5
<1>. QED BY <1>6 DEF R!EmptyLine, c, r

LEMMA RestApart ==
  ASSUME NEW s \in Seq(Token), NEW t \in Seq(Token), Apart(s \o t)
  PROVE  Apart(t)
<1>1. /\ Len(s) \in Nat /\ Len(t) \in Nat
      /\ Len(s \o t) = Len(s) + Len(t)
      /\ \A n \in 1 .. Len(t) : (s \o t)[Len(s) + n] = t[n]
  BY LenProperties, ConcatProperties
<1>2. SUFFICES ASSUME NEW x \in 1 .. Len(t), NEW y \in 1 .. Len(t), x < y,
                      R!IsData(t[x]), R!IsData(t[y])
               PROVE  \E k \in x .. y : R!EmptyLine(t, k)
  BY DEF Apart
<1>3. PICK k \in Len(s) + x .. Len(s) + y : R!EmptyLine(s \o t, k)
  <2> DEFINE r == s \o t
             a == Len(s) + x
             b == Len(s) + y
  <2>1. /\ a \in 1 .. Len(r) /\ b \in 1 .. Len(r) /\ a < b
        /\ r[a] = t[x] /\ r[b] = t[y]
    BY <1>1, <1>2
  <2>2. Apart(r)
    OBVIOUS
  <2> HIDE DEF r, a, b
  <2>3. \E k \in a .. b : R!EmptyLine(r, k)
    BY <1>2, <2>1, <2>2 DEF Apart
  <2>. QED BY <2>3 DEF r, a, b
<1>4. /\ k - Len(s) \in x .. y /\ k - Len(s) \in Nat \ {0}
      /\ Len(s) + (k - Len(s)) = k
  BY <1>1
<1>5. R!EmptyLine(t, k - Len(s))
  BY <1>3, <1>4, EmptyLineOfRest
<1>. QED BY <1>4, <1>5

-----------------------------------------------------------------------------
(***************************************************************************)
(* Up to the first result.                                                 *)
(***************************************************************************)

LEMMA Joined ==
  ASSUME NEW T, NEW s \in Seq(T), NEW t \in Seq(T)
  PROVE  /\ s \o t \in Seq(T) /\ Len(s) \in Nat /\ Len(t) \in Nat
         /\ Len(s \o t) = Len(s) + Len(t)
         /\ DOMAIN (s \o t) = 1 .. Len(s) + Len(t)
         /\ \A i \in 1 .. Len(s) : (s \o t)[i] = s[i]
         /\ \A i \in 1 .. Len(t) : (s \o t)[Len(s) + i] = t[i]
BY ConcatProperties, LenProperties

NoResultIn(events) == \A i \in 1 .. Len(events) : events[i] # "result"

LEMMA UpToNone ==
  ASSUME NEW events \in Seq(R!Data), NoResultIn(events)
  PROVE  R!UpToResult(events) = events /\ ~R!Contains(events, "result")
<1>1. DOMAIN events = 1 .. Len(events)
  BY LenProperties
<1>2. {i \in DOMAIN events : events[i] = "result"} = {}
  BY <1>1 DEF NoResultIn
<1>. QED BY <1>2 DEF R!UpToResult, R!Contains, NoResultIn

LEMMA UpToFirst ==
  ASSUME NEW s \in Seq(R!Data), NoResultIn(s), NEW t \in Seq(R!Data)
  PROVE  /\ R!UpToResult((s \o <<"result">>) \o t) = s \o <<"result">>
         /\ R!Contains(s \o <<"result">>, "result")
<1> DEFINE e == <<"result">>
           u == s \o e
           r == u \o t
           n == Len(s) + 1
           results == {i \in DOMAIN r : r[i] = "result"}
<1>1. e \in Seq(R!Data) /\ Len(e) = 1 /\ e[1] = "result"
  BY DEF R!Data
<1> HIDE DEF e
<1>2. /\ Len(s) \in Nat /\ Len(t) \in Nat
      /\ u \in Seq(R!Data) /\ Len(u) = n /\ u[n] = "result"
      /\ \A i \in 1 .. Len(s) : u[i] = s[i]
  <2>1. /\ u \in Seq(R!Data) /\ Len(s) \in Nat
        /\ Len(u) = Len(s) + Len(e)
        /\ \A i \in 1 .. Len(s) : u[i] = s[i]
        /\ \A i \in 1 .. Len(e) : u[Len(s) + i] = e[i]
    <3>1. ASSUME NEW f \in Seq(R!Data)
          PROVE  /\ s \o f \in Seq(R!Data) /\ Len(s) \in Nat
                 /\ Len(s \o f) = Len(s) + Len(f)
                 /\ \A i \in 1 .. Len(s) : (s \o f)[i] = s[i]
                 /\ \A i \in 1 .. Len(f) : (s \o f)[Len(s) + i] = f[i]
      BY Joined
    <3>. QED BY <1>1, <3>1
  <2>2. Len(t) \in Nat
    BY LenProperties
  <2> HIDE DEF u
  <2>. QED BY <1>1, <2>1, <2>2
<1> HIDE DEF u
<1>3. /\ r \in Seq(R!Data) /\ Len(r) = n + Len(t)
      /\ DOMAIN r = 1 .. n + Len(t)
      /\ \A i \in 1 .. n : r[i] = u[i]
  <2>1. /\ r \in Seq(R!Data) /\ Len(r) = Len(u) + Len(t)
        /\ DOMAIN r = 1 .. Len(u) + Len(t)
        /\ \A i \in 1 .. Len(u) : r[i] = u[i]
    BY ZenonT(30), <1>2, Joined
  <2> HIDE DEF r, n
  <2>. QED BY <1>2, <2>1
<1>4. n \in results /\ \A i \in results : i \in Nat /\ n <= i
  BY <1>2, <1>3 DEF NoResultIn
<1>5. R!Min(results) = n
  <2> HIDE DEF results, n
  <2>1. \E x \in results : \A y \in results : x <= y
    BY <1>4
  <2>2. ASSUME NEW x \in results, \A y \in results : x <= y
        PROVE  x = n
    BY <1>4, <2>2
  <2>. QED BY <2>1, <2>2 DEF R!Min
<1>6. SubSeq(r, 1, n) = u
  <2>1. n <= Len(r) /\ n \in Nat
    BY <1>2, <1>3
  <2> HIDE DEF r
  <2>2. /\ SubSeq(r, 1, n) \in Seq(R!Data) /\ Len(SubSeq(r, 1, n)) = n
        /\ \A i \in 1 .. n : SubSeq(r, 1, n)[i] = r[i]
    BY <1>3, <2>1
  <2>. QED BY <1>2, <1>3, <2>2, SeqEqual
<1>7. R!UpToResult(r) = u
  <2>1. results # {}
    BY <1>4
  <2> HIDE DEF r, n
  <2>. QED BY <1>5, <1>6, <2>1 DEF R!UpToResult
<1>8. R!Contains(u, "result")
  BY <1>2 DEF R!Contains
<1>. QED BY <1>7, <1>8 DEF r, u, e

-----------------------------------------------------------------------------
(***************************************************************************)
(* The invariant.  While the stream is read, what was handed on and what   *)
(* the buffer and the wire still hold make up what was sent; the data of   *)
(* the rest lie apart; and the scan begins after no empty line, nor less   *)
(* than two tokens before the end, where one might still be completed.     *)
(***************************************************************************)

Streaming == rPc \in {"read", "scan", "flush"}

Rest == rBuffer \o rWire

Remaining ==
  /\ rSent = rDelivered \o R!DataIn(Rest)
  /\ NoResultIn(rDelivered)
  /\ Apart(Rest)

Scanned ==
  \A i \in 1 .. rScan - 1 :
    ~R!EmptyLine(rBuffer, i) /\ i + 2 <= Len(rBuffer)

Terminates(text) ==
  \A x \in 1 .. Len(text) : R!IsData(text[x]) =>
    \E k \in x .. Len(text) : R!EmptyLine(text, k)

StreamInv ==
  /\ R!TypeOK
  /\ Streaming => Remaining /\ Scanned
  /\ rPc = "flush" => rWire = <<>> /\ Terminates(rBuffer)
  /\ ~Streaming => R!DeliveredAsSent
  /\ R!NoFrameWaits

LEMMA StreamTypes ==
  R!TypeOK <=>
    /\ rWire \in Seq(Token) /\ rBuffer \in Seq(Token)
    /\ rScan \in Nat \ {0}
    /\ rSent \in Seq(R!Data) /\ rDelivered \in Seq(R!Data)
    /\ rPc \in {"read", "scan", "flush", "result", "noResult", "malformed",
                "broken"}
BY DEF R!TypeOK, Token, R!Ended

LEMMA StreamGoal ==
  ASSUME StreamInv
  PROVE  R!DeliveredAsSent
<1>1. CASE Streaming
  <2>1. ~R!Contains(rDelivered, "result")
    BY <1>1 DEF StreamInv, Remaining, NoResultIn, R!Contains
  <2>. QED BY <1>1, <2>1 DEF Streaming, StreamInv, R!DeliveredAsSent
<1>. QED BY <1>1 DEF StreamInv

\* The scan has met no empty line in a text that grows.
LEMMA ScannedStays ==
  ASSUME R!TypeOK, Scanned, NEW t \in Seq(Token)
  PROVE  \A i \in 1 .. rScan - 1 :
           ~R!EmptyLine(rBuffer \o t, i) /\ i + 2 <= Len(rBuffer \o t)
<1>1. /\ rBuffer \in Seq(Token) /\ rScan \in Nat
      /\ Len(rBuffer) \in Nat /\ Len(t) \in Nat
      /\ Len(rBuffer \o t) = Len(rBuffer) + Len(t)
  BY StreamTypes, Joined
<1>2. SUFFICES ASSUME NEW i \in 1 .. rScan - 1, R!EmptyLine(rBuffer \o t, i)
               PROVE  FALSE
  <2>1. ASSUME NEW i \in 1 .. rScan - 1
        PROVE  i + 2 <= Len(rBuffer \o t)
    <3>1. i + 2 <= Len(rBuffer)
      BY DEF Scanned
    <3>2. i \in Int
      BY <1>1
    <3>. QED BY <1>1, <3>1, <3>2
  <2>. QED BY <2>1
<1>3. i + 2 <= Len(rBuffer) /\ i \in 1 .. Len(rBuffer) /\ i \in Nat
  BY SMTT(30), <1>1 DEF Scanned
<1>4. R!SecondFeed(rBuffer \o t, i) <= Len(rBuffer)
  BY <1>1, <1>3 DEF R!SecondFeed
<1>5. R!EmptyLine(rBuffer, i)
  BY <1>1, <1>2, <1>3, <1>4, EmptyLineComes
<1>. QED BY <1>5 DEF Scanned

LEMMA ChunkStep ==
  ASSUME StreamInv, R!Read
  PROVE  StreamInv'
<1>1. /\ rWire \in Seq(Token) /\ rBuffer \in Seq(Token) /\ R!TypeOK
      /\ rPc = "read" /\ Remaining /\ Scanned /\ Len(rWire) \in Nat
  <2>1. rWire \in Seq(Token) /\ rBuffer \in Seq(Token) /\ R!TypeOK
    BY StreamTypes DEF StreamInv
  <2>2. rPc = "read"
    BY DEF R!Read
  <2>. QED BY <2>1, <2>2, LenProperties DEF StreamInv, Streaming
<1>2. PICK n \in 1 .. Len(rWire) :
        /\ rBuffer' = rBuffer \o SubSeq(rWire, 1, n)
        /\ rWire' = SubSeq(rWire, n + 1, Len(rWire))
  BY DEF R!Read
<1>3. rPc' = "scan" /\ UNCHANGED <<rScan, rSent, rDelivered>>
  BY DEF R!Read
<1> DEFINE chunk == SubSeq(rWire, 1, n)
           left == SubSeq(rWire, n + 1, Len(rWire))
<1>4. chunk \in Seq(Token) /\ left \in Seq(Token) /\ rWire = chunk \o left
  BY <1>1
<1> HIDE DEF chunk, left
<1>5. Rest' = Rest
  <2>1. rBuffer' = rBuffer \o chunk /\ rWire' = left
    BY <1>2 DEF chunk, left
  <2>2. (rBuffer \o chunk) \o left = rBuffer \o (chunk \o left)
    BY SMTT(30), <1>1, <1>4, ConcatAssociative
  <2>. QED BY <1>4, <2>1, <2>2 DEF Rest
<1>6. rBuffer' \in Seq(Token) /\ rWire' \in Seq(Token)
  BY <1>1, <1>2, <1>4, Joined DEF chunk, left
<1>7. R!TypeOK'
  BY <1>1, <1>3, <1>6 DEF R!TypeOK, Token
<1>8. Remaining'
  BY <1>1, <1>3, <1>5 DEF Remaining
<1>9. Scanned'
  BY <1>1, <1>2, <1>3, <1>4, ScannedStays DEF Scanned, chunk
<1>. QED BY <1>3, <1>7, <1>8, <1>9
         DEF StreamInv, Streaming, R!NoFrameWaits

LEMMA BodyFails ==
  ASSUME StreamInv, R!ReadFails
  PROVE  StreamInv'
<1>1. /\ rPc = "read" /\ rPc' = "broken" /\ Remaining /\ R!TypeOK
      /\ UNCHANGED <<rWire, rBuffer, rScan, rSent, rDelivered>>
  BY DEF R!ReadFails, StreamInv, Streaming
<1>2. R!TypeOK'
  BY <1>1 DEF R!TypeOK, R!Ended
<1>3. ~R!Contains(rDelivered, "result")
  BY <1>1 DEF Remaining, NoResultIn, R!Contains
<1>. QED BY <1>1, <1>2, <1>3
         DEF StreamInv, Streaming, R!DeliveredAsSent, R!NoFrameWaits

\* A stream that ends without a result, with nothing left to hand on.
LEMMA EndsWithout ==
  ASSUME StreamInv, Streaming, R!DataIn(Rest) = <<>>, rPc' = "noResult",
         UNCHANGED <<rSent, rDelivered>>
  PROVE  ~Streaming' /\ R!DeliveredAsSent'
<1>1. rDelivered \in Seq(R!Data) /\ Remaining
  BY StreamTypes DEF StreamInv
<1>2. rSent = rDelivered
  BY <1>1, ConcatEmptySeq DEF Remaining
<1>3. R!UpToResult(rSent) = rDelivered /\ ~R!Contains(rDelivered, "result")
  BY <1>1, <1>2, UpToNone DEF Remaining
<1>. QED BY <1>3 DEF Streaming, R!DeliveredAsSent, R!NoFrameWaits

LEMMA BodyEnds ==
  ASSUME StreamInv, R!ReadEnd
  PROVE  StreamInv'
<1>1. /\ rPc = "read" /\ rWire = <<>> /\ rBuffer \in Seq(Token)
      /\ Remaining /\ Scanned /\ R!TypeOK /\ Streaming
      /\ Len(rBuffer) \in Nat /\ DOMAIN rBuffer = 1 .. Len(rBuffer)
  BY StreamTypes, LenProperties DEF StreamInv, R!ReadEnd, Streaming
<1>2. UNCHANGED <<rWire, rScan, rSent, rDelivered>>
  BY DEF R!ReadEnd
<1>3. Rest = rBuffer
  BY <1>1, ConcatEmptySeq DEF Rest
<1>4. CASE \A i \in DOMAIN rBuffer : rBuffer[i] \in {"cr", "lf"}
  <2>1. rPc' = "noResult" /\ rBuffer' = rBuffer
    BY <1>4 DEF R!ReadEnd
  <2>2. R!DataIn(Rest) = <<>>
    <3>1. \A i \in 1 .. Len(rBuffer) : ~R!IsData(rBuffer[i])
      BY <1>1, <1>4 DEF R!IsData, R!Data
    <3>. QED BY <1>1, <1>3, <3>1, NoData
  <2>3. ~Streaming' /\ R!DeliveredAsSent'
    BY <1>1, <1>2, <2>1, <2>2, EndsWithout
  <2>4. R!TypeOK'
    BY <1>1, <1>2, <2>1 DEF R!TypeOK, R!Ended
  <2>. QED BY <2>1, <2>3, <2>4 DEF StreamInv, R!DeliveredAsSent
<1>5. CASE ~\A i \in DOMAIN rBuffer : rBuffer[i] \in {"cr", "lf"}
  <2> DEFINE feeds == <<"lf", "lf">>
             b == rBuffer \o feeds
             n == Len(rBuffer)
  <2>1. rPc' = "flush" /\ rBuffer' = b
    BY <1>5 DEF R!ReadEnd
  <2>2. /\ feeds \in Seq(Token) /\ Len(feeds) = 2
        /\ feeds[1] = "lf" /\ feeds[2] = "lf"
    BY DEF Token
  <2> HIDE DEF feeds
  <2>3. /\ b \in Seq(Token) /\ Len(b) = n + 2
        /\ \A i \in 1 .. n : b[i] = rBuffer[i]
        /\ b[n + 1] = "lf" /\ b[n + 2] = "lf"
    <3>1. /\ b \in Seq(Token) /\ Len(b) = n + Len(feeds)
          /\ \A i \in 1 .. n : b[i] = rBuffer[i]
          /\ \A i \in 1 .. Len(feeds) : b[n + i] = feeds[i]
      <4>1. ASSUME NEW f \in Seq(Token)
            PROVE  /\ rBuffer \o f \in Seq(Token)
                   /\ Len(rBuffer \o f) = n + Len(f)
                   /\ \A i \in 1 .. n : (rBuffer \o f)[i] = rBuffer[i]
                   /\ \A i \in 1 .. Len(f) : (rBuffer \o f)[n + i] = f[i]
        BY <1>1, Joined
      <4>. QED BY <2>2, <4>1
    <3>. QED BY <2>2, <3>1
  <2>4. R!DataIn(b) = R!DataIn(rBuffer)
    <3>1. R!DataIn(feeds) = <<>>
      <4>1. \A i \in 1 .. Len(feeds) : ~R!IsData(feeds[i])
        BY <2>2 DEF R!IsData, R!Data
      <4>. QED BY <2>2, <4>1, NoData
    <3>2. R!DataIn(b) = R!DataIn(rBuffer) \o R!DataIn(feeds)
      BY <1>1, <2>2, DataOfBoth
    <3>. QED BY <1>1, <3>1, <3>2, DataTyped, ConcatEmptySeq
  <2>5. Scanned'
    BY <1>1, <1>2, <2>1, <2>2, ScannedStays DEF Scanned
  <2>6. \A x \in 1 .. Len(b) : R!IsData(b[x]) =>
          x \in 1 .. n /\ R!IsData(rBuffer[x])
    BY <1>1, <2>3 DEF R!IsData, R!Data
  <2>7. Apart(b)
    <3>1. SUFFICES ASSUME NEW x \in 1 .. Len(b), NEW y \in 1 .. Len(b),
                          x < y, R!IsData(b[x]), R!IsData(b[y])
                   PROVE  \E k \in x .. y : R!EmptyLine(b, k)
      BY DEF Apart
    <3>2. PICK k \in x .. y : R!EmptyLine(rBuffer, k)
      BY <1>1, <1>3, <2>6, <3>1 DEF Remaining, Apart
    <3>3. k \in Nat
      BY <2>6, <3>1
    <3>. QED BY <1>1, <2>2, <3>2, <3>3, EmptyLineStays
  <2>8. Terminates(b)
    <3>1. R!EmptyLine(b, n + 1)
      <4>1. /\ n + 1 \in 1 .. Len(b) /\ n + 2 \in 1 .. Len(b)
            /\ n + 1 + 1 = n + 2
        BY <1>1, <2>3
      <4>2. R!At(b, n + 1) = "lf" /\ R!At(b, n + 2) = "lf"
        BY <2>3, <4>1 DEF R!At
      <4>3. R!SecondFeed(b, n + 1) = n + 2
        BY <4>1, <4>2 DEF R!SecondFeed
      <4>. QED BY <4>2, <4>3 DEF R!EmptyLine
    <3>2. ASSUME NEW x \in 1 .. Len(b), R!IsData(b[x])
          PROVE  n + 1 \in x .. Len(b)
      BY <1>1, <2>3, <2>6, <3>2
    <3>. QED BY <3>1, <3>2 DEF Terminates
  <2> HIDE DEF b
  <2>9. Rest' = b /\ rWire' = <<>>
    BY <1>1, <1>2, <2>1, <2>3, ConcatEmptySeq DEF Rest
  <2>10. Remaining'
    BY <1>1, <1>2, <1>3, <2>4, <2>7, <2>9 DEF Remaining
  <2>11. R!TypeOK'
    BY <1>1, <1>2, <2>1, <2>3 DEF R!TypeOK, Token
  <2>. QED BY <2>1, <2>5, <2>8, <2>9, <2>10, <2>11
           DEF StreamInv, Streaming, R!NoFrameWaits
<1>. QED BY <1>4, <1>5

\* The empty line at which the first frame is cut off: no earlier one is in
\* the buffer.
LEMMA FirstFrame ==
  ASSUME StreamInv, Streaming, R!Found # {}
  PROVE  /\ R!Min(R!Found) \in 1 .. Len(rBuffer)
         /\ R!EmptyLine(rBuffer, R!Min(R!Found))
         /\ \A j \in 1 .. R!Min(R!Found) - 1 : ~R!EmptyLine(rBuffer, j)
<1>1. /\ Len(rBuffer) \in Nat /\ rScan \in Nat \ {0} /\ Scanned
  BY StreamTypes, LenProperties DEF StreamInv
<1>2. R!Found \in SUBSET (1 .. Len(rBuffer))
  BY <1>1 DEF R!Found
<1>3. PICK i \in R!Found : \A j \in R!Found : i <= j
  BY <1>1, <1>2, LeastOf
<1>4. R!Min(R!Found) = i
  <2>1. ASSUME NEW x \in R!Found, \A j \in R!Found : x <= j
        PROVE  x = i
    BY <1>2, <1>3, <2>1
  <2>. QED BY <1>3, <2>1 DEF R!Min
<1>5. R!EmptyLine(rBuffer, i) /\ i \in 1 .. Len(rBuffer) /\ rScan <= i
  BY <1>1, <1>3 DEF R!Found
<1>6. ASSUME NEW j \in 1 .. i - 1
      PROVE  ~R!EmptyLine(rBuffer, j)
  <2>1. CASE j < rScan
    <3>1. j \in 1 .. rScan - 1
      BY <1>1, <1>5, <2>1
    <3>. QED BY <1>1, <3>1 DEF Scanned
  <2>2. CASE ~(j < rScan)
    <3>1. j \in rScan .. Len(rBuffer) /\ ~(i <= j)
      BY <1>1, <1>5, <2>2
    <3>2. j \notin R!Found
      BY <1>3, <3>1
    <3>. QED BY <3>1, <3>2 DEF R!Found
  <2>. QED BY <1>1, <1>5, <2>1, <2>2
<1>. QED BY <1>4, <1>5, <1>6

\* The first frame holds at most one event, and its line ends none.
LEMMA FrameData ==
  ASSUME NEW b \in Seq(Token), NEW w \in Seq(Token), Apart(b \o w),
         NEW i \in 1 .. Len(b), R!EmptyLine(b, i),
         \A j \in 1 .. i - 1 : ~R!EmptyLine(b, j)
  PROVE  LET event == R!DataIn(SubSeq(b, 1, i - 1))
         IN /\ event \in Seq(R!Data)
            /\ event = <<>> \/ \E e \in R!Data : event = <<e>>
            /\ R!DataIn(SubSeq(b, 1, R!SecondFeed(b, i))) = event
<1> DEFINE e == R!SecondFeed(b, i)
           frame == SubSeq(b, 1, i - 1)
           front == SubSeq(b, 1, e)
           r == b \o w
<1>1. /\ Len(b) \in Nat /\ Len(r) \in Nat /\ i \in Nat
      /\ e \in i + 1 .. Len(b)
      /\ \A n \in i .. e : ~R!IsData(b[n])
  BY LenProperties, Joined, EmptyLineSpan
<1>2. /\ r \in Seq(Token) /\ Len(b) <= Len(r)
      /\ \A n \in 1 .. Len(b) : r[n] = b[n]
  BY Joined
<1>3. ASSUME NEW x \in 1 .. e, NEW y \in 1 .. e, x < y,
             R!IsData(b[x]), R!IsData(b[y])
      PROVE  FALSE
  <2>1. /\ x \in 1 .. Len(r) /\ y \in 1 .. Len(r) /\ y < i
        /\ x \in Nat /\ y \in Nat
        /\ R!IsData(r[x]) /\ R!IsData(r[y])
    BY <1>1, <1>2, <1>3
  <2> HIDE DEF e
  <2>2. PICK k \in x .. y : R!EmptyLine(r, k)
    BY <1>3, <2>1 DEF Apart
  <2>3. k \in Nat
    BY <2>1
  <2> HIDE DEF r
  <2>4. /\ R!SecondFeed(r, k) \in k + 1 .. Len(r)
        /\ \A n \in k .. R!SecondFeed(r, k) : ~R!IsData(r[n])
    BY <1>2, <2>2, <2>3, EmptyLineSpan
  <2>5. R!SecondFeed(r, k) < y
    BY <1>1, <2>1, <2>2, <2>3, <2>4
  <2>6. k \in 1 .. Len(b) /\ R!SecondFeed(r, k) <= Len(b) /\ k \in 1 .. i - 1
    BY <1>1, <2>1, <2>3, <2>4, <2>5
  <2>7. R!EmptyLine(b, k)
    BY <2>2, <2>6, EmptyLineComes DEF r
  <2>. QED BY <2>6, <2>7
<1>4. /\ frame \in Seq(Token) /\ Len(frame) = i - 1
      /\ \A n \in 1 .. i - 1 : frame[n] = b[n]
  BY <1>1
<1>5. /\ front \in Seq(Token) /\ Len(front) = e
      /\ \A n \in 1 .. e : front[n] = b[n]
  <2> HIDE DEF e
  <2>. QED BY <1>1
<1> HIDE DEF e, frame, front, r
<1>6. CASE \A n \in 1 .. i - 1 : ~R!IsData(b[n])
  <2>1. \A n \in 1 .. Len(frame) : ~R!IsData(frame[n])
    BY <1>4, <1>6
  <2>2. \A n \in 1 .. Len(front) : ~R!IsData(front[n])
    <3>1. ASSUME NEW n \in 1 .. e
          PROVE  ~R!IsData(b[n])
      <4>1. n \in 1 .. i - 1 \/ n \in i .. e
        BY <1>1
      <4>. QED BY <1>1, <1>6, <4>1
    <3>. QED BY <1>5, <3>1
  <2>3. R!DataIn(frame) = <<>> /\ R!DataIn(front) = <<>>
    BY <1>4, <1>5, <2>1, <2>2, NoData
  <2>. QED BY <2>3, EmptySeq DEF frame, front, e
<1>7. ASSUME NEW a \in 1 .. i - 1, R!IsData(b[a])
      PROVE  /\ R!DataIn(frame) = <<b[a]>> /\ R!DataIn(front) = <<b[a]>>
             /\ b[a] \in R!Data
  <2>1. a \in 1 .. e /\ a \in Nat
    BY <1>1
  <2>2. \A n \in 1 .. e : R!IsData(b[n]) => n = a
    <3>1. ASSUME NEW n \in 1 .. e, R!IsData(b[n]), n # a
          PROVE  FALSE
      <4>1. n < a \/ a < n
        BY <1>1, <2>1, <3>1
      <4>. QED BY <1>3, <1>7, <2>1, <3>1, <4>1
    <3>. QED BY <3>1
  <2>3. R!DataIn(frame) = <<b[a]>>
    <3>1. /\ a \in 1 .. Len(frame) /\ frame[a] = b[a]
          /\ R!IsData(frame[a])
      BY <1>4, <1>7
    <3>2. \A n \in 1 .. Len(frame) : R!IsData(frame[n]) => n = a
      <4>1. ASSUME NEW n \in 1 .. i - 1
            PROVE  n \in 1 .. e
        BY <1>1
      <4>. QED BY <1>4, <2>2, <4>1
    <3>3. R!DataIn(frame) = <<frame[a]>>
      BY <1>4, <3>1, <3>2, SingleDatum
    <3>. QED BY <3>1, <3>3
  <2>4. R!DataIn(front) = <<b[a]>>
    <3>1. /\ a \in 1 .. Len(front) /\ front[a] = b[a]
          /\ R!IsData(front[a])
      BY <1>5, <1>7, <2>1
    <3>2. \A n \in 1 .. Len(front) : R!IsData(front[n]) => n = a
      BY <1>5, <2>2
    <3>3. R!DataIn(front) = <<front[a]>>
      BY <1>5, <3>1, <3>2, SingleDatum
    <3>. QED BY <3>1, <3>3
  <2>5. b[a] \in R!Data
    BY <1>7 DEF R!IsData
  <2>. QED BY <2>3, <2>4, <2>5
<1>8. R!DataIn(frame) \in Seq(R!Data)
  BY <1>4, DataTyped
<1>. QED BY <1>6, <1>7, <1>8 DEF frame, front, e

LEMMA FrameStep ==
  ASSUME StreamInv, R!TakeFrame
  PROVE  StreamInv'
<1> DEFINE b == rBuffer
           i == R!Min(R!Found)
           e == R!SecondFeed(b, i)
           event == R!DataIn(SubSeq(b, 1, i - 1))
           front == SubSeq(b, 1, e)
           left == SubSeq(b, e + 1, Len(b))
<1>1. /\ rWire \in Seq(Token) /\ b \in Seq(Token) /\ rSent \in Seq(R!Data)
      /\ rDelivered \in Seq(R!Data) /\ rPc \in {"scan", "flush"}
      /\ R!Found # {} /\ Len(b) \in Nat
  <2>1. rPc \in {"scan", "flush"} /\ R!Found # {}
    BY DEF R!TakeFrame
  <2>2. R!TypeOK
    BY DEF StreamInv
  <2>. QED BY <2>1, <2>2, StreamTypes, LenProperties
<1>2. Streaming /\ Remaining
  BY <1>1 DEF StreamInv, Streaming
<1>3. /\ i \in 1 .. Len(b) /\ R!EmptyLine(b, i)
      /\ \A j \in 1 .. i - 1 : ~R!EmptyLine(b, j)
  BY <1>1, <1>2, FirstFrame
<1>4. /\ rBuffer' = left /\ rScan' = 1 /\ UNCHANGED <<rWire, rSent>>
      /\ IF Len(event) > 1
           THEN rPc' = "malformed" /\ UNCHANGED rDelivered
           ELSE /\ rDelivered' = rDelivered \o event
                /\ rPc' = IF event = <<"result">> THEN "result" ELSE rPc
  BY DEF R!TakeFrame
<1> HIDE DEF i
<1>5. /\ event \in Seq(R!Data)
      /\ event = <<>> \/ \E x \in R!Data : event = <<x>>
      /\ R!DataIn(front) = event
  BY <1>1, <1>2, <1>3, FrameData DEF Remaining, Rest
<1>6. e \in 1 .. Len(b)
  <2>1. i \in Nat
    BY <1>1, <1>3
  <2>. QED BY <1>1, <1>3, <2>1, EmptyLineSpan
<1> HIDE DEF e
<1>7. front \in Seq(Token) /\ left \in Seq(Token) /\ b = front \o left
  BY <1>1, <1>6
<1> HIDE DEF event, front, left
<1>8. left \o rWire \in Seq(Token) /\ Rest = front \o (left \o rWire)
  BY SMTT(30), <1>1, <1>7, ConcatAssociative, Joined DEF Rest
<1>9. Rest' = left \o rWire
  BY <1>4 DEF Rest
<1> DEFINE more == R!DataIn(left \o rWire)
<1>10. more \in Seq(R!Data) /\ R!DataIn(Rest) = event \o more
  BY <1>5, <1>7, <1>8, DataTyped, DataOfBoth
<1> HIDE DEF more
<1>11. /\ rDelivered \o event \in Seq(R!Data)
       /\ rSent = (rDelivered \o event) \o more
  <2>1. rDelivered \o event \in Seq(R!Data)
    BY <1>1, <1>5, Joined
  <2>2. (rDelivered \o event) \o more = rDelivered \o (event \o more)
    <3>1. ASSUME NEW f \in Seq(R!Data), NEW g \in Seq(R!Data)
          PROVE  (rDelivered \o f) \o g = rDelivered \o (f \o g)
      BY SMTT(30), <1>1, ConcatAssociative
    <3>. QED BY <1>5, <1>10, <3>1
  <2>3. rSent = rDelivered \o (event \o more)
    BY <1>2, <1>10 DEF Remaining
  <2>. QED BY <2>1, <2>2, <2>3
<1>12. ~(Len(event) > 1)
  <2>1. CASE event = <<>>
    <3>1. Len(<<>>) = 0
      OBVIOUS
    <3>. QED BY <2>1, <3>1
  <2>2. ASSUME NEW x \in R!Data, event = <<x>>
        PROVE  ~(Len(event) > 1)
    BY <2>2
  <2>. QED BY <1>5, <2>1, <2>2
<1>13. /\ rDelivered' = rDelivered \o event
       /\ rPc' = IF event = <<"result">> THEN "result" ELSE rPc
  BY <1>4, <1>12
<1>14. R!TypeOK'
  <2>1. rPc' \in {"scan", "flush", "result"}
    BY <1>1, <1>13
  <2>. QED BY <1>1, <1>4, <1>7, <1>11, <1>13, <2>1
           DEF R!TypeOK, R!Ended, Token
<1>15. CASE event = <<"result">>
  <2>1. rPc' = "result"
    BY <1>13, <1>15
  <2>2. /\ R!UpToResult(rSent) = rDelivered \o event
        /\ R!Contains(rDelivered \o event, "result")
    BY <1>1, <1>2, <1>10, <1>11, <1>15, UpToFirst DEF Remaining
  <2>3. R!DeliveredAsSent'
    BY <1>4, <1>13, <2>1, <2>2 DEF R!DeliveredAsSent, R!NoFrameWaits
  <2>. QED BY <1>14, <2>1, <2>3
           DEF StreamInv, Streaming, R!DeliveredAsSent
<1>16. CASE event # <<"result">>
  <2>1. rPc' = rPc
    BY <1>13, <1>16
  <2>2. NoResultIn(rDelivered \o event)
    <3>1. CASE event = <<>>
      BY <1>1, <1>2, <3>1, ConcatEmptySeq DEF Remaining
    <3>2. ASSUME NEW x \in R!Data, event = <<x>>
          PROVE  NoResultIn(rDelivered \o event)
      <4>1. x # "result"
        BY <1>16, <3>2
      <4>2. Len(event) = 1 /\ event[1] = x
        BY <3>2
      <4> DEFINE n == Len(rDelivered)
      <4>3. ASSUME NEW f \in Seq(R!Data)
            PROVE  /\ n \in Nat /\ Len(rDelivered \o f) = n + Len(f)
                   /\ \A k \in 1 .. n : (rDelivered \o f)[k] = rDelivered[k]
                   /\ \A k \in 1 .. Len(f) : (rDelivered \o f)[n + k] = f[k]
        BY <1>1, Joined
      <4>4. /\ n \in Nat /\ Len(rDelivered \o event) = n + 1
            /\ \A k \in 1 .. n : (rDelivered \o event)[k] = rDelivered[k]
            /\ (rDelivered \o event)[n + 1] = x
        <5>1. /\ n \in Nat /\ Len(rDelivered \o event) = n + Len(event)
              /\ \A k \in 1 .. n : (rDelivered \o event)[k] = rDelivered[k]
              /\ \A k \in 1 .. Len(event) :
                   (rDelivered \o event)[n + k] = event[k]
          BY <1>5, <4>3
        <5> HIDE DEF n
        <5>. QED BY <4>2, <5>1
      <4>5. \A k \in 1 .. n : rDelivered[k] # "result"
        BY <1>2 DEF Remaining, NoResultIn
      <4> HIDE DEF n
      <4>. QED BY <4>1, <4>4, <4>5 DEF NoResultIn
    <3>. QED BY <1>5, <3>1, <3>2
  <2>3. Apart(left \o rWire)
    BY <1>2, <1>7, <1>8, RestApart DEF Remaining
  <2>4. Remaining'
    BY <1>4, <1>9, <1>11, <1>13, <2>2, <2>3 DEF Remaining, more
  <2>5. Scanned'
    BY <1>4 DEF Scanned
  <2>6. ASSUME rPc = "flush"
        PROVE  Terminates(left)
    <3>1. Terminates(front \o left)
      BY <1>7, <2>6 DEF StreamInv
    <3>2. SUFFICES ASSUME NEW x \in 1 .. Len(left), R!IsData(left[x])
                   PROVE  \E k \in x .. Len(left) : R!EmptyLine(left, k)
      BY DEF Terminates
    <3> DEFINE n == Len(front)
               r == front \o left
    <3>3. /\ n \in Nat /\ Len(left) \in Nat /\ Len(r) = n + Len(left)
          /\ r[n + x] = left[x]
      BY <1>7, Joined
    <3>4. n + x \in 1 .. Len(r) /\ R!IsData(r[n + x])
      BY <3>2, <3>3
    <3> HIDE DEF n, r
    <3>5. PICK k \in n + x .. Len(r) : R!EmptyLine(r, k)
      BY <3>1, <3>4 DEF Terminates, r
    <3>6. /\ k - n \in x .. Len(left) /\ k - n \in Nat \ {0}
          /\ n + (k - n) = k
      BY <3>3
    <3>7. R!EmptyLine(left, k - n)
      BY <1>7, <3>5, <3>6, EmptyLineOfRest DEF n, r
    <3>. QED BY <3>6, <3>7
  <2>7. rPc = "flush" => rWire' = <<>>
    BY <1>4 DEF StreamInv
  <2>. QED BY <1>1, <1>4, <1>14, <2>1, <2>4, <2>5, <2>6, <2>7
           DEF StreamInv, Streaming, R!NoFrameWaits
<1>. QED BY <1>15, <1>16

LEMMA AwaitStep ==
  ASSUME StreamInv, R!AwaitMore
  PROVE  StreamInv'
<1>1. /\ rPc \in {"scan", "flush"} /\ R!Found = {}
      /\ UNCHANGED <<rWire, rBuffer, rSent, rDelivered>>
      /\ rScan' = R!Resume
      /\ rPc' = IF rPc = "flush" THEN "noResult" ELSE "read"
  BY DEF R!AwaitMore
<1>2. /\ Streaming /\ Remaining /\ Scanned /\ rBuffer \in Seq(Token)
      /\ Len(rBuffer) \in Nat /\ rScan \in Nat \ {0}
      /\ DOMAIN rBuffer = 1 .. Len(rBuffer)
  <2>1. Streaming
    BY <1>1 DEF Streaming
  <2>2. rBuffer \in Seq(Token) /\ rScan \in Nat \ {0}
    BY StreamTypes DEF StreamInv
  <2>. QED BY <2>1, <2>2, LenProperties DEF StreamInv
<1>3. \A i \in 1 .. Len(rBuffer) : ~R!EmptyLine(rBuffer, i)
  <2>1. ASSUME NEW i \in 1 .. Len(rBuffer), R!EmptyLine(rBuffer, i)
        PROVE  FALSE
    <3>1. CASE i \in 1 .. rScan - 1
      BY <1>2, <2>1, <3>1 DEF Scanned
    <3>2. CASE i \notin 1 .. rScan - 1
      <4>1. i \in rScan .. Len(rBuffer)
        BY <1>2, <3>2
      <4>. QED BY <1>1, <2>1, <4>1 DEF R!Found
    <3>. QED BY <3>1, <3>2
  <2>. QED BY <2>1
<1>4. R!TypeOK'
  <2>1. R!Resume \in Nat \ {0}
    BY <1>2 DEF R!Resume
  <2>. QED BY <1>1, <2>1 DEF StreamInv, R!TypeOK, R!Ended
<1>5. CASE rPc = "scan"
  <2>1. Scanned'
    <3>1. \A i \in 1 .. R!Resume - 1 :
            i \in 1 .. Len(rBuffer) /\ i + 2 <= Len(rBuffer)
      BY <1>2 DEF R!Resume
    <3>. QED BY <1>1, <1>3, <3>1 DEF Scanned
  <2>2. Remaining'
    BY <1>1, <1>2 DEF Remaining, Rest
  <2>3. R!NoFrameWaits'
    BY <1>1, <1>2, <1>3 DEF R!NoFrameWaits
  <2>. QED BY <1>1, <1>4, <1>5, <2>1, <2>2, <2>3 DEF StreamInv, Streaming
<1>6. CASE rPc = "flush"
  <2>1. rWire = <<>> /\ Terminates(rBuffer)
    BY <1>6 DEF StreamInv
  <2>2. Rest = rBuffer
    BY <1>2, <2>1, ConcatEmptySeq DEF Rest
  <2>3. \A i \in 1 .. Len(rBuffer) : ~R!IsData(rBuffer[i])
    <3>1. ASSUME NEW i \in 1 .. Len(rBuffer), R!IsData(rBuffer[i])
          PROVE  FALSE
      <4>1. PICK k \in i .. Len(rBuffer) : R!EmptyLine(rBuffer, k)
        BY <2>1, <3>1 DEF Terminates
      <4>2. k \in 1 .. Len(rBuffer)
        BY <1>2
      <4>. QED BY <1>3, <4>1, <4>2
    <3>. QED BY <3>1
  <2>4. R!DataIn(Rest) = <<>>
    BY <1>2, <2>2, <2>3, NoData
  <2>5. ~Streaming' /\ R!DeliveredAsSent'
    BY <1>1, <1>2, <1>6, <2>4, EndsWithout
  <2>. QED BY <1>1, <1>4, <1>6, <2>5 DEF StreamInv, R!DeliveredAsSent
<1>. QED BY <1>1, <1>5, <1>6

-----------------------------------------------------------------------------
(***************************************************************************)
(* What is sent: of the frames of a text, each as wide as the next, a data *)
(* line begins one and its line ends hold an empty line.                   *)
(***************************************************************************)

LEMMA FramesApart ==
  ASSUME NEW n \in Nat, NEW events \in [1 .. n -> R!Data \cup {"comment"}],
         NEW end \in R!LineEnds, NEW cut \in 0 .. 2,
         cut <= Len(R!Frames(events, end))
  PROVE  LET text == R!Frames(events, end)
             wire == SubSeq(text, 1, Len(text) - cut)
         IN wire \in Seq(Token) /\ Apart(wire)
<1> DEFINE text == R!Frames(events, end)
           wire == SubSeq(text, 1, Len(text) - cut)
           width == Len(end) + 1
<1>1. /\ events \in Seq(R!Data \cup {"comment"}) /\ Len(events) = n
      /\ DOMAIN events = 1 .. n
  OBVIOUS
<1>2. \/ end = <<"lf", "lf">> /\ width = 3
      \/ end = <<"cr", "lf", "cr", "lf">> /\ width = 5
      \/ end = <<"lf", "cr", "lf">> /\ width = 4
  <2>1. /\ Len(<<"lf", "lf">>) = 2 /\ Len(<<"lf", "cr", "lf">>) = 3
        /\ Len(<<"cr", "lf", "cr", "lf">>) = 4
    OBVIOUS
  <2>2. \/ end = <<"lf", "lf">> \/ end = <<"cr", "lf", "cr", "lf">>
        \/ end = <<"lf", "cr", "lf">>
    BY DEF R!LineEnds
  <2>3. CASE end = <<"lf", "lf">>
    BY <2>1, <2>3
  <2>4. CASE end = <<"cr", "lf", "cr", "lf">>
    BY <2>1, <2>4
  <2>5. CASE end = <<"lf", "cr", "lf">>
    BY <2>1, <2>5
  <2>. QED BY <2>2, <2>3, <2>4, <2>5
<1>3. /\ \A k \in 1 .. width - 1 : end[k] \in {"cr", "lf"}
      /\ width \in {3, 4, 5}
  BY <1>2
<1>4. text = [i \in 1 .. width * n |->
                IF (i - 1) % width = 0 THEN events[(i - 1) \div width + 1]
                                       ELSE end[(i - 1) % width]]
  BY <1>1 DEF R!Frames
<1> HIDE DEF text, width
<1>5. width * n \in Nat
  BY <1>3
<1>6. ASSUME NEW i \in 1 .. width * n
      PROVE  /\ (i - 1) % width \in 0 .. width - 1
             /\ (i - 1) \div width + 1 \in 1 .. n
  <2>1. CASE width = 3
    BY <2>1
  <2>2. CASE width = 4
    BY <2>2
  <2>3. CASE width = 5
    BY <2>3
  <2>. QED BY <1>3, <2>1, <2>2, <2>3
<1>7. ASSUME NEW i \in 1 .. width * n
      PROVE  /\ text[i] \in Token
             /\ R!IsData(text[i]) => (i - 1) % width = 0
  <2>1. CASE (i - 1) % width = 0
    <3>1. text[i] = events[(i - 1) \div width + 1]
      BY <1>4, <2>1
    <3>2. text[i] \in R!Data \cup {"comment"}
      BY <1>6, <3>1
    <3>. QED BY <2>1, <3>2 DEF Token
  <2>2. CASE (i - 1) % width # 0
    <3>1. (i - 1) % width \in 1 .. width - 1
      BY <1>3, <1>6, <2>2
    <3>2. text[i] \in {"cr", "lf"}
      BY <1>3, <1>4, <2>2, <3>1
    <3>. QED BY <3>2 DEF Token, R!IsData, R!Data
  <2>. QED BY <2>1, <2>2
<1>8. /\ text \in Seq(Token) /\ Len(text) = width * n
  <2>1. text \in [1 .. width * n -> Token]
    BY <1>4, <1>7
  <2> HIDE DEF Token
  <2>. QED BY <1>5, <2>1
<1> DEFINE m == Len(text) - cut
<1>9. m \in Nat /\ m <= width * n
  BY <1>5, <1>8 DEF text
<1>10. /\ wire \in Seq(Token) /\ Len(wire) = m
       /\ \A i \in 1 .. m : wire[i] = text[i]
  <2>1. m <= Len(text)
    BY <1>8, <1>9
  <2> HIDE DEF m
  <2>. QED BY <1>8, <1>9, <2>1 DEF m
<1> HIDE DEF m, wire
<1>11. ASSUME NEW x \in 1 .. m, NEW y \in 1 .. m, x < y,
              R!IsData(wire[x]), R!IsData(wire[y])
       PROVE  \E k \in x .. y : R!EmptyLine(wire, k)
  <2>1. /\ x \in 1 .. width * n /\ y \in 1 .. width * n
        /\ (x - 1) % width = 0 /\ (y - 1) % width = 0
    <3>1. x \in 1 .. width * n /\ y \in 1 .. width * n
      BY <1>5, <1>9
    <3>. QED BY <1>7, <1>10, <1>11, <3>1
  <2>2. x + width <= y
    <3>1. CASE width = 3
      BY <1>11, <2>1, <3>1
    <3>2. CASE width = 4
      BY <1>11, <2>1, <3>2
    <3>3. CASE width = 5
      BY <1>11, <2>1, <3>3
    <3>. QED BY <1>3, <3>1, <3>2, <3>3
  <2>3. ASSUME NEW j \in 1 .. width - 1
        PROVE  x + j \in 1 .. m /\ R!At(wire, x + j) = end[j]
    <3>1. x + j \in 1 .. m /\ x + j \in 1 .. width * n
      BY <1>3, <1>5, <1>9, <2>2
    <3>2. (x + j - 1) % width = j
      <4>1. CASE width = 3
        BY <2>1, <2>3, <4>1
      <4>2. CASE width = 4
        BY <2>1, <2>3, <4>2
      <4>3. CASE width = 5
        BY <2>1, <2>3, <4>3
      <4>. QED BY <1>3, <4>1, <4>2, <4>3
    <3>3. text[x + j] = end[j]
      BY <1>4, <2>3, <3>1, <3>2
    <3>. QED BY <1>10, <3>1, <3>3 DEF R!At
  <2>4. CASE end = <<"lf", "lf">> /\ width = 3
    <3>1. R!At(wire, x + 1) = "lf" /\ R!At(wire, x + 2) = "lf"
      BY <2>3, <2>4
    <3>2. x + 1 + 1 = x + 2 /\ x + 1 \in x .. y
      BY <1>9, <2>2, <2>4
    <3>3. R!SecondFeed(wire, x + 1) = x + 2
      BY <3>1, <3>2 DEF R!SecondFeed
    <3>. QED BY <3>1, <3>2, <3>3 DEF R!EmptyLine
  <2>5. CASE end = <<"lf", "cr", "lf">> /\ width = 4
    <3>1. /\ R!At(wire, x + 1) = "lf" /\ R!At(wire, x + 2) = "cr"
          /\ R!At(wire, x + 3) = "lf"
      BY <2>3, <2>5
    <3>2. /\ x + 1 + 1 = x + 2 /\ x + 1 + 2 = x + 3
          /\ x + 1 \in x .. y
      BY <1>9, <2>2, <2>5
    <3>3. R!SecondFeed(wire, x + 1) = x + 3
      BY <3>1, <3>2 DEF R!SecondFeed
    <3>. QED BY <3>1, <3>2, <3>3 DEF R!EmptyLine
  <2>6. CASE end = <<"cr", "lf", "cr", "lf">> /\ width = 5
    <3>1. /\ R!At(wire, x + 2) = "lf" /\ R!At(wire, x + 3) = "cr"
          /\ R!At(wire, x + 4) = "lf"
      BY <2>3, <2>6
    <3>2. /\ x + 2 + 1 = x + 3 /\ x + 2 + 2 = x + 4
          /\ x + 2 \in x .. y
      BY <1>9, <2>2, <2>6
    <3>3. R!SecondFeed(wire, x + 2) = x + 4
      BY <3>1, <3>2 DEF R!SecondFeed
    <3>. QED BY <3>1, <3>2, <3>3 DEF R!EmptyLine
  <2>. QED BY <1>2, <2>4, <2>5, <2>6
<1>12. Apart(wire)
  BY <1>10, <1>11 DEF Apart
<1>. QED BY <1>10, <1>12 DEF wire, text

LEMMA StreamStarts ==
  ASSUME R!Init
  PROVE  StreamInv
<1>1. PICK events \in R!BoundedSeq(R!Data \cup {"comment"}, StreamEvents),
           end \in R!LineEnds, cut \in 0 .. 2 :
        /\ cut <= Len(R!Frames(events, end))
        /\ rWire = SubSeq(R!Frames(events, end), 1,
                          Len(R!Frames(events, end)) - cut)
  BY DEF R!Init
<1>2. PICK n \in 0 .. StreamEvents :
        events \in [1 .. n -> R!Data \cup {"comment"}]
  BY DEF R!BoundedSeq, R!SeqOf
<1>3. n \in Nat
  BY StreamBounds
<1>4. rWire \in Seq(Token) /\ Apart(rWire)
  BY <1>1, <1>2, <1>3, FramesApart
<1>5. /\ rSent = R!DataIn(rWire) /\ rBuffer = <<>> /\ rScan = 1
      /\ rDelivered = <<>> /\ rPc = "read"
  BY DEF R!Init
<1>6. Rest = rWire
  BY <1>4, <1>5, ConcatEmptySeq DEF Rest
<1>7. rSent \in Seq(R!Data) /\ rSent = rDelivered \o R!DataIn(Rest)
  BY <1>4, <1>5, <1>6, DataTyped, ConcatEmptySeq
<1>8. R!TypeOK
  <2>1. rBuffer \in Seq(Token) /\ rDelivered \in Seq(R!Data)
    BY <1>5, EmptySeq
  <2>. QED BY <1>4, <1>5, <1>7, <2>1, StreamTypes
<1>9. NoResultIn(rDelivered) /\ R!NoFrameWaits
  BY <1>5 DEF NoResultIn, R!NoFrameWaits
<1>10. Scanned
  BY <1>5 DEF Scanned
<1>. QED BY <1>4, <1>5, <1>6, <1>7, <1>8, <1>9, <1>10
         DEF StreamInv, Streaming, Remaining

StreamHolds == part = "stream" => StreamInv

\* The invariant of the reading of a stream (takeCompleteSseFrames and the
\* loops around it in both clients), in every reachable state.
THEOREM StreamInvariant == Spec => []StreamHolds
<1>1. Init => StreamHolds
  BY StreamStarts DEF Init, StreamHolds
<1>2. StreamHolds /\ [Next]_vars => StreamHolds'
  <2> SUFFICES ASSUME StreamInv, part = "stream", [Next]_vars
               PROVE  StreamInv'
    BY DEF StreamHolds, Next, vars
  <2>1. CASE R!Next
    BY <2>1, ChunkStep, BodyEnds, BodyFails, FrameStep, AwaitStep DEF R!Next
  <2>2. CASE UNCHANGED stream
    BY <2>2 DEF stream, StreamInv, R!TypeOK, Streaming, Remaining, Rest,
       Scanned, R!DeliveredAsSent, R!NoFrameWaits
  <2>3. R!Next \/ UNCHANGED stream
    BY DEF Next, vars, stream
  <2>. QED BY <2>1, <2>2, <2>3
<1>. QED BY <1>1, <1>2, PTL DEF Spec

\* However a response body is cut into chunks, readRetrievalEventStream and
\* sendRetrievalQueryStream hand on its events in order up to the first
\* result, miss no complete frame, and say truly whether there was a result.
THEOREM EventsDeliveredAsSent == Spec => []DeliveredAsSent
<1>1. StreamHolds => DeliveredAsSent
  BY StreamGoal DEF StreamHolds, DeliveredAsSent
<1>. QED BY <1>1, StreamInvariant, PTL
=============================================================================
