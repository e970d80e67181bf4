--------------------------- MODULE LogBytesProofs ---------------------------
(***************************************************************************)
(* Proofs about LogBytes, for any records of any length, any number of     *)
(* them, any buffer, and writes that stop anywhere: what tokenize and      *)
(* lines find again in a file, and what the writer has put there.          *)
(***************************************************************************)
EXTENDS LogBytes, WellFoundedInduction, FiniteSetTheorems, SequenceTheorems, TLAPS

-----------------------------------------------------------------------------
(* Numbers.                                                                *)

LEMMA LeastNumber ==
  ASSUME NEW T \in SUBSET Nat, T # {}
  PROVE  \E n \in T : \A m \in T : n <= m
<1> DEFINE R == OpToRel(<, Nat)
<1>1. R = {ss \in Nat \X Nat : ss[1] < ss[2]}
  BY Zenon DEF OpToRel
<1>2. IsWellFoundedOn(R, Nat)
  BY NatLessThanWellFounded, Zenon
<1> HIDE DEF R
<1>3. PICK n \in T : \A m \in T : <<m, n>> \notin R
  BY <1>2, WFMin
<1>4. \A m \in T : ~(m < n)
  BY <1>1, <1>3
<1> QED BY <1>4

LEMMA NumbersByInduction ==
  ASSUME NEW S, 0 \in S, \A n \in Nat : n \in S => n + 1 \in S
  PROVE  Nat \subseteq S
<1> DEFINE T == {n \in Nat : n \notin S}
<1>1. SUFFICES ASSUME NEW m \in T PROVE FALSE
  OBVIOUS
<1>2. PICK n \in T : \A k \in T : n <= k
  <2>1. T \subseteq Nat /\ T # {}
    BY <1>1
  <2> HIDE DEF T
  <2> QED BY <2>1, LeastNumber
<1>3. n # 0 /\ n - 1 \in Nat
  BY <1>2
<1>4. n - 1 \in S
  BY <1>2, <1>3
<1> QED BY <1>2, <1>3, <1>4

LEMMA MaxOf ==
  ASSUME NEW n \in Nat, NEW s \in SUBSET (1 .. n + 1), n + 1 \in s
  PROVE  Max(s) = n + 1
<1>1. \A y \in s : n + 1 >= y
  OBVIOUS
<1>2. \A x \in s : (\A y \in s : x >= y) => x = n + 1
  OBVIOUS
<1> QED BY <1>1, <1>2 DEF Max

\* the greatest of some numbers up to n
LEMMA MaxUpTo ==
  ASSUME NEW n \in Nat, NEW s \in SUBSET (0 .. n), NEW x \in s
  PROVE  Max(s) \in s /\ x <= Max(s)
<1> DEFINE T == {n - y : y \in s}
<1>1. T \subseteq Nat /\ T # {}
  <2>1. \A y \in s : n - y \in Nat
    OBVIOUS
  <2> QED BY <2>1
<1>2. PICK m \in T : \A k \in T : m <= k
  BY <1>1, LeastNumber
<1>3. PICK y \in s : m = n - y
  BY <1>2
<1>4. ASSUME NEW z \in s PROVE y >= z
  <2>1. n - z \in T
    OBVIOUS
  <2>2. n - y <= n - z
    BY <1>2, <1>3, <2>1
  <2>3. y \in Int /\ z \in Int
    OBVIOUS
  <2> QED BY <2>2, <2>3
<1>5. \E u \in s : \A z \in s : u >= z
  BY <1>4
<1>6. Max(s) \in s /\ \A z \in s : Max(s) >= z
  BY <1>5 DEF Max
<1>7. \A z \in s : z \in Int
  OBVIOUS
<1> QED BY <1>6, <1>7

-----------------------------------------------------------------------------
(* A fold from the left visits one element after the other.  The provers   *)
(* take no operator as an argument, so the three steps that are folded     *)
(* here are the values of one operator, and what does the folding is data. *)

\* one more word of a line
AddWord(r, text, i) ==
  text \o (IF i = 1 THEN <<>> ELSE <<Blank>>)
       \o (IF i \in r.quoted THEN <<Quote>> \o r.words[i] \o <<Quote>> ELSE r.words[i])

\* one more character for tokenize
TakeToken(s, ch) ==
  CASE ch = Quote -> [s EXCEPT !.in_quotes = ~@]
    [] ch \in {Blank, LineEnd} /\ ~s.in_quotes ->
         [s EXCEPT !.tokens = Ended(@, s.current), !.current = <<>>]
    [] OTHER -> [s EXCEPT !.current = Append(@, ch)]

\* one more character for lines
TakeChar(s, ch) ==
  IF ch = LineEnd THEN [lines |-> Append(s.lines, s.open), open |-> <<>>]
                  ELSE [s EXCEPT !.open = Append(@, ch)]

Step(k, s, x) ==
  CASE k.folds = "words" -> AddWord(k.record, s, x)
    [] k.folds = "tokens" -> TakeToken(s, x)
    [] OTHER -> TakeChar(s, x)

\* the equation that FoldLeft solves
FoldsTo(it, k, base, seq, S) ==
  it = [s \in SUBSET S |->
         IF s = {} THEN base ELSE Step(k, it[s \ {Max(s)}], seq[Max(s)])]

\* the states that a fold goes through
Along(k, base, seq, n, st) ==
  st[0] = base /\ \A m \in 0 .. n - 1 : st[m + 1] = Step(k, st[m], seq[m + 1])

LEMMA FoldExists ==
  ASSUME NEW k, NEW base, NEW seq, NEW n \in Nat
  PROVE  \E it : FoldsTo(it, k, base, seq, 1 .. n)
<1> DEFINE N == {m \in Nat : \E it : FoldsTo(it, k, base, seq, 1 .. m)}
<1>1. 0 \in N
  <2> DEFINE it == [s \in SUBSET (1 .. 0) |-> base]
  <2>1. \A s \in SUBSET (1 .. 0) : s = {}
    OBVIOUS
  <2>2. FoldsTo(it, k, base, seq, 1 .. 0)
    BY <2>1 DEF FoldsTo
  <2> QED BY <2>2
<1>2. ASSUME NEW m \in Nat, m \in N PROVE m + 1 \in N
  <2>1. PICK it : FoldsTo(it, k, base, seq, 1 .. m)
    BY <1>2
  <2> DEFINE up == [s \in SUBSET (1 .. m + 1) |->
                     IF m + 1 \in s THEN Step(k, it[s \ {m + 1}], seq[m + 1])
                                    ELSE it[s]]
  <2>2. ASSUME NEW s \in SUBSET (1 .. m + 1)
        PROVE  up[s] = IF s = {} THEN base
                       ELSE Step(k, up[s \ {Max(s)}], seq[Max(s)])
    <3>1. CASE m + 1 \in s
      <4>1. Max(s) = m + 1
        BY <3>1, MaxOf
      <4>2. up[s \ {m + 1}] = it[s \ {m + 1}]
        OBVIOUS
      <4> QED BY <3>1, <4>1, <4>2
    <3>2. CASE m + 1 \notin s
      <4>1. s \in SUBSET (1 .. m)
        BY <3>2
      <4>2. up[s] = it[s] /\ up[s \ {Max(s)}] = it[s \ {Max(s)}]
        BY <3>2
      <4>3. it[s] = IF s = {} THEN base ELSE Step(k, it[s \ {Max(s)}], seq[Max(s)])
        BY <2>1, <4>1 DEF FoldsTo
      <4> QED BY <4>2, <4>3
    <3> QED BY <3>1, <3>2
  <2>3. FoldsTo(up, k, base, seq, 1 .. m + 1)
    BY <2>2 DEF FoldsTo
  <2> QED BY <2>3
<1>3. Nat \subseteq N
  <2> HIDE DEF N
  <2> QED BY <1>1, <1>2, NumbersByInduction
<1> QED BY <1>3

\* a solution gives such states, up to its value for all indices
LEMMA FoldAlong ==
  ASSUME NEW k, NEW base, NEW seq, NEW n \in Nat, NEW it, FoldsTo(it, k, base, seq, 1 .. n)
  PROVE  \E st : Along(k, base, seq, n, st) /\ st[n] = it[1 .. n]
<1> DEFINE st == [m \in 0 .. n |-> it[1 .. m]]
<1>1. st[0] = base
  <2>1. 1 .. 0 = {} /\ 0 \in 0 .. n
    OBVIOUS
  <2> QED BY <2>1 DEF FoldsTo
<1>2. ASSUME NEW m \in 0 .. n - 1
      PROVE  st[m + 1] = Step(k, st[m], seq[m + 1])
  <2> DEFINE s == 1 .. m + 1
  <2>1. s # {} /\ s \ {m + 1} = 1 .. m /\ s \in SUBSET (1 .. m + 1) /\ m + 1 \in s
    OBVIOUS
  <2>2. s \in SUBSET (1 .. n) /\ m + 1 \in 0 .. n /\ m \in 0 .. n
    OBVIOUS
  <2> HIDE DEF s
  <2>3. Max(s) = m + 1
    BY <2>1, MaxOf
  <2>4. it[s] = IF s = {} THEN base ELSE Step(k, it[s \ {Max(s)}], seq[Max(s)])
    BY <2>2 DEF FoldsTo
  <2>5. it[s] = Step(k, it[1 .. m], seq[m + 1])
    BY <2>1, <2>3, <2>4
  <2> QED BY <2>2, <2>5 DEF s
<1> HIDE DEF st
<1>3. Along(k, base, seq, n, st)
  BY <1>1, <1>2 DEF Along
<1>4. st[n] = it[1 .. n]
  BY DEF st
<1> QED BY <1>3, <1>4

-----------------------------------------------------------------------------
(* The three folds.                                                        *)

NoTokens == [tokens |-> <<>>, current |-> <<>>, in_quotes |-> FALSE]
NoLines == [lines |-> <<>>, open |-> <<>>]

TokenFold(it, seq, S) ==
  it = [s \in SUBSET S |->
         IF s = {} THEN NoTokens
         ELSE TakeToken(it[s \ {Max(s)}], seq[Max(s)])]

LineFold(it, seq, S) ==
  it = [s \in SUBSET S |->
         IF s = {} THEN NoLines
         ELSE TakeChar(it[s \ {Max(s)}], seq[Max(s)])]

WordFold(it, r, seq, S) ==
  it = [s \in SUBSET S |->
         IF s = {} THEN <<>> ELSE AddWord(r, it[s \ {Max(s)}], seq[Max(s)])]

LEMMA TokenizeIsFold ==
  ASSUME NEW line
  PROVE  LET end == (CHOOSE it : TokenFold(it, line, DOMAIN line))[DOMAIN line]
         IN  Tokenize(line) = Ended(end.tokens, end.current)
BY Zenon DEF Tokenize, FoldLeft, MapThenFoldSet, TokenFold, TakeToken, NoTokens

LEMMA LinesIsFold ==
  ASSUME NEW text
  PROVE  LET end == (CHOOSE it : LineFold(it, text, DOMAIN text))[DOMAIN text]
         IN  Lines(text) = Ended(end.lines, end.open)
BY Zenon DEF Lines, FoldLeft, MapThenFoldSet, LineFold, TakeChar, NoLines

LEMMA FormatIsFold ==
  ASSUME NEW r
  PROVE  LET is == [i \in DOMAIN r.words |-> i]
         IN  Format(r) = (CHOOSE it : WordFold(it, r, is, DOMAIN is))[DOMAIN is] \o <<LineEnd>>
BY Zenon DEF Format, FoldLeft, MapThenFoldSet, WordFold, AddWord

\* tokenize, as the states after each character
LEMMA TokenStates ==
  ASSUME NEW n \in Nat, NEW line, DOMAIN line = 1 .. n
  PROVE  \E st : /\ st[0] = NoTokens
                 /\ \A m \in 0 .. n - 1 : st[m + 1] = TakeToken(st[m], line[m + 1])
                 /\ Tokenize(line) = Ended(st[n].tokens, st[n].current)
<1> DEFINE k == [folds |-> "tokens"]
<1>1. \A s, x : Step(k, s, x) = TakeToken(s, x)
  BY DEF Step
<1>2. \A it : FoldsTo(it, k, NoTokens, line, DOMAIN line) <=> TokenFold(it, line, DOMAIN line)
  <2> HIDE DEF k
  <2> QED BY <1>1 DEF FoldsTo, TokenFold
<1> HIDE DEF k
<1>3. PICK it : TokenFold(it, line, DOMAIN line)
  BY <1>2, FoldExists
<1> DEFINE found == CHOOSE f : TokenFold(f, line, DOMAIN line)
<1>4. FoldsTo(found, k, NoTokens, line, 1 .. n)
  BY <1>2, <1>3
<1>5. Tokenize(line) = Ended(found[1 .. n].tokens, found[1 .. n].current)
  BY TokenizeIsFold
<1> HIDE DEF found
<1>6. PICK st : Along(k, NoTokens, line, n, st) /\ st[n] = found[1 .. n]
  BY <1>4, FoldAlong
<1>7. st[0] = NoTokens /\ \A m \in 0 .. n - 1 : st[m + 1] = TakeToken(st[m], line[m + 1])
  BY <1>1, <1>6 DEF Along
<1> QED BY <1>5, <1>6, <1>7

\* lines, as the states after each character
LEMMA LineStates ==
  ASSUME NEW n \in Nat, NEW text, DOMAIN text = 1 .. n
  PROVE  \E st : /\ st[0] = NoLines
                 /\ \A m \in 0 .. n - 1 : st[m + 1] = TakeChar(st[m], text[m + 1])
                 /\ Lines(text) = Ended(st[n].lines, st[n].open)
<1> DEFINE k == [folds |-> "lines"]
<1>1. \A s, x : Step(k, s, x) = TakeChar(s, x)
  BY DEF Step
<1>2. \A it : FoldsTo(it, k, NoLines, text, DOMAIN text) <=> LineFold(it, text, DOMAIN text)
  <2> HIDE DEF k
  <2> QED BY <1>1 DEF FoldsTo, LineFold
<1> HIDE DEF k
<1>3. PICK it : LineFold(it, text, DOMAIN text)
  BY <1>2, FoldExists
<1> DEFINE found == CHOOSE f : LineFold(f, text, DOMAIN text)
<1>4. FoldsTo(found, k, NoLines, text, 1 .. n)
  BY <1>2, <1>3
<1>5. Lines(text) = Ended(found[1 .. n].lines, found[1 .. n].open)
  BY LinesIsFold
<1> HIDE DEF found
<1>6. PICK st : Along(k, NoLines, text, n, st) /\ st[n] = found[1 .. n]
  BY <1>4, FoldAlong
<1>7. st[0] = NoLines /\ \A m \in 0 .. n - 1 : st[m + 1] = TakeChar(st[m], text[m + 1])
  BY <1>1, <1>6 DEF Along
<1> QED BY <1>5, <1>6, <1>7

\* a line, as what it is after each word
LEMMA WordStates ==
  ASSUME NEW n \in Nat, NEW r, DOMAIN r.words = 1 .. n
  PROVE  \E st : /\ st[0] = <<>>
                 /\ \A m \in 0 .. n - 1 : st[m + 1] = AddWord(r, st[m], m + 1)
                 /\ Format(r) = st[n] \o <<LineEnd>>
<1> DEFINE k == [folds |-> "words", record |-> r]
           is == [i \in DOMAIN r.words |-> i]
<1>1. \A s, x : Step(k, s, x) = AddWord(r, s, x)
  BY DEF Step
<1>2. \A it : FoldsTo(it, k, <<>>, is, DOMAIN is) <=> WordFold(it, r, is, DOMAIN is)
  <2> HIDE DEF k, is
  <2> QED BY <1>1 DEF FoldsTo, WordFold
<1>3. DOMAIN is = 1 .. n /\ \A i \in 1 .. n : is[i] = i
  OBVIOUS
<1> DEFINE found == CHOOSE f : WordFold(f, r, is, DOMAIN is)
<1>4. Format(r) = found[1 .. n] \o <<LineEnd>>
  BY <1>3, FormatIsFold
<1> HIDE DEF k, is
<1>5. PICK it : WordFold(it, r, is, DOMAIN is)
  BY <1>2, <1>3, FoldExists
<1>6. FoldsTo(found, k, <<>>, is, 1 .. n)
  BY <1>2, <1>3, <1>5
<1> HIDE DEF found
<1>7. PICK st : Along(k, <<>>, is, n, st) /\ st[n] = found[1 .. n]
  BY <1>6, FoldAlong
<1>8. ASSUME NEW m \in 0 .. n - 1 PROVE st[m + 1] = AddWord(r, st[m], m + 1)
  <2>1. m + 1 \in 1 .. n
    OBVIOUS
  <2>2. st[m + 1] = AddWord(r, st[m], is[m + 1])
    BY <1>1, <1>7 DEF Along
  <2> QED BY <1>3, <2>1, <2>2
<1>9. st[0] = <<>>
  BY <1>7 DEF Along
<1> QED BY <1>4, <1>7, <1>8, <1>9

-----------------------------------------------------------------------------
(* Pieces of text.                                                         *)

\* the provers do not know that these three are strings
Chars == STRING \cup {Blank, Quote, LineEnd}
Text == Seq(Chars)

LEMMA Pieces ==
  ASSUME NEW S, NEW f \in Seq(S), NEW a \in Nat \ {0}, NEW b \in Nat, a <= b + 1, b <= Len(f)
  PROVE  /\ SubSeq(f, a, b) \in Seq(S) /\ Len(SubSeq(f, a, b)) = b - a + 1
         /\ \A i \in 1 .. b - a + 1 : SubSeq(f, a, b)[i] = f[a + i - 1]
OBVIOUS

LEMMA LongerPiece ==
  ASSUME NEW S, NEW f \in Seq(S), NEW a \in Nat \ {0}, NEW b \in Nat, a <= b + 1, b < Len(f)
  PROVE  Append(SubSeq(f, a, b), f[b + 1]) = SubSeq(f, a, b + 1)
<1> DEFINE s == SubSeq(f, a, b)
           t == SubSeq(f, a, b + 1)
<1>1. /\ s \in Seq(S) /\ Len(s) = b - a + 1
      /\ \A i \in 1 .. b - a + 1 : s[i] = f[a + i - 1]
  BY Pieces
<1>2. /\ t \in Seq(S) /\ Len(t) = b + 1 - a + 1
      /\ \A i \in 1 .. b + 1 - a + 1 : t[i] = f[a + i - 1]
  <2>1. b + 1 \in Nat /\ b + 1 <= Len(f) /\ a <= b + 1 + 1
    OBVIOUS
  <2> QED BY <2>1, Pieces
<1>3. f[b + 1] \in S
  OBVIOUS
<1> HIDE DEF s, t
<1>4. Append(s, f[b + 1]) \in Seq(S) /\ Len(Append(s, f[b + 1])) = Len(t)
  BY <1>1, <1>2, <1>3
<1>5. \A i \in 1 .. Len(t) : Append(s, f[b + 1])[i] = t[i]
  BY <1>1, <1>2, <1>3
<1> QED BY <1>2, <1>4, <1>5, SeqEqual DEF s, t

LEMMA WholePiece ==
  ASSUME NEW S, NEW f \in Seq(S)
  PROVE  SubSeq(f, 1, 0) = <<>> /\ SubSeq(f, 1, Len(f)) = f
<1>1. SubSeq(f, 1, 0) = <<>>
  <2>1. \A t \in Seq(S) : Len(t) = 0 => t = <<>>
    OBVIOUS
  <2>2. SubSeq(f, 1, 0) \in Seq(S) /\ Len(SubSeq(f, 1, 0)) = 0
    OBVIOUS
  <2> QED BY <2>1, <2>2
<1>2. SubSeq(f, 1, Len(f)) = f
  <2>1. Len(f) \in Nat
    OBVIOUS
  <2>2. /\ SubSeq(f, 1, Len(f)) \in Seq(S) /\ Len(SubSeq(f, 1, Len(f))) = Len(f)
        /\ \A i \in 1 .. Len(f) : SubSeq(f, 1, Len(f))[i] = f[i]
    OBVIOUS
  <2> QED BY <2>2, SeqEqual
<1> QED BY <1>1, <1>2

\* what is glued together, place by place
LEMMA Glued ==
  ASSUME NEW f \in Text, NEW g \in Text
  PROVE  /\ f \o g \in Text /\ Len(f \o g) = Len(f) + Len(g)
         /\ \A i \in 1 .. Len(f) : (f \o g)[i] = f[i]
         /\ \A i \in 1 .. Len(g) : (f \o g)[Len(f) + i] = g[i]
         /\ \A i \in 1 .. Len(f) + Len(g) :
              i \in 1 .. Len(f) \/ i - Len(f) \in 1 .. Len(g)
BY DEF Text

\* the characters that matter are different ones
LEMMA Characters ==
  /\ Blank \in Chars /\ Quote \in Chars /\ LineEnd \in Chars
  /\ Blank # Quote /\ Blank # LineEnd /\ Quote # LineEnd
  /\ Lead # Rest /\ LineEnd # Lead /\ LineEnd # Rest
  /\ Blank # Lead /\ Blank # Rest /\ Quote # Lead /\ Quote # Rest
BY DEF Blank, Quote, LineEnd, Lead, Rest, Chars

LEMMA Empty == /\ <<>> \in Text /\ Len(<<>>) = 0 /\ IsText(<<>>)
               /\ \A c \in {Blank, Quote, LineEnd} :
                    <<c>> \in Text /\ Len(<<c>>) = 1 /\ <<c>>[1] = c /\ IsText(<<c>>)
<1>1. <<>> \in Text /\ Len(<<>>) = 0 /\ IsText(<<>>)
  BY DEF Text, IsText
<1>2. ASSUME NEW c \in {Blank, Quote, LineEnd}
      PROVE  <<c>> \in Text /\ Len(<<c>>) = 1 /\ <<c>>[1] = c /\ IsText(<<c>>)
  <2>1. c \in Chars /\ c # Lead /\ c # Rest
    BY Characters
  <2>2. Len(<<c>>) = 1 /\ <<c>>[1] = c /\ DOMAIN <<c>> = {1}
    OBVIOUS
  <2>3. <<c>> \in Text
    BY <2>1 DEF Text
  <2> QED BY <2>1, <2>2, <2>3 DEF IsText
<1> QED BY <1>1, <1>2

\* text next to text is text
LEMMA GluedText ==
  ASSUME NEW f \in Text, NEW g \in Text, IsText(f), IsText(g)
  PROVE  IsText(f \o g)
<1> DEFINE h == f \o g
<1>1. /\ h \in Text /\ Len(h) = Len(f) + Len(g) /\ Len(f) \in Nat /\ Len(g) \in Nat
      /\ \A i \in 1 .. Len(f) : h[i] = f[i]
      /\ \A i \in 1 .. Len(g) : h[Len(f) + i] = g[i]
  BY Glued DEF Text
<1>2. DOMAIN h = 1 .. Len(f) + Len(g) /\ DOMAIN f = 1 .. Len(f) /\ DOMAIN g = 1 .. Len(g)
  BY <1>1 DEF Text
<1> HIDE DEF h
<1>3. ASSUME NEW i \in 1 .. Len(f) + Len(g)
      PROVE  /\ h[i] = Lead => i < Len(h) /\ h[i + 1] = Rest
             /\ h[i] = Rest => i > 1 /\ h[i - 1] = Lead
  <2>1. CASE i \in 1 .. Len(f)
    <3>1. h[i] = f[i]
      BY <1>1, <2>1
    <3>2. /\ f[i] = Lead => i < Len(f) /\ f[i + 1] = Rest
          /\ f[i] = Rest => i > 1 /\ f[i - 1] = Lead
      BY <1>2, <2>1 DEF IsText
    <3>3. i < Len(f) => i < Len(h) /\ h[i + 1] = f[i + 1]
      BY <1>1, <2>1
    <3>4. i > 1 => h[i - 1] = f[i - 1]
      BY <1>1, <2>1
    <3> QED BY <3>1, <3>2, <3>3, <3>4
  <2>2. CASE i \notin 1 .. Len(f)
    <3> DEFINE j == i - Len(f)
    <3>1. j \in 1 .. Len(g) /\ i = Len(f) + j
      BY <1>1, <2>2
    <3>2. h[i] = g[j]
      BY <1>1, <3>1
    <3>3. /\ g[j] = Lead => j < Len(g) /\ g[j + 1] = Rest
          /\ g[j] = Rest => j > 1 /\ g[j - 1] = Lead
      BY <1>2, <3>1 DEF IsText
    <3> HIDE DEF j
    <3>4. j < Len(g) => i < Len(h) /\ h[i + 1] = g[j + 1]
      <4>1. j < Len(g) => j + 1 \in 1 .. Len(g) /\ Len(f) + (j + 1) = i + 1 /\ i < Len(h)
        BY <1>1, <3>1
      <4> QED BY <1>1, <4>1
    <3>5. j > 1 => i > 1 /\ h[i - 1] = g[j - 1]
      <4>1. j > 1 => j - 1 \in 1 .. Len(g) /\ Len(f) + (j - 1) = i - 1 /\ i > 1
        BY <1>1, <3>1
      <4> QED BY <1>1, <4>1
    <3> QED BY <3>2, <3>3, <3>4, <3>5
  <2> QED BY <2>1, <2>2
<1> QED BY <1>2, <1>3 DEF IsText, h

-----------------------------------------------------------------------------
(* The line of a record.                                                   *)

LEMMA WiderSeq ==
  ASSUME NEW S, NEW T, S \subseteq T, NEW s \in Seq(S)
  PROVE  s \in Seq(T)
<1>1. /\ Len(s) \in Nat /\ \A i \in 1 .. Len(s) : s[i] \in T
      /\ s = [i \in 1 .. Len(s) |-> s[i]]
  OBVIOUS
<1> QED BY <1>1

LEMMA RecordWords ==
  ASSUME NEW r \in Records
  PROVE  /\ r.words \in Seq(Text) /\ Len(r.words) \in Nat
         /\ DOMAIN r.words = 1 .. Len(r.words)
         /\ \A i \in 1 .. Len(r.words) : r.words[i] \in Text /\ IsText(r.words[i])
<1>1. r.words \in Seq(Seq(STRING)) /\ \A i \in DOMAIN r.words : IsText(r.words[i])
  BY LogBytesAssumption
<1>2. DOMAIN r.words = 1 .. Len(r.words) /\ Len(r.words) \in Nat
  BY <1>1
<1>3. ASSUME NEW i \in 1 .. Len(r.words) PROVE r.words[i] \in Text
  <2>1. r.words[i] \in Seq(STRING)
    BY <1>1
  <2>2. STRING \subseteq Chars
    BY DEF Chars
  <2> QED BY <2>1, <2>2, WiderSeq DEF Text
<1>4. r.words = [i \in 1 .. Len(r.words) |-> r.words[i]]
  BY <1>1
<1>5. r.words \in Seq(Text)
  BY <1>2, <1>3, <1>4
<1> QED BY <1>1, <1>2, <1>3, <1>5

\* what AddWord puts at the end
Separator(i) == IF i = 1 THEN <<>> ELSE <<Blank>>
Written(r, i) == IF i \in r.quoted THEN (<<Quote>> \o r.words[i]) \o <<Quote>> ELSE r.words[i]

LEMMA AddedWord ==
  ASSUME NEW r \in Records, NEW i \in 1 .. Len(r.words), NEW text \in Text, IsText(text)
  PROVE  /\ AddWord(r, text, i) = (text \o Separator(i)) \o Written(r, i)
         /\ Separator(i) \in Text /\ Written(r, i) \in Text
         /\ AddWord(r, text, i) \in Text /\ IsText(AddWord(r, text, i))
<1>1. AddWord(r, text, i) = (text \o Separator(i)) \o Written(r, i)
  BY DEF AddWord, Separator, Written
<1>2. Separator(i) \in Text /\ IsText(Separator(i))
  BY Empty DEF Separator
<1>3. Written(r, i) \in Text /\ IsText(Written(r, i))
  <2>1. r.words[i] \in Text /\ IsText(r.words[i]) /\ <<Quote>> \in Text /\ IsText(<<Quote>>)
    BY RecordWords, Empty
  <2>2. <<Quote>> \o r.words[i] \in Text /\ IsText(<<Quote>> \o r.words[i])
    BY <2>1, Glued, GluedText
  <2>3. (<<Quote>> \o r.words[i]) \o <<Quote>> \in Text
        /\ IsText((<<Quote>> \o r.words[i]) \o <<Quote>>)
    BY <2>1, <2>2, Glued, GluedText
  <2> QED BY <2>1, <2>3 DEF Written
<1>4. text \o Separator(i) \in Text /\ IsText(text \o Separator(i))
  BY <1>2, Glued, GluedText
<1>5. (text \o Separator(i)) \o Written(r, i) \in Text
      /\ IsText((text \o Separator(i)) \o Written(r, i))
  BY <1>3, <1>4, Glued, GluedText
<1> QED BY <1>1, <1>2, <1>3, <1>5

\* the texts of its first words
WordTexts(r, st) ==
  /\ st[0] = <<>>
  /\ \A m \in 0 .. Len(r.words) - 1 : st[m + 1] = AddWord(r, st[m], m + 1)

LEMMA TextsAreText ==
  ASSUME NEW r \in Records, NEW st, WordTexts(r, st)
  PROVE  \A m \in 0 .. Len(r.words) : st[m] \in Text /\ IsText(st[m])
<1> DEFINE N == {m \in Nat : m <= Len(r.words) => st[m] \in Text /\ IsText(st[m])}
<1>1. 0 \in N
  BY Empty DEF WordTexts
<1>2. ASSUME NEW m \in Nat, m \in N PROVE m + 1 \in N
  <2>1. SUFFICES ASSUME m + 1 <= Len(r.words)
                 PROVE  st[m + 1] \in Text /\ IsText(st[m + 1])
    OBVIOUS
  <2>2. m \in 0 .. Len(r.words) - 1 /\ m + 1 \in 1 .. Len(r.words) /\ m <= Len(r.words)
    BY <2>1, RecordWords
  <2>3. st[m] \in Text /\ IsText(st[m])
    BY <1>2, <2>2
  <2>4. st[m + 1] = AddWord(r, st[m], m + 1)
    BY <2>2 DEF WordTexts
  <2> HIDE DEF N
  <2> QED BY <2>2, <2>3, <2>4, AddedWord
<1>3. Nat \subseteq N
  <2> HIDE DEF N
  <2> QED BY <1>1, <1>2, NumbersByInduction
<1> QED BY <1>3, RecordWords

\* a line is text and ends with its line end
LEMMA FormatText ==
  ASSUME NEW r \in Records
  PROVE  /\ Format(r) \in Text /\ IsText(Format(r)) /\ Len(Format(r)) \in Nat \ {0}
         /\ Format(r)[Len(Format(r))] = LineEnd
         /\ \E st : /\ WordTexts(r, st)
                    /\ st[Len(r.words)] = SubSeq(Format(r), 1, Len(Format(r)) - 1)
<1> DEFINE n == Len(r.words)
<1>1. n \in Nat /\ DOMAIN r.words = 1 .. n
  BY RecordWords
<1>2. PICK st : WordTexts(r, st) /\ Format(r) = st[n] \o <<LineEnd>>
  BY <1>1, WordStates DEF WordTexts
<1>3. st[n] \in Text /\ IsText(st[n])
  BY <1>1, <1>2, TextsAreText
<1>4. <<LineEnd>> \in Text /\ IsText(<<LineEnd>>) /\ Len(<<LineEnd>>) = 1 /\ <<LineEnd>>[1] = LineEnd
  BY Empty
<1> DEFINE f == st[n] \o <<LineEnd>>
<1>5. /\ f \in Text /\ IsText(f) /\ Len(f) = Len(st[n]) + 1
      /\ f[Len(st[n]) + 1] = LineEnd /\ \A i \in 1 .. Len(st[n]) : f[i] = st[n][i]
  <2>1. f \in Text /\ IsText(f)
    BY <1>3, <1>4, Glued, GluedText
  <2>2. /\ Len(f) = Len(st[n]) + Len(<<LineEnd>>)
        /\ \A i \in 1 .. Len(st[n]) : f[i] = st[n][i]
        /\ \A i \in 1 .. Len(<<LineEnd>>) : f[Len(st[n]) + i] = <<LineEnd>>[i]
    BY <1>3, <1>4, Glued
  <2>3. 1 \in 1 .. Len(<<LineEnd>>)
    BY <1>4
  <2> QED BY <1>4, <2>1, <2>2, <2>3
<1>6. Len(st[n]) \in Nat
  BY <1>3 DEF Text
<1> HIDE DEF f
<1>7. SubSeq(f, 1, Len(f) - 1) = st[n]
  <2> DEFINE g == SubSeq(f, 1, Len(f) - 1)
  <2>1. Len(st[n]) = Len(f) - 1 /\ f \in Seq(Chars) /\ Len(st[n]) <= Len(f)
    BY <1>5, <1>6 DEF Text
  <2>2. g \in Seq(Chars) /\ Len(g) = Len(st[n]) /\ \A i \in 1 .. Len(st[n]) : g[i] = f[i]
    <3> DEFINE l == Len(st[n])
    <3>1. l \in Nat /\ 1 <= l + 1 /\ l <= Len(f) /\ f \in Seq(Chars) /\ g = SubSeq(f, 1, l)
      BY <1>6, <2>1
    <3> HIDE DEF g, l
    <3>2. /\ g \in Seq(Chars) /\ Len(g) = l - 1 + 1
          /\ \A i \in 1 .. l - 1 + 1 : g[i] = f[1 + i - 1]
      BY <3>1, Pieces
    <3>3. l - 1 + 1 = l /\ \A i \in 1 .. l : 1 + i - 1 = i
      BY <3>1
    <3>4. g \in Seq(Chars) /\ Len(g) = l /\ \A i \in 1 .. l : g[i] = f[i]
      BY <3>2, <3>3
    <3> QED BY <3>4 DEF l
  <2> HIDE DEF g
  <2>3. \A i \in 1 .. Len(st[n]) : g[i] = st[n][i]
    BY <1>5, <2>2
  <2>4. g = st[n]
    BY <1>3, <2>2, <2>3, SeqEqual DEF Text
  <2> QED BY <2>4 DEF g
<1> QED BY <1>2, <1>5, <1>6, <1>7 DEF f

-----------------------------------------------------------------------------
(* tokenize finds the words of a plain record again.                       *)

\* between two quotes, or not
Inside(t, c) == [tokens |-> t, current |-> c, in_quotes |-> TRUE]
Outside(t, c) == [tokens |-> t, current |-> c, in_quotes |-> FALSE]

LEMMA TakenTokens ==
  ASSUME NEW t, NEW c
  PROVE  /\ TakeToken(Outside(t, c), Quote) = Inside(t, c)
         /\ TakeToken(Inside(t, c), Quote) = Outside(t, c)
         /\ TakeToken(Outside(t, c), Blank) = Outside(Ended(t, c), <<>>)
         /\ \A ch : ch \notin {Quote, LineEnd} =>
              TakeToken(Inside(t, c), ch) = Inside(t, Append(c, ch))
         /\ \A ch : ch \notin {Quote, LineEnd, Blank} =>
              TakeToken(Outside(t, c), ch) = Outside(t, Append(c, ch))
<1>1. TakeToken(Outside(t, c), Quote) = Inside(t, c)
  <2>1. \A s : TakeToken(s, Quote) = [s EXCEPT !.in_quotes = ~@]
    BY Characters DEF TakeToken
  <2>2. \A b, v : [[tokens |-> t, current |-> c, in_quotes |-> b] EXCEPT !.in_quotes = v]
                   = [tokens |-> t, current |-> c, in_quotes |-> v]
    OBVIOUS
  <2>3. [Outside(t, c) EXCEPT !.in_quotes = ~@] = [Outside(t, c) EXCEPT !.in_quotes = TRUE]
    BY DEF Outside
  <2> QED BY <2>1, <2>2, <2>3, Zenon DEF Outside, Inside
<1>2. TakeToken(Inside(t, c), Quote) = Outside(t, c)
  BY DEF TakeToken, Outside, Inside
<1>3. TakeToken(Outside(t, c), Blank) = Outside(Ended(t, c), <<>>)
  BY Characters DEF TakeToken, Outside
<1>4. ASSUME NEW ch, ch \notin {Quote, LineEnd}
      PROVE  TakeToken(Inside(t, c), ch) = Inside(t, Append(c, ch))
  BY <1>4 DEF TakeToken, Inside
<1>5. ASSUME NEW ch, ch \notin {Quote, LineEnd, Blank}
      PROVE  TakeToken(Outside(t, c), ch) = Outside(t, Append(c, ch))
  BY <1>5 DEF TakeToken, Outside
<1> QED BY <1>1, <1>2, <1>3, <1>4, <1>5

\* the states of tokenize on a line
TokenRun(line, ts) ==
  /\ ts[0] = NoTokens
  /\ \A m \in 0 .. Len(line) - 1 : ts[m + 1] = TakeToken(ts[m], line[m + 1])

\* w is in the line, after its first p characters
StandsAt(line, p, w) ==
  p + Len(w) <= Len(line) /\ \A j \in 1 .. Len(w) : line[p + j] = w[j]

LEMMA InsideTaken ==
  ASSUME NEW line \in Text, NEW ts, TokenRun(line, ts), NEW w \in Text, NEW p \in Nat,
         StandsAt(line, p, w), \A j \in 1 .. Len(w) : w[j] \notin {Quote, LineEnd},
         NEW t, ts[p] = Inside(t, <<>>)
  PROVE  ts[p + Len(w)] = Inside(t, w)
<1> DEFINE N == {j \in Nat : j <= Len(w) => ts[p + j] = Inside(t, SubSeq(w, 1, j))}
<1>1. Len(w) \in Nat /\ Len(line) \in Nat /\ w \in Seq(Chars)
  BY DEF Text
<1>2. 0 \in N
  <2>1. SubSeq(w, 1, 0) = <<>> /\ p + 0 = p
    BY <1>1, WholePiece
  <2> QED BY <2>1
<1>3. ASSUME NEW j \in Nat, j \in N PROVE j + 1 \in N
  <2>1. SUFFICES ASSUME j + 1 <= Len(w)
                 PROVE  ts[p + (j + 1)] = Inside(t, SubSeq(w, 1, j + 1))
    OBVIOUS
  <2>2. ts[p + j] = Inside(t, SubSeq(w, 1, j))
    BY <1>1, <1>3, <2>1
  <2> HIDE DEF N
  <2>3. /\ p + j \in 0 .. Len(line) - 1 /\ p + (j + 1) = (p + j) + 1 /\ j + 1 \in 1 .. Len(w)
        /\ j < Len(w) /\ 1 <= j + 1
    BY <1>1, <2>1 DEF StandsAt
  <2>4. line[(p + j) + 1] = w[j + 1]
    <3>1. line[p + (j + 1)] = w[j + 1]
      BY <2>3 DEF StandsAt
    <3> QED BY <2>3, <3>1
  <2>5. ts[(p + j) + 1] = TakeToken(Inside(t, SubSeq(w, 1, j)), w[j + 1])
    BY <2>2, <2>3, <2>4 DEF TokenRun
  <2>6. ts[(p + j) + 1] = Inside(t, Append(SubSeq(w, 1, j), w[j + 1]))
    BY <2>3, <2>5, TakenTokens
  <2>7. Append(SubSeq(w, 1, j), w[j + 1]) = SubSeq(w, 1, j + 1)
    BY <1>1, <2>3, LongerPiece
  <2> QED BY <2>3, <2>6, <2>7
<1>4. Nat \subseteq N
  <2> HIDE DEF N
  <2> QED BY <1>2, <1>3, NumbersByInduction
<1>5. ts[p + Len(w)] = Inside(t, SubSeq(w, 1, Len(w)))
  BY <1>1, <1>4
<1> QED BY <1>1, <1>5, WholePiece

LEMMA OutsideTaken ==
  ASSUME NEW line \in Text, NEW ts, TokenRun(line, ts), NEW w \in Text, NEW p \in Nat,
         StandsAt(line, p, w), \A j \in 1 .. Len(w) : w[j] \notin {Quote, LineEnd, Blank},
         NEW t, ts[p] = Outside(t, <<>>)
  PROVE  ts[p + Len(w)] = Outside(t, w)
<1> DEFINE N == {j \in Nat : j <= Len(w) => ts[p + j] = Outside(t, SubSeq(w, 1, j))}
<1>1. Len(w) \in Nat /\ Len(line) \in Nat /\ w \in Seq(Chars)
  BY DEF Text
<1>2. 0 \in N
  <2>1. SubSeq(w, 1, 0) = <<>> /\ p + 0 = p
    BY <1>1, WholePiece
  <2> QED BY <2>1
<1>3. ASSUME NEW j \in Nat, j \in N PROVE j + 1 \in N
  <2>1. SUFFICES ASSUME j + 1 <= Len(w)
                 PROVE  ts[p + (j + 1)] = Outside(t, SubSeq(w, 1, j + 1))
    OBVIOUS
  <2>2. ts[p + j] = Outside(t, SubSeq(w, 1, j))
    BY <1>1, <1>3, <2>1
  <2> HIDE DEF N
  <2>3. /\ p + j \in 0 .. Len(line) - 1 /\ p + (j + 1) = (p + j) + 1 /\ j + 1 \in 1 .. Len(w)
        /\ j < Len(w) /\ 1 <= j + 1
    BY <1>1, <2>1 DEF StandsAt
  <2>4. line[(p + j) + 1] = w[j + 1]
    <3>1. line[p + (j + 1)] = w[j + 1]
      BY <2>3 DEF StandsAt
    <3> QED BY <2>3, <3>1
  <2>5. ts[(p + j) + 1] = TakeToken(Outside(t, SubSeq(w, 1, j)), w[j + 1])
    BY <2>2, <2>3, <2>4 DEF TokenRun
  <2>6. ts[(p + j) + 1] = Outside(t, Append(SubSeq(w, 1, j), w[j + 1]))
    BY <2>3, <2>5, TakenTokens
  <2>7. Append(SubSeq(w, 1, j), w[j + 1]) = SubSeq(w, 1, j + 1)
    BY <1>1, <2>3, LongerPiece
  <2> QED BY <2>3, <2>6, <2>7
<1>4. Nat \subseteq N
  <2> HIDE DEF N
  <2> QED BY <1>2, <1>3, NumbersByInduction
<1>5. ts[p + Len(w)] = Outside(t, SubSeq(w, 1, Len(w)))
  BY <1>1, <1>4
<1> QED BY <1>1, <1>5, WholePiece

\* what stands somewhere, its halves stand there
LEMMA HalvesStand ==
  ASSUME NEW line \in Text, NEW a \in Text, NEW b \in Text, NEW p \in Nat,
         StandsAt(line, p, a \o b)
  PROVE  /\ StandsAt(line, p, a) /\ StandsAt(line, p + Len(a), b)
         /\ p + Len(a) \in Nat /\ p + Len(a \o b) = (p + Len(a)) + Len(b)
<1> DEFINE c == a \o b
<1>1. /\ Len(c) = Len(a) + Len(b) /\ Len(a) \in Nat /\ Len(b) \in Nat /\ Len(line) \in Nat
      /\ \A i \in 1 .. Len(a) : c[i] = a[i]
      /\ \A i \in 1 .. Len(b) : c[Len(a) + i] = b[i]
  BY Glued DEF Text
<1>2. p + Len(c) <= Len(line) /\ \A j \in 1 .. Len(c) : line[p + j] = c[j]
  BY DEF StandsAt
<1> HIDE DEF c
<1>3. ASSUME NEW j \in 1 .. Len(a) PROVE line[p + j] = a[j]
  <2>1. j \in 1 .. Len(c)
    BY <1>1
  <2> QED BY <1>1, <1>2, <2>1
<1>4. ASSUME NEW j \in 1 .. Len(b) PROVE line[(p + Len(a)) + j] = b[j]
  <2>1. Len(a) + j \in 1 .. Len(c) /\ p + (Len(a) + j) = (p + Len(a)) + j
    BY <1>1
  <2> QED BY <1>1, <1>2, <2>1
<1>5. p + Len(a) <= Len(line) /\ (p + Len(a)) + Len(b) <= Len(line) /\ p + Len(a) \in Nat
      /\ p + Len(c) = (p + Len(a)) + Len(b)
  BY <1>1, <1>2
<1> QED BY <1>3, <1>4, <1>5 DEF StandsAt, c

\* a character in a line is the next one that tokenize takes
LEMMA OneTaken ==
  ASSUME NEW line \in Text, NEW ts, TokenRun(line, ts), NEW p \in Nat, NEW ch \in {Blank, Quote},
         StandsAt(line, p, <<ch>>)
  PROVE  ts[p + 1] = TakeToken(ts[p], ch)
<1>1. Len(<<ch>>) = 1 /\ <<ch>>[1] = ch /\ Len(line) \in Nat
  BY DEF Text
<1>2. p + 1 <= Len(line) /\ line[p + 1] = ch
  BY <1>1 DEF StandsAt
<1>3. p \in 0 .. Len(line) - 1
  BY <1>1, <1>2
<1> QED BY <1>2, <1>3 DEF TokenRun

\* a word of a plain record, quoted or not
LEMMA WordTaken ==
  ASSUME NEW r \in Records, Plain(r), NEW i \in 1 .. Len(r.words),
         NEW line \in Text, NEW ts, TokenRun(line, ts), NEW p \in Nat,
         StandsAt(line, p, Written(r, i)), NEW t, ts[p] = Outside(t, <<>>)
  PROVE  ts[p + Len(Written(r, i))] = Outside(t, r.words[i]) /\ r.words[i] # <<>>
<1> DEFINE w == r.words[i]
<1>1. w \in Text /\ Len(w) \in Nat /\ DOMAIN w = 1 .. Len(w) /\ i \in DOMAIN r.words
  BY RecordWords DEF Text
<1>2. LET has == {w[j] : j \in DOMAIN w}
      IN  has # {} /\ has \cap {Quote, LineEnd} = {} /\ (Blank \in has => i \in r.quoted)
  BY <1>1 DEF Plain
<1>3. w # <<>> /\ \A j \in 1 .. Len(w) : w[j] \notin {Quote, LineEnd}
      /\ (i \notin r.quoted => w[j] # Blank)
  <2> DEFINE has == {w[j] : j \in DOMAIN w}
  <2>1. has # {} /\ has \cap {Quote, LineEnd} = {} /\ (Blank \in has => i \in r.quoted)
    BY <1>2
  <2>2. w # <<>>
    <3>1. DOMAIN w # {}
      BY <2>1
    <3> QED BY <3>1
  <2>3. ASSUME NEW j \in 1 .. Len(w)
        PROVE  w[j] \notin {Quote, LineEnd} /\ (i \notin r.quoted => w[j] # Blank)
    <3>1. w[j] \in has
      BY <1>1
    <3> HIDE DEF has, w
    <3> QED BY <2>1, <3>1
  <2> QED BY <2>2, <2>3
<1> HIDE DEF w
<1>4. CASE i \notin r.quoted
  <2>1. Written(r, i) = w
    BY <1>4 DEF Written, w
  <2>2. ts[p + Len(w)] = Outside(t, w)
    BY <1>1, <1>3, <1>4, <2>1, OutsideTaken
  <2> QED BY <1>3, <2>1, <2>2 DEF w
<1>5. CASE i \in r.quoted
  <2> DEFINE q == <<Quote>>
             h == q \o w
  <2>1. q \in Text /\ Len(q) = 1 /\ h \in Text
    BY <1>1, Empty, Glued
  <2>2. Written(r, i) = h \o q
    BY <1>5 DEF Written, w
  <2>3. StandsAt(line, p, h \o q)
    BY <2>2
  <2> HIDE DEF q, h
  <2>4. StandsAt(line, p, h) /\ StandsAt(line, p + Len(h), q) /\ p + Len(h) \in Nat
    BY <2>1, <2>3, HalvesStand, Zenon
  <2>5. StandsAt(line, p, q \o w)
    BY <2>4 DEF h
  <2>6. StandsAt(line, p, q) /\ StandsAt(line, p + Len(q), w) /\ p + Len(q) \in Nat
    BY <1>1, <2>1, <2>5, HalvesStand, Zenon
  <2>7. Len(h) = Len(q) + Len(w) /\ Len(h \o q) = Len(h) + Len(q)
    BY <1>1, <2>1, Glued, Zenon DEF h
  <2> DEFINE e == p + Len(h)
  <2>8. e \in Nat /\ e = (p + 1) + Len(w) /\ p + Len(h \o q) = e + 1
    BY <1>1, <2>1, <2>4, <2>7
  <2> HIDE DEF e
  <2>9. ts[p + 1] = Inside(t, <<>>)
    <3>1. ts[p + 1] = TakeToken(ts[p], Quote)
      BY <2>6, OneTaken DEF q
    <3> QED BY <3>1, TakenTokens
  <2>10. ts[(p + 1) + Len(w)] = Inside(t, w)
    <3>1. StandsAt(line, p + 1, w) /\ p + 1 \in Nat
      BY <2>1, <2>6
    <3> QED BY <1>1, <1>3, <2>9, <3>1, InsideTaken
  <2>11. ts[e + 1] = Outside(t, w)
    <3>1. StandsAt(line, e, <<Quote>>)
      BY <2>4 DEF e, q
    <3>2. ts[e + 1] = TakeToken(ts[e], Quote)
      BY <2>8, <3>1, OneTaken
    <3> QED BY <2>8, <2>10, <3>2, TakenTokens
  <2> QED BY <1>3, <2>2, <2>8, <2>11 DEF w
<1> QED BY <1>4, <1>5

\* the first words are found, the last of them still open
Found(r, m, s) ==
  IF m = 0 THEN s = Outside(<<>>, <<>>)
           ELSE s = Outside(SubSeq(r.words, 1, m - 1), r.words[m]) /\ r.words[m] # <<>>

LEMMA NextFound ==
  ASSUME NEW r \in Records, Plain(r), NEW m \in Nat, m + 1 \in 1 .. Len(r.words),
         NEW line \in Text, NEW ts, TokenRun(line, ts), NEW text \in Text,
         StandsAt(line, 0, (text \o Separator(m + 1)) \o Written(r, m + 1)),
         Found(r, m, ts[Len(text)])
  PROVE  Found(r, m + 1, ts[Len((text \o Separator(m + 1)) \o Written(r, m + 1))])
<1> DEFINE sep == Separator(m + 1)
           w == Written(r, m + 1)
           h == text \o sep
<1>1. /\ sep \in Text /\ w \in Text /\ h \in Text
      /\ Len(text) \in Nat /\ Len(sep) \in Nat /\ Len(h) \in Nat /\ Len(w) \in Nat
  <2>1. sep \in Text
    BY Empty DEF Separator
  <2>2. w \in Text
    <3>1. IsText(text) => w \in Text
      BY AddedWord
    <3>2. w \in Text
      BY Empty, AddedWord
    <3> QED BY <3>2
  <2>3. h \in Text
    BY <2>1, Glued
  <2> HIDE DEF sep, w, h
  <2> QED BY <2>1, <2>2, <2>3 DEF Text
<1>2. Len(h) = Len(text) + Len(sep) /\ Len(h \o w) = Len(h) + Len(w)
  BY <1>1, Glued, Zenon
<1> HIDE DEF sep, w, h
<1>3. StandsAt(line, 0, h \o w)
  BY DEF sep, w, h
<1>4. StandsAt(line, 0, h) /\ StandsAt(line, 0 + Len(h), w)
  BY <1>1, <1>3, HalvesStand, Zenon
<1>5. StandsAt(line, 0 + Len(text), sep)
  <2>1. StandsAt(line, 0, text \o sep)
    BY <1>4 DEF h
  <2> QED BY <1>1, <2>1, HalvesStand, Zenon
<1>6. StandsAt(line, Len(text), sep) /\ StandsAt(line, Len(h), w)
  BY <1>1, <1>4, <1>5
<1>7. ts[Len(h)] = Outside(SubSeq(r.words, 1, m), <<>>)
  <2>1. CASE m = 0
    <3>1. sep = <<>> /\ Len(sep) = 0
      BY <2>1, Empty DEF Separator, sep
    <3>2. Len(h) = Len(text)
      BY <1>1, <1>2, <3>1
    <3>3. SubSeq(r.words, 1, m) = <<>>
      BY <2>1, RecordWords, WholePiece
    <3> QED BY <2>1, <3>2, <3>3 DEF Found
  <2>2. CASE m # 0
    <3>1. sep = <<Blank>> /\ Len(sep) = 1
      <4>1. m + 1 # 1
        BY <2>2
      <4> QED BY <4>1, Empty DEF Separator, sep
    <3>2. Len(h) = Len(text) + 1 /\ StandsAt(line, Len(text), <<Blank>>)
      BY <1>2, <1>6, <3>1
    <3>3. ts[Len(text)] = Outside(SubSeq(r.words, 1, m - 1), r.words[m]) /\ r.words[m] # <<>>
      BY <2>2 DEF Found
    <3>4. ts[Len(text) + 1] = TakeToken(ts[Len(text)], Blank)
      BY <1>1, <3>2, OneTaken
    <3>5. ts[Len(h)] = Outside(Append(SubSeq(r.words, 1, m - 1), r.words[m]), <<>>)
      <4> DEFINE t == SubSeq(r.words, 1, m - 1)
                 c == r.words[m]
      <4>1. Ended(t, c) = Append(t, c)
        BY <3>3 DEF Ended
      <4>2. ts[Len(text) + 1] = TakeToken(Outside(t, c), Blank)
        BY <3>3, <3>4
      <4> HIDE DEF t, c
      <4>3. TakeToken(Outside(t, c), Blank) = Outside(Ended(t, c), <<>>)
        BY TakenTokens, Zenon
      <4>4. ts[Len(text) + 1] = Outside(Append(t, c), <<>>)
        BY <4>1, <4>2, <4>3, Zenon
      <4> QED BY <3>2, <4>4 DEF t, c
    <3>6. Append(SubSeq(r.words, 1, m - 1), r.words[m]) = SubSeq(r.words, 1, m)
      <4> DEFINE b == m - 1
      <4>1. b \in Nat /\ 1 <= b + 1 /\ b < Len(r.words) /\ b + 1 = m
        BY <2>2, RecordWords
      <4> HIDE DEF b
      <4>2. Append(SubSeq(r.words, 1, b), r.words[b + 1]) = SubSeq(r.words, 1, b + 1)
        BY <4>1, RecordWords, LongerPiece
      <4> QED BY <4>1, <4>2 DEF b
    <3> QED BY <3>5, <3>6
  <2> QED BY <2>1, <2>2
<1>8. ts[Len(h) + Len(w)] = Outside(SubSeq(r.words, 1, m), r.words[m + 1])
      /\ r.words[m + 1] # <<>>
  BY <1>1, <1>6, <1>7, WordTaken DEF w
<1>9. Found(r, m + 1, ts[Len(h \o w)])
  <2>1. m + 1 # 0 /\ (m + 1) - 1 = m
    OBVIOUS
  <2>2. ts[Len(h \o w)] = Outside(SubSeq(r.words, 1, (m + 1) - 1), r.words[m + 1])
    BY <1>2, <1>8, <2>1
  <2> QED BY <1>8, <2>1, <2>2 DEF Found
<1> QED BY <1>9 DEF h, w, sep

LEMMA WordsFound ==
  ASSUME NEW r \in Records, Plain(r), NEW st, WordTexts(r, st),
         NEW line \in Text, NEW ts, TokenRun(line, ts)
  PROVE  \A m \in 0 .. Len(r.words) : StandsAt(line, 0, st[m]) => Found(r, m, ts[Len(st[m])])
<1> DEFINE N == {m \in Nat : m <= Len(r.words) /\ StandsAt(line, 0, st[m]) =>
                               Found(r, m, ts[Len(st[m])])}
<1>1. 0 \in N
  <2>1. Len(st[0]) = 0
    BY Empty DEF WordTexts
  <2>2. ts[0] = Outside(<<>>, <<>>)
    BY DEF TokenRun, NoTokens, Outside
  <2> QED BY <2>1, <2>2 DEF Found
<1>2. ASSUME NEW m \in Nat, m \in N PROVE m + 1 \in N
  <2>1. SUFFICES ASSUME m + 1 <= Len(r.words), StandsAt(line, 0, st[m + 1])
                 PROVE  Found(r, m + 1, ts[Len(st[m + 1])])
    OBVIOUS
  <2>2. m \in 0 .. Len(r.words) - 1 /\ m + 1 \in 1 .. Len(r.words) /\ m <= Len(r.words)
        /\ m \in 0 .. Len(r.words)
    BY <2>1, RecordWords
  <2>3. st[m] \in Text /\ IsText(st[m])
    BY <2>2, TextsAreText
  <2> DEFINE sep == Separator(m + 1)
             w == Written(r, m + 1)
  <2>4. st[m + 1] = (st[m] \o sep) \o w /\ sep \in Text /\ w \in Text
    <3>1. st[m + 1] = AddWord(r, st[m], m + 1)
      BY <2>2 DEF WordTexts
    <3> QED BY <2>2, <2>3, <3>1, AddedWord
  <2>5. StandsAt(line, 0, st[m])
    <3> HIDE DEF N, sep, w
    <3>1. st[m] \o sep \in Text
      BY <2>3, <2>4, Glued
    <3>2. StandsAt(line, 0, (st[m] \o sep) \o w)
      BY <2>1, <2>4
    <3>3. StandsAt(line, 0, st[m] \o sep)
      BY <2>4, <3>1, <3>2, HalvesStand, Zenon
    <3> QED BY <2>3, <2>4, <3>3, HalvesStand, Zenon
  <2>6. Found(r, m, ts[Len(st[m])])
    BY <1>2, <2>2, <2>5
  <2> HIDE DEF N
  <2>7. Found(r, m + 1, ts[Len((st[m] \o sep) \o w)])
    BY <2>1, <2>2, <2>3, <2>4, <2>6, NextFound
  <2> HIDE DEF sep, w
  <2> QED BY <2>4, <2>7
<1>3. Nat \subseteq N
  <2> HIDE DEF N
  <2> QED BY <1>1, <1>2, NumbersByInduction
<1> QED BY <1>3, RecordWords

\* tokenize undoes the format! of a plain record
LEMMA TokenizeFinds ==
  ASSUME NEW r \in Records, Plain(r)
  PROVE  Tokenize(SubSeq(Format(r), 1, Len(Format(r)) - 1)) = r.words
<1> DEFINE n == Len(r.words)
<1>1. PICK st : WordTexts(r, st) /\ st[n] = SubSeq(Format(r), 1, Len(Format(r)) - 1)
  BY FormatText
<1>2. n \in Nat /\ n \in 0 .. n /\ r.words \in Seq(Text)
  BY RecordWords
<1> DEFINE line == st[n]
<1>3. line \in Text
  BY <1>1, <1>2, TextsAreText
<1> HIDE DEF line, n
<1>4. Len(line) \in Nat /\ DOMAIN line = 1 .. Len(line)
  BY <1>3 DEF Text
<1>5. PICK ts : TokenRun(line, ts) /\ Tokenize(line) = Ended(ts[Len(line)].tokens, ts[Len(line)].current)
  BY <1>4, TokenStates DEF TokenRun
<1>6. StandsAt(line, 0, line)
  BY <1>4 DEF StandsAt
<1>7. Found(r, n, ts[Len(line)])
  <2>1. \A m \in 0 .. n : StandsAt(line, 0, st[m]) => Found(r, m, ts[Len(st[m])])
    BY <1>1, <1>3, <1>5, WordsFound DEF n
  <2> QED BY <1>2, <1>6, <2>1 DEF line
<1>8. Tokenize(line) = r.words
  <2>1. CASE n = 0
    <3>1. r.words = <<>>
      BY <1>2, <2>1 DEF n
    <3>2. ts[Len(line)].tokens = <<>> /\ ts[Len(line)].current = <<>>
      BY <1>7, <2>1 DEF Found, Outside
    <3> QED BY <1>5, <3>1, <3>2 DEF Ended
  <2>2. CASE n # 0
    <3>1. /\ ts[Len(line)].tokens = SubSeq(r.words, 1, n - 1)
          /\ ts[Len(line)].current = r.words[n] /\ r.words[n] # <<>>
      BY <1>7, <2>2 DEF Found, Outside
    <3>2. Tokenize(line) = Append(SubSeq(r.words, 1, n - 1), r.words[n])
      BY <1>5, <3>1 DEF Ended
    <3> DEFINE b == n - 1
    <3>3. b \in Nat /\ 1 <= b + 1 /\ b < Len(r.words) /\ b + 1 = n
      BY <1>2, <2>2 DEF n
    <3> HIDE DEF b
    <3>4. Append(SubSeq(r.words, 1, b), r.words[b + 1]) = SubSeq(r.words, 1, b + 1)
      BY <1>2, <3>3, LongerPiece
    <3>5. SubSeq(r.words, 1, n) = r.words
      BY <1>2, WholePiece DEF n
    <3> QED BY <3>2, <3>3, <3>4, <3>5 DEF b
  <2> QED BY <2>1, <2>2
<1> QED BY <1>1, <1>8 DEF line, n

\* a plain record makes one line
LEMMA PlainIsOneLine ==
  ASSUME NEW r \in Records, Plain(r)
  PROVE  \A i \in 1 .. Len(Format(r)) - 1 : Format(r)[i] # LineEnd
<1> DEFINE Clean(text) == \A i \in 1 .. Len(text) : text[i] # LineEnd
<1>1. ASSUME NEW a \in Text, NEW b \in Text, Clean(a), Clean(b) PROVE Clean(a \o b)
  <2> DEFINE c == a \o b
  <2>1. /\ Len(c) = Len(a) + Len(b) /\ Len(a) \in Nat /\ Len(b) \in Nat
        /\ \A i \in 1 .. Len(a) : c[i] = a[i]
        /\ \A i \in 1 .. Len(b) : c[Len(a) + i] = b[i]
    BY Glued DEF Text
  <2> HIDE DEF c
  <2>2. ASSUME NEW i \in 1 .. Len(c) PROVE c[i] # LineEnd
    <3>1. CASE i \in 1 .. Len(a)
      BY <1>1, <2>1, <3>1
    <3>2. CASE i \notin 1 .. Len(a)
      <4>1. i - Len(a) \in 1 .. Len(b) /\ Len(a) + (i - Len(a)) = i
        BY <2>1, <3>2
      <4> QED BY <1>1, <2>1, <4>1
    <3> QED BY <3>1, <3>2
  <2> QED BY <2>2 DEF c
<1>2. Clean(<<>>) /\ Clean(<<Blank>>) /\ Clean(<<Quote>>)
  BY Characters
<1>3. ASSUME NEW i \in 1 .. Len(r.words)
      PROVE  Clean(Separator(i)) /\ Clean(Written(r, i)) /\ r.words[i] \in Text
  <2>1. Clean(Separator(i))
    BY <1>2 DEF Separator
  <2> DEFINE w == r.words[i]
  <2>2. w \in Text /\ DOMAIN w = 1 .. Len(w) /\ i \in DOMAIN r.words
    BY RecordWords DEF Text
  <2>3. {w[j] : j \in DOMAIN w} \cap {Quote, LineEnd} = {}
    BY <2>2 DEF Plain
  <2>4. Clean(w)
    <3>1. ASSUME NEW j \in 1 .. Len(w) PROVE w[j] # LineEnd
      <4>1. w[j] \in {w[k] : k \in DOMAIN w}
        BY <2>2
      <4> HIDE DEF w
      <4> QED BY <2>3, <4>1
    <3> QED BY <3>1
  <2> HIDE DEF Clean, w
  <2>5. <<Quote>> \in Text
    BY Empty
  <2>6. <<Quote>> \o w \in Text /\ Clean(<<Quote>> \o w)
    BY <1>1, <1>2, <2>2, <2>4, <2>5, Glued
  <2>7. Clean((<<Quote>> \o w) \o <<Quote>>)
    BY <1>1, <1>2, <2>5, <2>6
  <2>8. Clean(Written(r, i))
    BY <2>4, <2>7 DEF Written, w
  <2> QED BY <2>1, <2>2, <2>8 DEF w
<1> HIDE DEF Clean
<1> DEFINE n == Len(r.words)
<1>4. n \in Nat
  BY RecordWords
<1>5. PICK st : WordTexts(r, st) /\ st[n] = SubSeq(Format(r), 1, Len(Format(r)) - 1)
  BY FormatText
<1> DEFINE N == {m \in Nat : m <= n => Clean(st[m])}
<1>6. 0 \in N
  BY <1>2, <1>5 DEF WordTexts
<1>7. ASSUME NEW m \in Nat, m \in N PROVE m + 1 \in N
  <2>1. SUFFICES ASSUME m + 1 <= n PROVE Clean(st[m + 1])
    OBVIOUS
  <2>2. m \in 0 .. n - 1 /\ m + 1 \in 1 .. n /\ m \in 0 .. n /\ m <= n
    BY <1>4, <2>1
  <2>3. st[m] \in Text /\ IsText(st[m]) /\ Clean(st[m])
    BY <1>5, <1>7, <2>2, TextsAreText
  <2>4. /\ st[m + 1] = (st[m] \o Separator(m + 1)) \o Written(r, m + 1)
        /\ Separator(m + 1) \in Text /\ Written(r, m + 1) \in Text
    <3>1. st[m + 1] = AddWord(r, st[m], m + 1)
      BY <1>5, <2>2 DEF WordTexts
    <3> QED BY <2>2, <2>3, <3>1, AddedWord
  <2>5. Clean(Separator(m + 1)) /\ Clean(Written(r, m + 1))
    BY <1>3, <2>2
  <2> HIDE DEF N, n
  <2>6. st[m] \o Separator(m + 1) \in Text /\ Clean(st[m] \o Separator(m + 1))
    BY <1>1, <2>3, <2>4, <2>5, Glued
  <2>7. Clean((st[m] \o Separator(m + 1)) \o Written(r, m + 1))
    BY <1>1, <2>4, <2>5, <2>6
  <2> QED BY <2>4, <2>7
<1>8. Nat \subseteq N
  <2> HIDE DEF N
  <2> QED BY <1>6, <1>7, NumbersByInduction
<1>9. Clean(st[n])
  BY <1>4, <1>8
<1> DEFINE f == Format(r)
           l == Len(Format(r)) - 1
<1>10. f \in Seq(Chars) /\ l \in Nat /\ l <= Len(f) /\ 1 <= l + 1
  BY FormatText DEF Text
<1>11. Clean(SubSeq(f, 1, l))
  BY <1>5, <1>9
<1> HIDE DEF f, l
<1>12. Len(SubSeq(f, 1, l)) = l - 1 + 1 /\ \A i \in 1 .. l - 1 + 1 : SubSeq(f, 1, l)[i] = f[1 + i - 1]
  BY <1>10, Pieces
<1>13. \A i \in 1 .. l : i \in 1 .. l - 1 + 1 /\ 1 + i - 1 = i /\ i \in 1 .. Len(SubSeq(f, 1, l))
  BY <1>10, <1>12
<1>14. \A i \in 1 .. l : f[i] # LineEnd
  BY <1>11, <1>12, <1>13 DEF Clean
<1> QED BY <1>14 DEF f, l

-----------------------------------------------------------------------------
(* lines finds the lines again.                                            *)

\* the line ends among the first n characters
EndsIn(f, n) == {i \in 1 .. n : f[i] = LineEnd}

\* a line begins after the first b characters
Opens(f, b) == b = 0 \/ f[b] = LineEnd

\* l is a whole line of f, and ends within its first n characters
IsLineUpTo(f, n, l) ==
  \E b, e \in 0 .. n : b < e /\ Opens(f, b) /\ f[e] = LineEnd /\ l = SubSeq(f, b + 1, e - 1)

\* the states of lines on a text
LineRun(f, ls) ==
  /\ ls[0] = NoLines
  /\ \A m \in 0 .. Len(f) - 1 : ls[m + 1] = TakeChar(ls[m], f[m + 1])

\* what the state is after m characters
LinesSoFar(f, m, s) ==
  /\ s = [lines |-> s.lines, open |-> s.open]
  /\ s.lines \in Seq(Text) /\ Len(s.lines) = Cardinality(EndsIn(f, m))
  /\ \A k \in 1 .. Len(s.lines) : IsLineUpTo(f, m, s.lines[k])
  /\ \E b \in 0 .. m : /\ Opens(f, b) /\ s.open = SubSeq(f, b + 1, m)
                       /\ \A i \in b + 1 .. m : f[i] # LineEnd

LEMMA EndsCounted ==
  ASSUME NEW f, NEW m \in Nat
  PROVE  /\ IsFiniteSet(EndsIn(f, m)) /\ Cardinality(EndsIn(f, m)) \in Nat
         /\ f[m + 1] = LineEnd =>
              Cardinality(EndsIn(f, m + 1)) = Cardinality(EndsIn(f, m)) + 1
         /\ f[m + 1] # LineEnd => EndsIn(f, m + 1) = EndsIn(f, m)
<1>1. IsFiniteSet(1 .. m)
  BY FS_Interval
<1>2. EndsIn(f, m) \subseteq 1 .. m
  BY DEF EndsIn
<1>3. IsFiniteSet(EndsIn(f, m)) /\ Cardinality(EndsIn(f, m)) \in Nat
  BY <1>1, <1>2, FS_Subset, FS_CardinalityType
<1>4. ASSUME f[m + 1] = LineEnd
      PROVE  Cardinality(EndsIn(f, m + 1)) = Cardinality(EndsIn(f, m)) + 1
  <2>1. EndsIn(f, m + 1) = EndsIn(f, m) \cup {m + 1} /\ m + 1 \notin EndsIn(f, m)
    BY <1>4 DEF EndsIn
  <2> QED BY <1>3, <2>1, FS_AddElement
<1>5. ASSUME f[m + 1] # LineEnd PROVE EndsIn(f, m + 1) = EndsIn(f, m)
  BY <1>5 DEF EndsIn
<1> QED BY <1>3, <1>4, <1>5

LEMMA LinesGrow ==
  ASSUME NEW f \in Text, NEW ls, LineRun(f, ls), NEW m \in Nat, m < Len(f),
         LinesSoFar(f, m, ls[m])
  PROVE  /\ LinesSoFar(f, m + 1, ls[m + 1])
         /\ Len(ls[m].lines) <= Len(ls[m + 1].lines)
         /\ \A k \in 1 .. Len(ls[m].lines) : ls[m + 1].lines[k] = ls[m].lines[k]
         /\ f[m + 1] = LineEnd => ls[m + 1].lines = Append(ls[m].lines, ls[m].open)
<1> DEFINE s == ls[m]
           t == ls[m + 1]
<1>1. t = TakeChar(s, f[m + 1]) /\ f \in Seq(Chars) /\ Len(f) \in Nat
  BY DEF LineRun, Text
<1>2. /\ s = [lines |-> s.lines, open |-> s.open]
      /\ s.lines \in Seq(Text) /\ Len(s.lines) = Cardinality(EndsIn(f, m))
      /\ \A k \in 1 .. Len(s.lines) : IsLineUpTo(f, m, s.lines[k])
  BY DEF LinesSoFar
<1>3. PICK b \in 0 .. m : /\ Opens(f, b) /\ s.open = SubSeq(f, b + 1, m)
                          /\ \A i \in b + 1 .. m : f[i] # LineEnd
  BY DEF LinesSoFar
<1> HIDE DEF s, t
<1>4. b + 1 \in Nat \ {0} /\ b + 1 <= m + 1 /\ b \in 0 .. m + 1
  OBVIOUS
<1>5. s.open \in Text
  <2>1. SubSeq(f, b + 1, m) \in Seq(Chars)
    BY <1>1, <1>4, Pieces
  <2> QED BY <1>3, <2>1 DEF Text
<1>6. \A l : IsLineUpTo(f, m, l) => IsLineUpTo(f, m + 1, l)
  <2>1. 0 .. m \subseteq 0 .. m + 1
    OBVIOUS
  <2> QED BY <2>1 DEF IsLineUpTo
<1>7. CASE f[m + 1] = LineEnd
  <2>1. t = [lines |-> Append(s.lines, s.open), open |-> <<>>]
    BY <1>1, <1>7 DEF TakeChar
  <2>2. t.lines = Append(s.lines, s.open) /\ t.open = <<>> /\ t = [lines |-> t.lines, open |-> t.open]
    BY <2>1
  <2>3. /\ t.lines \in Seq(Text) /\ Len(t.lines) = Len(s.lines) + 1 /\ Len(s.lines) \in Nat
        /\ \A k \in 1 .. Len(s.lines) : t.lines[k] = s.lines[k]
        /\ t.lines[Len(s.lines) + 1] = s.open
    BY <1>2, <1>5, <2>2
  <2>4. Len(t.lines) = Cardinality(EndsIn(f, m + 1))
    BY <1>2, <1>7, <2>3, EndsCounted
  <2>5. IsLineUpTo(f, m + 1, s.open)
    <3>1. m + 1 \in 0 .. m + 1 /\ b < m + 1 /\ (m + 1) - 1 = m
      OBVIOUS
    <3> QED BY <1>3, <1>4, <1>7, <3>1 DEF IsLineUpTo
  <2>6. ASSUME NEW k \in 1 .. Len(t.lines) PROVE IsLineUpTo(f, m + 1, t.lines[k])
    <3>1. k \in 1 .. Len(s.lines) \/ k = Len(s.lines) + 1
      BY <2>3
    <3> QED BY <1>2, <1>6, <2>3, <2>5, <3>1
  <2>7. /\ m + 1 \in 0 .. m + 1 /\ Opens(f, m + 1) /\ t.open = SubSeq(f, (m + 1) + 1, m + 1)
        /\ \A i \in (m + 1) + 1 .. m + 1 : f[i] # LineEnd
    <3>1. m + 1 \in 0 .. m + 1 /\ (m + 1) + 1 \in Nat \ {0} /\ m + 1 <= Len(f)
          /\ \A i \in (m + 1) + 1 .. m + 1 : FALSE
      BY <1>1
    <3>2. SubSeq(f, (m + 1) + 1, m + 1) = <<>>
      <4>1. \A u \in Seq(Chars) : Len(u) = 0 => u = <<>>
        OBVIOUS
      <4> DEFINE g == SubSeq(f, (m + 1) + 1, m + 1)
      <4>2. g \in Seq(Chars) /\ Len(g) = (m + 1) - ((m + 1) + 1) + 1
        BY <1>1, <3>1, Pieces
      <4>3. (m + 1) - ((m + 1) + 1) + 1 = 0
        OBVIOUS
      <4> QED BY <4>1, <4>2, <4>3
    <3> QED BY <1>7, <2>2, <3>1, <3>2 DEF Opens
  <2>8. LinesSoFar(f, m + 1, t)
    BY <2>2, <2>3, <2>4, <2>6, <2>7 DEF LinesSoFar
  <2> QED BY <2>2, <2>3, <2>8 DEF s, t
<1>8. CASE f[m + 1] # LineEnd
  <2>1. t = [s EXCEPT !.open = Append(@, f[m + 1])]
    BY <1>1, <1>8 DEF TakeChar
  <2>2. t = [lines |-> s.lines, open |-> Append(s.open, f[m + 1])]
    <3>1. \A l, o, c : [[lines |-> l, open |-> o] EXCEPT !.open = c] = [lines |-> l, open |-> c]
      OBVIOUS
    <3>2. t = [s EXCEPT !.open = Append(s.open, f[m + 1])]
      BY <2>1
    <3> QED BY <1>2, <3>1, <3>2, Zenon
  <2>3. t.lines = s.lines /\ t.open = Append(s.open, f[m + 1]) /\ t = [lines |-> t.lines, open |-> t.open]
    BY <2>2
  <2>4. Len(t.lines) = Cardinality(EndsIn(f, m + 1))
    BY <1>2, <1>8, <2>3, EndsCounted
  <2>5. \A k \in 1 .. Len(t.lines) : IsLineUpTo(f, m + 1, t.lines[k])
    BY <1>2, <1>6, <2>3
  <2>6. t.open = SubSeq(f, b + 1, m + 1)
    BY <1>1, <1>3, <1>4, <2>3, LongerPiece
  <2>7. \A i \in b + 1 .. m + 1 : f[i] # LineEnd
    <3>1. \A i \in b + 1 .. m + 1 : i \in b + 1 .. m \/ i = m + 1
      OBVIOUS
    <3> QED BY <1>3, <1>8, <3>1
  <2>8. LinesSoFar(f, m + 1, t)
    BY <1>2, <1>3, <1>4, <2>3, <2>4, <2>5, <2>6, <2>7 DEF LinesSoFar
  <2> QED BY <1>2, <1>8, <2>3, <2>8 DEF s, t
<1> QED BY <1>7, <1>8

\* the state after any number of characters, and that what has been a line stays one
LEMMA LinesKept ==
  ASSUME NEW f \in Text, NEW ls, LineRun(f, ls)
  PROVE  /\ \A m \in 0 .. Len(f) : LinesSoFar(f, m, ls[m])
         /\ \A m, j \in 0 .. Len(f) : m <= j =>
              /\ Len(ls[m].lines) <= Len(ls[j].lines)
              /\ \A k \in 1 .. Len(ls[m].lines) : ls[j].lines[k] = ls[m].lines[k]
<1>1. f \in Seq(Chars) /\ Len(f) \in Nat
  BY DEF Text
<1> DEFINE N == {m \in Nat : m <= Len(f) => LinesSoFar(f, m, ls[m])}
<1>2. 0 \in N
  <2> DEFINE s == ls[0]
  <2>1. s.lines = <<>> /\ s.open = <<>> /\ s = [lines |-> s.lines, open |-> s.open]
    BY DEF LineRun, NoLines
  <2>2. s.lines \in Seq(Text) /\ Len(s.lines) = 0
    BY <2>1
  <2>3. Cardinality(EndsIn(f, 0)) = 0
    <3>1. EndsIn(f, 0) = {}
      BY DEF EndsIn
    <3> QED BY <3>1, FS_EmptySet
  <2>4. /\ 0 \in 0 .. 0 /\ Opens(f, 0) /\ s.open = SubSeq(f, 0 + 1, 0)
        /\ \A i \in 0 + 1 .. 0 : f[i] # LineEnd
    <3>1. SubSeq(f, 1, 0) = <<>>
      BY <1>1, WholePiece
    <3> QED BY <2>1, <3>1 DEF Opens
  <2> HIDE DEF s
  <2>5. LinesSoFar(f, 0, s)
    BY <2>1, <2>2, <2>3, <2>4 DEF LinesSoFar
  <2> QED BY <2>5 DEF s
<1>3. ASSUME NEW m \in Nat, m \in N PROVE m + 1 \in N
  <2>1. SUFFICES ASSUME m + 1 <= Len(f) PROVE LinesSoFar(f, m + 1, ls[m + 1])
    OBVIOUS
  <2>2. m < Len(f) /\ LinesSoFar(f, m, ls[m])
    BY <1>1, <1>3, <2>1
  <2> QED BY <2>2, LinesGrow
<1>4. Nat \subseteq N
  <2> HIDE DEF N
  <2> QED BY <1>2, <1>3, NumbersByInduction
<1>5. \A m \in 0 .. Len(f) : LinesSoFar(f, m, ls[m])
  BY <1>1, <1>4
<1>6. ASSUME NEW m \in 0 .. Len(f)
      PROVE  \A j \in 0 .. Len(f) : m <= j =>
               /\ Len(ls[m].lines) <= Len(ls[j].lines)
               /\ \A k \in 1 .. Len(ls[m].lines) : ls[j].lines[k] = ls[m].lines[k]
  <2> DEFINE Kept(j) == /\ Len(ls[m].lines) <= Len(ls[j].lines)
                        /\ \A k \in 1 .. Len(ls[m].lines) : ls[j].lines[k] = ls[m].lines[k]
             M == {d \in Nat : m + d <= Len(f) => Kept(m + d)}
  <2>1. \A j \in 0 .. Len(f) : Len(ls[j].lines) \in Nat
    <3>1. ASSUME NEW j \in 0 .. Len(f) PROVE ls[j].lines \in Seq(Text)
      BY <1>5 DEF LinesSoFar
    <3> QED BY <3>1
  <2>2. 0 \in M
    <3>1. m + 0 = m
      OBVIOUS
    <3> QED BY <2>1, <3>1
  <2>3. ASSUME NEW d \in Nat, d \in M PROVE d + 1 \in M
    <3>1. SUFFICES ASSUME m + (d + 1) <= Len(f) PROVE Kept(m + (d + 1))
      OBVIOUS
    <3> DEFINE j == m + d
    <3>2. /\ j \in Nat /\ j < Len(f) /\ j \in 0 .. Len(f) /\ m + (d + 1) = j + 1
          /\ j + 1 \in 0 .. Len(f)
      BY <1>1, <3>1
    <3>3. Kept(j)
      BY <1>1, <2>3, <3>2
    <3> HIDE DEF M, j
    <3>4. /\ Len(ls[j].lines) <= Len(ls[j + 1].lines)
          /\ \A k \in 1 .. Len(ls[j].lines) : ls[j + 1].lines[k] = ls[j].lines[k]
      BY <1>5, <3>2, LinesGrow
    <3>5. Kept(j + 1)
      <4>1. Len(ls[m].lines) \in Nat /\ Len(ls[j].lines) \in Nat /\ Len(ls[j + 1].lines) \in Nat
        BY <2>1, <3>2
      <4>2. Len(ls[m].lines) <= Len(ls[j + 1].lines)
        BY <3>3, <3>4, <4>1
      <4>3. ASSUME NEW k \in 1 .. Len(ls[m].lines) PROVE ls[j + 1].lines[k] = ls[m].lines[k]
        <5>1. k \in 1 .. Len(ls[j].lines)
          BY <3>3, <4>1
        <5> QED BY <3>3, <3>4, <5>1
      <4> QED BY <4>2, <4>3
    <3> HIDE DEF Kept
    <3> QED BY <3>2, <3>5
  <2>4. Nat \subseteq M
    <3> HIDE DEF M
    <3> QED BY <2>2, <2>3, NumbersByInduction
  <2>5. ASSUME NEW j \in 0 .. Len(f), m <= j PROVE Kept(j)
    <3> DEFINE d == j - m
    <3>1. d \in Nat /\ m + d = j /\ m + d <= Len(f)
      BY <1>1, <2>5
    <3> HIDE DEF d, Kept
    <3>2. Kept(m + d)
      BY <2>4, <3>1
    <3> QED BY <3>1, <3>2
  <2> QED BY <2>5
<1> QED BY <1>5, <1>6

\* a piece of the file between two line ends is a line, in its place
LEMMA LineFound ==
  ASSUME NEW f \in Text, NEW b \in Nat, NEW e \in Nat, b < e, e <= Len(f),
         Opens(f, b), f[e] = LineEnd, \A i \in b + 1 .. e - 1 : f[i] # LineEnd
  PROVE  LET n == Cardinality(EndsIn(f, b)) + 1
         IN  /\ n \in 1 .. Len(Lines(f)) /\ Len(Lines(f)) \in Nat
             /\ Lines(f)[n] = SubSeq(f, b + 1, e - 1)
             /\ \A k \in 1 .. n : IsLineUpTo(f, e, Lines(f)[k])
<1> DEFINE n == Cardinality(EndsIn(f, b)) + 1
           N == Len(f)
<1>1. f \in Seq(Chars) /\ N \in Nat /\ DOMAIN f = 1 .. N
  BY DEF Text
<1>2. PICK ls : LineRun(f, ls) /\ Lines(f) = Ended(ls[N].lines, ls[N].open)
  BY <1>1, LineStates DEF LineRun
<1> DEFINE m == e - 1
<1>3. /\ m \in Nat /\ m + 1 = e /\ m < N /\ m \in 0 .. N /\ e \in 0 .. N /\ N \in 0 .. N
      /\ b <= m /\ e <= N
  BY <1>1
<1> HIDE DEF m
<1>4. LinesSoFar(f, m, ls[m]) /\ LinesSoFar(f, e, ls[e]) /\ LinesSoFar(f, N, ls[N])
  BY <1>2, <1>3, LinesKept
<1>5. PICK c \in 0 .. m : /\ Opens(f, c) /\ ls[m].open = SubSeq(f, c + 1, m)
                          /\ \A i \in c + 1 .. m : f[i] # LineEnd
  BY <1>4 DEF LinesSoFar
<1>6. c = b
  <2>1. ~(b > c)
    <3>1. ASSUME b > c PROVE FALSE
      <4>1. b \in c + 1 .. m /\ b # 0
        BY <1>3, <3>1
      <4> QED BY <1>5, <4>1 DEF Opens
    <3> QED BY <3>1
  <2>2. ~(c > b)
    <3>1. ASSUME c > b PROVE FALSE
      <4>1. c \in b + 1 .. e - 1 /\ c # 0
        BY <1>3, <3>1
      <4> QED BY <1>5, <4>1 DEF Opens
    <3> QED BY <3>1
  <2> QED BY <2>1, <2>2
<1>7. EndsIn(f, m) = EndsIn(f, b)
  <2>1. \A i \in 1 .. m : i \in 1 .. b \/ i \in b + 1 .. e - 1
    BY <1>3
  <2>2. \A i \in 1 .. b : i \in 1 .. m
    BY <1>3
  <2> QED BY <2>1, <2>2 DEF EndsIn
<1>8. ls[m].lines \in Seq(Text) /\ Len(ls[m].lines) + 1 = n /\ n \in Nat
  <2>1. Cardinality(EndsIn(f, b)) \in Nat
    BY EndsCounted
  <2>2. ls[m].lines \in Seq(Text) /\ Len(ls[m].lines) = Cardinality(EndsIn(f, m))
    BY <1>4 DEF LinesSoFar
  <2>3. Len(ls[m].lines) = Cardinality(EndsIn(f, b))
    BY <1>7, <2>2, Zenon
  <2> QED BY <2>1, <2>2, <2>3
<1>9. ls[e].lines = Append(ls[m].lines, SubSeq(f, b + 1, m))
  <2>1. f[m + 1] = LineEnd
    BY <1>3
  <2>2. ls[m + 1].lines = Append(ls[m].lines, ls[m].open)
    BY <1>2, <1>3, <1>4, <2>1, LinesGrow
  <2> QED BY <1>3, <1>5, <1>6, <2>2
<1>10. /\ ls[e].lines \in Seq(Text) /\ \A k \in 1 .. Len(ls[e].lines) : IsLineUpTo(f, e, ls[e].lines[k])
       /\ ls[N].lines \in Seq(Text)
  BY <1>4 DEF LinesSoFar
<1>11. n = Len(ls[e].lines) /\ ls[e].lines[n] = SubSeq(f, b + 1, m)
  <2>1. SubSeq(f, b + 1, m) \in Text
    <3>1. b + 1 \in Nat \ {0} /\ b + 1 <= m + 1 /\ m <= Len(f)
      BY <1>3
    <3> QED BY <1>1, <1>3, <3>1, Pieces DEF Text
  <2> DEFINE l == ls[m].lines
             x == SubSeq(f, b + 1, m)
  <2>2. l \in Seq(Text) /\ x \in Text /\ Len(l) + 1 = n /\ ls[e].lines = Append(l, x)
    BY <1>8, <1>9, <2>1
  <2> HIDE DEF n, l, x
  <2>3. Len(Append(l, x)) = Len(l) + 1 /\ Append(l, x)[Len(l) + 1] = x
    BY <2>2
  <2>4. n = Len(Append(l, x)) /\ Append(l, x)[n] = x
    BY <2>2, <2>3
  <2>5. n = Len(ls[e].lines) /\ ls[e].lines[n] = x
    BY <2>2, <2>4, Zenon
  <2> QED BY <2>5 DEF x
<1>12. /\ n <= Len(ls[N].lines)
       /\ \A k \in 1 .. n : ls[N].lines[k] = ls[e].lines[k]
  <2> HIDE DEF N, n
  <2> QED BY <1>2, <1>3, <1>11, LinesKept DEF N
<1> DEFINE all == Lines(f)
<1>13. /\ Len(all) \in Nat /\ Len(ls[N].lines) <= Len(all)
       /\ \A k \in 1 .. Len(ls[N].lines) : all[k] = ls[N].lines[k]
  <2> DEFINE l == ls[N].lines
             o == ls[N].open
  <2>1. l \in Seq(Text) /\ all = Ended(l, o)
    BY <1>2, <1>10
  <2> HIDE DEF l, o, all
  <2>2. all = l \/ all = Append(l, o)
    BY <2>1 DEF Ended
  <2>3. CASE all = l
    BY <2>1, <2>3 DEF l
  <2>4. CASE all = Append(l, o)
    <3>1. /\ Len(Append(l, o)) = Len(l) + 1 /\ Len(l) \in Nat
          /\ \A k \in 1 .. Len(l) : Append(l, o)[k] = l[k]
      BY <2>1
    <3> QED BY <2>4, <3>1 DEF l
  <2> QED BY <2>2, <2>3, <2>4
<1> HIDE DEF all, n, N
<1>14. n \in 1 .. Len(all)
  <2>1. Len(ls[m].lines) \in Nat /\ Len(ls[N].lines) \in Nat
    BY <1>8, <1>10
  <2> QED BY <1>8, <1>12, <1>13, <2>1
<1>15. \A k \in 1 .. n : all[k] = ls[e].lines[k]
  <2>1. Len(ls[N].lines) \in Nat
    BY <1>10
  <2>2. \A k \in 1 .. n : k \in 1 .. Len(ls[N].lines)
    BY <1>8, <1>12, <2>1
  <2> QED BY <1>12, <1>13, <2>2
<1>16. all[n] = SubSeq(f, b + 1, e - 1)
  <2>1. n \in 1 .. n /\ m = e - 1
    BY <1>3, <1>14
  <2> QED BY <1>11, <1>15, <2>1
<1>17. \A k \in 1 .. n : IsLineUpTo(f, e, all[k])
  BY <1>10, <1>11, <1>15
<1> QED BY <1>13, <1>14, <1>16, <1>17 DEF all, n

\* letters are whole among the first n characters
TextUpTo(f, n) ==
  \A i \in 1 .. n : /\ f[i] = Lead => f[i + 1] = Rest
                    /\ f[i] = Rest => i > 1 /\ f[i - 1] = Lead

\* a cut at a line end cuts no letter
LEMMA LinesAreText ==
  ASSUME NEW f \in Text, NEW n \in Nat, n <= Len(f), TextUpTo(f, n), NEW l, IsLineUpTo(f, n, l)
  PROVE  IsText(l)
<1>1. PICK b \in 0 .. n, e \in 0 .. n : b < e /\ Opens(f, b) /\ f[e] = LineEnd
                                        /\ l = SubSeq(f, b + 1, e - 1)
  BY DEF IsLineUpTo
<1> DEFINE s == e - 1
           len == s - b
<1>2. /\ f \in Seq(Chars) /\ Len(f) \in Nat /\ s \in Nat /\ b + 1 \in Nat \ {0} /\ b + 1 <= s + 1
      /\ s <= Len(f) /\ len \in Nat /\ s - (b + 1) + 1 = len /\ s + 1 = e /\ b \in Nat /\ e \in Nat
      /\ b + len + 1 = e
  BY <1>1 DEF Text
<1> HIDE DEF s
<1>3. /\ l \in Seq(Chars) /\ Len(l) = s - (b + 1) + 1
      /\ \A i \in 1 .. s - (b + 1) + 1 : l[i] = f[(b + 1) + i - 1]
  BY <1>1, <1>2, Pieces DEF s
<1> HIDE DEF len
<1>4. DOMAIN l = 1 .. len /\ Len(l) = len /\ \A i \in 1 .. len : l[i] = f[b + i]
  <2>1. \A i \in 1 .. len : (b + 1) + i - 1 = b + i
    BY <1>2
  <2> QED BY <1>2, <1>3, <2>1
<1>5. ASSUME NEW i \in 1 .. len
      PROVE  /\ l[i] = Lead => i < len /\ l[i + 1] = Rest
             /\ l[i] = Rest => i > 1 /\ l[i - 1] = Lead
  <2>1. b + i \in 1 .. n /\ (b + i) + 1 = b + (i + 1) /\ (b + i) - 1 = b + (i - 1)
        /\ b + i < e
    BY <1>1, <1>2
  <2>2. /\ f[b + i] = Lead => f[b + (i + 1)] = Rest
        /\ f[b + i] = Rest => b + i > 1 /\ f[b + (i - 1)] = Lead
    BY <2>1 DEF TextUpTo
  <2>3. ASSUME l[i] = Lead PROVE i < len /\ l[i + 1] = Rest
    <3>1. f[b + (i + 1)] = Rest
      BY <1>4, <2>2, <2>3
    <3>2. b + (i + 1) # e
      BY <1>1, <3>1, Characters
    <3>3. i < len /\ i + 1 \in 1 .. len
      BY <1>2, <3>2
    <3> QED BY <1>4, <3>1, <3>3
  <2>4. ASSUME l[i] = Rest PROVE i > 1 /\ l[i - 1] = Lead
    <3>1. b + i > 1 /\ f[b + (i - 1)] = Lead
      BY <1>4, <2>2, <2>4
    <3>2. i # 1
      <4>1. ASSUME i = 1 PROVE FALSE
        <5>1. b # 0 /\ b + (i - 1) = b
          BY <1>2, <3>1, <4>1
        <5> QED BY <1>1, <3>1, <5>1, Characters DEF Opens
      <4> QED BY <4>1
    <3>3. i > 1 /\ i - 1 \in 1 .. len
      BY <1>2, <3>2
    <3> QED BY <1>4, <3>1, <3>3
  <2> QED BY <2>3, <2>4
<1> QED BY <1>4, <1>5 DEF IsText

\* replay gets as far as the lines are text
LEMMA ReplayReaches ==
  ASSUME NEW f, Len(Lines(f)) \in Nat, NEW n \in 1 .. Len(Lines(f)),
         \A k \in 1 .. n : IsText(Lines(f)[k])
  PROVE  n \in DOMAIN Replayed(f) /\ Replayed(f)[n] = Tokenize(Lines(f)[n])
<1> DEFINE lines == Lines(f)
           read == {m \in 0 .. Len(lines) : \A i \in 1 .. m : IsText(lines[i])}
<1>1. n \in read /\ read \in SUBSET (0 .. Len(lines))
  OBVIOUS
<1>2. Replayed(f) = [i \in 1 .. Max(read) |-> Tokenize(lines[i])]
  BY Zenon DEF Replayed
<1> HIDE DEF read
<1>3. Max(read) \in read /\ n <= Max(read)
  BY <1>1, MaxUpTo
<1>4. n \in 1 .. Max(read)
  BY <1>1, <1>3
<1> QED BY <1>2, <1>4

\* a plain record that stands after a line end, in what is text so far, is read back
LEMMA PlainReadBack ==
  ASSUME NEW f \in Text, NEW b \in Nat, NEW r \in Records, Plain(r),
         StandsAt(f, b, Format(r)), Opens(f, b), TextUpTo(f, b + Len(Format(r)))
  PROVE  LET n == Cardinality(EndsIn(f, b)) + 1
         IN  n \in DOMAIN Replayed(f) /\ Replayed(f)[n] = r.words
<1> DEFINE w == Format(r)
           e == b + Len(w)
           n == Cardinality(EndsIn(f, b)) + 1
<1>1. w \in Text /\ Len(w) \in Nat \ {0} /\ w[Len(w)] = LineEnd /\ f \in Seq(Chars) /\ Len(f) \in Nat
  BY FormatText DEF Text
<1>2. \A i \in 1 .. Len(w) - 1 : w[i] # LineEnd
  BY PlainIsOneLine
<1>3. Tokenize(SubSeq(w, 1, Len(w) - 1)) = r.words
  BY TokenizeFinds
<1> HIDE DEF w
<1>4. e \in Nat /\ b < e /\ e <= Len(f) /\ f[e] = LineEnd
  <2>1. Len(w) \in 1 .. Len(w)
    BY <1>1
  <2>2. e <= Len(f) /\ f[b + Len(w)] = w[Len(w)]
    BY <2>1 DEF StandsAt, w
  <2> QED BY <1>1, <2>2
<1>5. ASSUME NEW i \in b + 1 .. e - 1 PROVE f[i] # LineEnd
  <2>1. i - b \in 1 .. Len(w) - 1 /\ i - b \in 1 .. Len(w) /\ b + (i - b) = i
    BY <1>1, <1>4
  <2>2. f[b + (i - b)] = w[i - b]
    BY <2>1 DEF StandsAt, w
  <2> QED BY <1>2, <2>1, <2>2
<1>6. SubSeq(f, b + 1, e - 1) = SubSeq(w, 1, Len(w) - 1)
  <2> DEFINE l == Len(w) - 1
             s == SubSeq(f, b + 1, e - 1)
             t == SubSeq(w, 1, l)
  <2>1. /\ l \in Nat /\ 1 <= l + 1 /\ l <= Len(w) /\ w \in Seq(Chars) /\ l - 1 + 1 = l
        /\ b + 1 \in Nat \ {0} /\ e - 1 \in Nat /\ b + 1 <= (e - 1) + 1 /\ e - 1 <= Len(f)
        /\ (e - 1) - (b + 1) + 1 = l
    BY <1>1, <1>4 DEF Text
  <2>2. t \in Seq(Chars) /\ Len(t) = l - 1 + 1 /\ \A i \in 1 .. l - 1 + 1 : t[i] = w[1 + i - 1]
    BY <2>1, Pieces
  <2>3. /\ s \in Seq(Chars) /\ Len(s) = (e - 1) - (b + 1) + 1
        /\ \A i \in 1 .. (e - 1) - (b + 1) + 1 : s[i] = f[(b + 1) + i - 1]
    BY <1>1, <2>1, Pieces
  <2> HIDE DEF s, t
  <2>4. ASSUME NEW i \in 1 .. l PROVE s[i] = t[i]
    <3>1. 1 + i - 1 = i /\ (b + 1) + i - 1 = b + i /\ i \in 1 .. Len(w)
      BY <2>1
    <3>2. f[b + i] = w[i]
      BY <3>1 DEF StandsAt, w
    <3> QED BY <2>1, <2>2, <2>3, <3>1, <3>2
  <2> HIDE DEF l, e
  <2>5. s = t
    BY <2>1, <2>2, <2>3, <2>4, SeqEqual
  <2> QED BY <2>5 DEF s, t, l
<1> HIDE DEF e
<1>7. /\ n \in 1 .. Len(Lines(f)) /\ Len(Lines(f)) \in Nat
      /\ Lines(f)[n] = SubSeq(f, b + 1, e - 1)
      /\ \A k \in 1 .. n : IsLineUpTo(f, e, Lines(f)[k])
  BY <1>4, <1>5, LineFound
<1>8. TextUpTo(f, e)
  BY DEF e, w
<1>9. \A k \in 1 .. n : IsText(Lines(f)[k])
  BY <1>4, <1>7, <1>8, LinesAreText
<1> HIDE DEF n
<1>10. n \in DOMAIN Replayed(f) /\ Replayed(f)[n] = Tokenize(Lines(f)[n])
  BY <1>7, <1>9, ReplayReaches
<1> QED BY <1>3, <1>6, <1>7, <1>10 DEF n

-----------------------------------------------------------------------------
(* The writer: what is in the buffer and in the file.                      *)

Entry == [record : Records, from : Nat \ {0}, to : Nat]

\* the record of e is whole in f, where e says
Sits(f, e) ==
  /\ e.to = (e.from - 1) + Len(Format(e.record))
  /\ StandsAt(f, e.from - 1, Format(e.record))

\* no two begin at the same place
Apart(es) == \A d, e \in es : d.from = e.from => d = e

\* The buffer is text made of whole lines.
BufferInv ==
  /\ buffer \in Text /\ IsText(buffer) /\ Opens(buffer, Len(buffer))
  /\ queued \subseteq Entry /\ Apart(queued)
  /\ \A e \in queued : Sits(buffer, e) /\ Opens(buffer, e.from - 1)

\* The file is text made of whole lines, but at its tears.
FileInv ==
  /\ file \in Text /\ tears \subseteq 1 .. Len(file)
  /\ Opens(file, Len(file)) \/ Len(file) \in tears
  /\ \A i \in 1 .. Len(file) :
       /\ file[i] = Lead => i \in tears \/ (i < Len(file) /\ file[i + 1] = Rest)
       /\ file[i] = Rest => i > 1 /\ file[i - 1] = Lead
  /\ written \subseteq Entry /\ Apart(written)
  /\ \A e \in written :
       Sits(file, e) /\ (Opens(file, e.from - 1) \/ e.from - 1 \in tears)

BytesInv == BufferInv /\ FileInv

\* what stands somewhere stands there whatever comes after it, and in the
\* piece that has it; what comes before moves it
LEMMA StandsStill ==
  ASSUME NEW f \in Text, NEW g \in Text, NEW w \in Text, NEW p \in Nat
  PROVE  /\ StandsAt(f, p, w) => StandsAt(f \o g, p, w)
         /\ StandsAt(g, p, w) => StandsAt(f \o g, Len(f) + p, w)
<1> DEFINE h == f \o g
<1>1. /\ Len(h) = Len(f) + Len(g) /\ Len(f) \in Nat /\ Len(g) \in Nat /\ Len(w) \in Nat
      /\ \A i \in 1 .. Len(f) : h[i] = f[i]
      /\ \A i \in 1 .. Len(g) : h[Len(f) + i] = g[i]
  BY Glued DEF Text
<1> HIDE DEF h
<1>2. ASSUME StandsAt(f, p, w) PROVE StandsAt(h, p, w)
  <2>1. p + Len(w) <= Len(f) /\ \A j \in 1 .. Len(w) : f[p + j] = w[j]
    BY <1>2 DEF StandsAt
  <2>2. ASSUME NEW j \in 1 .. Len(w) PROVE h[p + j] = w[j]
    <3>1. p + j \in 1 .. Len(f)
      BY <1>1, <2>1
    <3> QED BY <1>1, <2>1, <3>1
  <2>3. p + Len(w) <= Len(h)
    BY <1>1, <2>1
  <2> QED BY <2>2, <2>3 DEF StandsAt
<1>3. ASSUME StandsAt(g, p, w) PROVE StandsAt(h, Len(f) + p, w)
  <2>1. p + Len(w) <= Len(g) /\ \A j \in 1 .. Len(w) : g[p + j] = w[j]
    BY <1>3 DEF StandsAt
  <2>2. ASSUME NEW j \in 1 .. Len(w) PROVE h[(Len(f) + p) + j] = w[j]
    <3>1. p + j \in 1 .. Len(g) /\ Len(f) + (p + j) = (Len(f) + p) + j
      BY <1>1, <2>1
    <3> QED BY <1>1, <2>1, <3>1
  <2>3. (Len(f) + p) + Len(w) <= Len(h)
    BY <1>1, <2>1
  <2> QED BY <2>2, <2>3 DEF StandsAt
<1> QED BY <1>2, <1>3 DEF h

LEMMA StandsInPiece ==
  ASSUME NEW f \in Text, NEW n \in 0 .. Len(f), NEW w \in Text, NEW p \in Nat,
         StandsAt(f, p, w), p + Len(w) <= n
  PROVE  StandsAt(SubSeq(f, 1, n), p, w)
<1> DEFINE g == SubSeq(f, 1, n)
<1>1. Len(f) \in Nat /\ n \in Nat /\ Len(w) \in Nat /\ f \in Seq(Chars) /\ n <= Len(f) /\ 1 <= n + 1
  BY DEF Text
<1>2. Len(g) = n - 1 + 1 /\ \A i \in 1 .. n - 1 + 1 : g[i] = f[1 + i - 1]
  BY <1>1, Pieces
<1> HIDE DEF g
<1>3. ASSUME NEW j \in 1 .. Len(w) PROVE g[p + j] = w[j]
  <2>1. p + j \in 1 .. n - 1 + 1 /\ 1 + (p + j) - 1 = p + j
    BY <1>1
  <2>2. f[p + j] = w[j]
    BY DEF StandsAt
  <2> QED BY <1>2, <2>1, <2>2
<1>4. p + Len(w) <= Len(g)
  BY <1>1, <1>2
<1> QED BY <1>3, <1>4 DEF StandsAt, g

LEMMA EntryFields ==
  ASSUME NEW e \in Entry
  PROVE  /\ e.record \in Records /\ e.from \in Nat \ {0} /\ e.to \in Nat
         /\ e.from - 1 \in Nat /\ (e.from - 1) + 1 = e.from
         /\ Format(e.record) \in Text /\ Len(Format(e.record)) \in Nat \ {0}
<1>1. e.record \in Records /\ e.from \in Nat \ {0} /\ e.to \in Nat
  BY DEF Entry
<1> QED BY <1>1, FormatText

LEMMA BytesInit == Init => BytesInv
<1> SUFFICES ASSUME Init PROVE BytesInv
  OBVIOUS
<1>1. /\ file = <<>> /\ buffer = <<>> /\ queued = {} /\ written = {} /\ tears = {}
      /\ <<>> \in Text /\ Len(<<>>) = 0 /\ IsText(<<>>)
  BY Empty DEF Init
<1>2. BufferInv
  BY <1>1 DEF BufferInv, Opens, Apart
<1>3. FileInv
  BY <1>1 DEF FileInv, Opens, Apart
<1> QED BY <1>2, <1>3 DEF BytesInv

\* one more line in the buffer
LEMMA QueueKeeps ==
  ASSUME BytesInv, NEW r \in Records, Queue(r)
  PROVE  BytesInv'
<1> DEFINE w == Format(r)
           h == buffer \o w
           new == [record |-> r, from |-> Len(buffer) + 1, to |-> Len(buffer) + Len(w)]
<1>1. /\ buffer \in Text /\ IsText(buffer) /\ Opens(buffer, Len(buffer))
      /\ queued \subseteq Entry /\ Apart(queued)
      /\ \A e \in queued : Sits(buffer, e) /\ Opens(buffer, e.from - 1)
  BY DEF BytesInv, BufferInv
<1>2. w \in Text /\ IsText(w) /\ Len(w) \in Nat \ {0} /\ w[Len(w)] = LineEnd
  BY FormatText
<1>3. buffer' = h /\ queued' = queued \cup {new} /\ UNCHANGED <<file, written, tears>>
  BY DEF Queue
<1>4. /\ h \in Text /\ Len(h) = Len(buffer) + Len(w) /\ Len(buffer) \in Nat
      /\ \A i \in 1 .. Len(buffer) : h[i] = buffer[i]
      /\ \A i \in 1 .. Len(w) : h[Len(buffer) + i] = w[i]
  BY <1>1, <1>2, Glued DEF Text
<1>5. IsText(h)
  BY <1>1, <1>2, GluedText
<1>6. new \in Entry /\ new.record = r /\ new.from = Len(buffer) + 1 /\ new.to = Len(buffer) + Len(w)
  <2>1. Len(buffer) + 1 \in Nat \ {0} /\ Len(buffer) + Len(w) \in Nat
    BY <1>2, <1>4
  <2> HIDE DEF w
  <2> QED BY <2>1 DEF Entry
<1>7. StandsAt(h, Len(buffer), w)
  <2>1. StandsAt(w, 0, w) /\ Len(buffer) + 0 = Len(buffer)
    BY <1>2, <1>4 DEF StandsAt
  <2> HIDE DEF w
  <2> QED BY <1>1, <1>2, <2>1, StandsStill
<1> HIDE DEF h, new
<1>8. ASSUME NEW e \in queued
      PROVE  Sits(h, e) /\ Opens(h, e.from - 1) /\ e.from - 1 < Len(buffer)
  <2>1. /\ e.record \in Records /\ e.from \in Nat \ {0} /\ e.from - 1 \in Nat
        /\ Format(e.record) \in Text /\ Len(Format(e.record)) \in Nat \ {0}
        /\ Sits(buffer, e) /\ Opens(buffer, e.from - 1)
    BY <1>1, EntryFields
  <2>2. StandsAt(h, e.from - 1, Format(e.record))
    BY <1>1, <1>2, <2>1, StandsStill DEF Sits, h
  <2>3. e.from - 1 < Len(buffer)
    <3>1. (e.from - 1) + Len(Format(e.record)) <= Len(buffer)
      BY <2>1 DEF Sits, StandsAt
    <3> QED BY <1>4, <2>1, <3>1
  <2>4. e.from - 1 # 0 => h[e.from - 1] = buffer[e.from - 1]
    BY <1>4, <2>1, <2>3
  <2> QED BY <2>1, <2>2, <2>3, <2>4 DEF Sits, Opens
<1>9. Sits(h, new) /\ Opens(h, new.from - 1)
  <2>1. new.from - 1 = Len(buffer)
    BY <1>4, <1>6
  <2>2. Len(buffer) # 0 => h[Len(buffer)] = buffer[Len(buffer)]
    BY <1>4
  <2>3. Opens(h, Len(buffer))
    BY <1>1, <2>2 DEF Opens
  <2> QED BY <1>6, <1>7, <2>1, <2>3 DEF Sits
<1>10. Apart(queued \cup {new})
  <2>1. \A e \in queued : e.from # new.from
    <3>1. ASSUME NEW e \in queued PROVE e.from # new.from
      <4>1. e.from - 1 < Len(buffer) /\ e.from \in Nat
        BY <1>1, <1>8, EntryFields
      <4> QED BY <1>4, <1>6, <4>1
    <3> QED BY <3>1
  <2> QED BY <1>1, <2>1 DEF Apart
<1>11. Opens(h, Len(h))
  <2>1. Len(w) \in 1 .. Len(w)
    BY <1>2
  <2>2. h[Len(h)] = LineEnd
    BY <1>2, <1>4, <2>1
  <2> QED BY <2>2 DEF Opens
<1>12. BufferInv'
  <2>1. queued' \subseteq Entry
    BY <1>1, <1>3, <1>6
  <2>2. \A e \in queued' : Sits(h, e) /\ Opens(h, e.from - 1)
    BY <1>3, <1>8, <1>9
  <2> QED BY <1>3, <1>4, <1>5, <1>10, <1>11, <2>1, <2>2 DEF BufferInv
<1>13. FileInv'
  BY <1>3 DEF BytesInv, FileInv
<1> QED BY <1>12, <1>13 DEF BytesInv

LEMMA MovedEntry ==
  ASSUME NEW e \in Entry, NEW n \in Nat
  PROVE  LET m == [e EXCEPT !.from = @ + n, !.to = @ + n]
         IN  m \in Entry /\ m.record = e.record /\ m.from = e.from + n /\ m.to = e.to + n
<1>1. e.from + n \in Nat \ {0} /\ e.to + n \in Nat
  BY EntryFields
<1> QED BY <1>1 DEF Entry

\* the first n characters of the buffer go to the file, the rest is gone;
\* where they stop within a line is a tear
LEMMA PutKeeps ==
  ASSUME BytesInv, NEW n \in 0 .. Len(buffer), Put(n),
         tears \subseteq tears', tears' \subseteq tears \cup {Len(file) + n},
         n = 0 => tears' = tears,
         n # 0 => buffer[n] = LineEnd \/ Len(file) + n \in tears'
  PROVE  BytesInv'
<1> DEFINE g == SubSeq(buffer, 1, n)
           L == Len(file)
           h == file \o g
           Move(e) == [e EXCEPT !.from = @ + Len(file), !.to = @ + Len(file)]
           came == {Move(e) : e \in {e \in queued : e.to <= n}}
<1>1. /\ buffer \in Text /\ IsText(buffer) /\ queued \subseteq Entry /\ Apart(queued)
      /\ \A e \in queued : Sits(buffer, e) /\ Opens(buffer, e.from - 1)
  BY DEF BytesInv, BufferInv
<1>2. /\ file \in Text /\ tears \subseteq 1 .. L /\ (Opens(file, L) \/ L \in tears)
      /\ \A i \in 1 .. L :
           /\ file[i] = Lead => i \in tears \/ (i < L /\ file[i + 1] = Rest)
           /\ file[i] = Rest => i > 1 /\ file[i - 1] = Lead
      /\ written \subseteq Entry /\ Apart(written)
      /\ \A e \in written :
           Sits(file, e) /\ (Opens(file, e.from - 1) \/ e.from - 1 \in tears)
  BY DEF BytesInv, FileInv
<1>3. file' = h /\ written' = written \cup came /\ buffer' = <<>> /\ queued' = {}
  BY DEF Put
<1>4. L \in Nat /\ Len(buffer) \in Nat /\ n \in Nat /\ n <= Len(buffer)
      /\ buffer \in Seq(Chars) /\ DOMAIN buffer = 1 .. Len(buffer)
  BY <1>1, <1>2 DEF Text
<1>5. g \in Text /\ Len(g) = n /\ \A i \in 1 .. n : g[i] = buffer[i]
  <2>1. /\ g \in Seq(Chars) /\ Len(g) = n - 1 + 1
        /\ \A i \in 1 .. n - 1 + 1 : g[i] = buffer[1 + i - 1]
    BY <1>4, Pieces
  <2> HIDE DEF g
  <2>2. n - 1 + 1 = n /\ \A i \in 1 .. n : 1 + i - 1 = i
    BY <1>4
  <2> QED BY <2>1, <2>2 DEF Text
<1>6. /\ h \in Text /\ Len(h) = L + n
      /\ \A i \in 1 .. L : h[i] = file[i]
      /\ \A i \in 1 .. n : h[L + i] = buffer[i]
  <2> HIDE DEF g
  <2>1. /\ h \in Text /\ Len(h) = L + Len(g) /\ \A i \in 1 .. L : h[i] = file[i]
        /\ \A i \in 1 .. Len(g) : h[L + i] = g[i]
    BY <1>2, <1>5, Glued
  <2> QED BY <1>5, <2>1
<1> HIDE DEF g, h, L, came, Move
<1>7. BufferInv'
  BY <1>3, Empty DEF BufferInv, Opens, Apart
<1>8. tears' \subseteq 1 .. L + n
  <2>1. 1 .. L \subseteq 1 .. L + n /\ (n # 0 => L + n \in 1 .. L + n)
    BY <1>4
  <2> QED BY <1>2, <2>1 DEF L
<1>9. Opens(h, L + n) \/ L + n \in tears'
  <2>1. CASE n = 0
    <3>1. L + n = L
      BY <1>4, <2>1
    <3>2. L # 0 => h[L] = file[L]
      BY <1>4, <1>6
    <3> QED BY <1>2, <3>1, <3>2 DEF Opens
  <2>2. CASE n # 0
    <3>1. h[L + n] = buffer[n]
      BY <1>4, <1>6, <2>2
    <3> QED BY <2>2, <3>1 DEF Opens, L
  <2> QED BY <2>1, <2>2
<1>10. ASSUME NEW i \in 1 .. L + n
       PROVE  /\ h[i] = Lead => i \in tears' \/ (i < L + n /\ h[i + 1] = Rest)
              /\ h[i] = Rest => i > 1 /\ h[i - 1] = Lead
  <2>1. CASE i \in 1 .. L
    <3>1. h[i] = file[i] /\ (i < L => h[i + 1] = file[i + 1]) /\ (i > 1 => h[i - 1] = file[i - 1])
      BY <1>4, <1>6, <2>1
    <3>2. /\ file[i] = Lead => i \in tears \/ (i < L /\ file[i + 1] = Rest)
          /\ file[i] = Rest => i > 1 /\ file[i - 1] = Lead
      BY <1>2, <2>1
    <3>3. i < L => i < L + n
      BY <1>4
    <3> QED BY <3>1, <3>2, <3>3
  <2>2. CASE i \notin 1 .. L
    <3> DEFINE j == i - L
    <3>1. j \in 1 .. n /\ i = L + j /\ j \in DOMAIN buffer
      BY <1>4, <2>2
    <3> HIDE DEF j
    <3>2. h[i] = buffer[j]
      BY <1>6, <3>1
    <3>3. /\ buffer[j] = Lead => buffer[j + 1] = Rest
          /\ buffer[j] = Rest => j > 1 /\ buffer[j - 1] = Lead
      BY <1>1, <3>1 DEF IsText
    <3>4. CASE j < n
      <4>1. j + 1 \in 1 .. n /\ L + (j + 1) = i + 1 /\ i < L + n
        BY <1>4, <3>1, <3>4
      <4>2. h[i + 1] = buffer[j + 1]
        BY <1>6, <4>1
      <4>3. h[i] = Lead => i < L + n /\ h[i + 1] = Rest
        BY <3>2, <3>3, <4>1, <4>2
      <4>4. j > 1 => i > 1 /\ h[i - 1] = buffer[j - 1]
        <5>1. j > 1 => j - 1 \in 1 .. n /\ L + (j - 1) = i - 1 /\ i > 1
          BY <1>4, <3>1
        <5> QED BY <1>6, <5>1
      <4> QED BY <3>2, <3>3, <4>3, <4>4
    <3>5. CASE j = n
      <4>1. h[i] = Lead => i \in tears'
        <5>1. ASSUME h[i] = Lead PROVE i \in tears'
          <6>1. n # 0 /\ buffer[n] # LineEnd
            BY <3>1, <3>2, <3>5, <5>1, Characters
          <6> QED BY <3>1, <3>5, <6>1 DEF L
        <5> QED BY <5>1
      <4>2. j > 1 => i > 1 /\ h[i - 1] = buffer[j - 1]
        <5>1. j > 1 => j - 1 \in 1 .. n /\ L + (j - 1) = i - 1 /\ i > 1
          BY <1>4, <3>1
        <5> QED BY <1>6, <5>1
      <4> QED BY <3>2, <3>3, <4>1, <4>2
    <3> QED BY <1>4, <3>1, <3>4, <3>5
  <2> QED BY <2>1, <2>2
<1>11. ASSUME NEW e \in written
       PROVE  Sits(h, e) /\ (Opens(h, e.from - 1) \/ e.from - 1 \in tears') /\ e.from <= L
  <2>1. /\ e.from - 1 \in Nat /\ e.from \in Nat \ {0}
        /\ Format(e.record) \in Text /\ Len(Format(e.record)) \in Nat \ {0}
        /\ Sits(file, e) /\ (Opens(file, e.from - 1) \/ e.from - 1 \in tears)
    BY <1>2, EntryFields
  <2>2. StandsAt(h, e.from - 1, Format(e.record))
    BY <1>2, <1>5, <2>1, StandsStill DEF Sits, h
  <2>3. e.from <= L
    <3>1. (e.from - 1) + Len(Format(e.record)) <= L
      BY <2>1 DEF Sits, StandsAt, L
    <3> QED BY <1>4, <2>1, <3>1
  <2>4. e.from - 1 # 0 => h[e.from - 1] = file[e.from - 1]
    <3>1. e.from - 1 # 0 => e.from - 1 \in 1 .. L
      BY <1>4, <2>1, <2>3
    <3> QED BY <1>6, <3>1
  <2> QED BY <2>1, <2>2, <2>3, <2>4 DEF Sits, Opens
<1>12. ASSUME NEW e \in queued, e.to <= n
       PROVE  /\ Move(e) \in Entry /\ Move(e).from = e.from + L
              /\ Sits(h, Move(e))
              /\ Opens(h, Move(e).from - 1) \/ Move(e).from - 1 \in tears'
              /\ e.from \in Nat \ {0}
  <2>1. /\ e \in Entry /\ e.from - 1 \in Nat /\ e.from \in Nat \ {0} /\ e.to \in Nat
        /\ Format(e.record) \in Text /\ Len(Format(e.record)) \in Nat \ {0}
        /\ Sits(buffer, e) /\ Opens(buffer, e.from - 1)
    BY <1>1, EntryFields
  <2>2. /\ Move(e) \in Entry /\ Move(e).record = e.record
        /\ Move(e).from = e.from + L /\ Move(e).to = e.to + L
    BY <1>4, <2>1, MovedEntry DEF Move, L
  <2>3. e.to = (e.from - 1) + Len(Format(e.record)) /\ StandsAt(buffer, e.from - 1, Format(e.record))
    BY <2>1 DEF Sits
  <2>4. StandsAt(g, e.from - 1, Format(e.record))
    BY <1>1, <1>4, <1>12, <2>1, <2>3, StandsInPiece DEF g
  <2>5. StandsAt(h, L + (e.from - 1), Format(e.record))
    BY <1>2, <1>5, <2>1, <2>4, StandsStill DEF h, L
  <2>6. Move(e).from - 1 = L + (e.from - 1)
        /\ Move(e).to = (Move(e).from - 1) + Len(Format(e.record))
    <3> DEFINE len == Len(Format(e.record))
               a == e.from
               z == Move(e).from
    <3>1. len \in Nat /\ a \in Nat /\ L \in Nat /\ z = a + L /\ Move(e).to = e.to + L
          /\ e.to = (a - 1) + len
      BY <1>4, <2>1, <2>2, <2>3
    <3> HIDE DEF len, a, z
    <3>2. z - 1 = L + (a - 1) /\ Move(e).to = (z - 1) + len
      BY <3>1
    <3> QED BY <3>2 DEF len, a, z
  <2>7. Sits(h, Move(e))
    BY <2>2, <2>5, <2>6 DEF Sits
  <2>8. Opens(h, L + (e.from - 1)) \/ L + (e.from - 1) \in tears'
    <3>1. CASE e.from - 1 = 0
      <4>1. L + (e.from - 1) = L
        BY <1>4, <3>1
      <4>2. L # 0 => h[L] = file[L]
        BY <1>4, <1>6
      <4> QED BY <1>2, <4>1, <4>2 DEF Opens
    <3>2. CASE e.from - 1 # 0
      <4>1. buffer[e.from - 1] = LineEnd
        BY <2>1, <3>2 DEF Opens
      <4>2. e.from - 1 \in 1 .. n
        BY <1>4, <1>12, <2>1, <2>3, <3>2
      <4> QED BY <1>6, <4>1, <4>2 DEF Opens
    <3> QED BY <3>1, <3>2
  <2> QED BY <2>1, <2>2, <2>6, <2>7, <2>8
<1>13. Apart(written \cup came)
  <2>1. ASSUME NEW d \in written, NEW e \in queued, e.to <= n PROVE d.from # Move(e).from
    <3>1. d.from <= L /\ Move(e).from = e.from + L /\ e.from \in Nat \ {0} /\ d.from \in Nat
      BY <1>2, <1>11, <1>12, <2>1, EntryFields
    <3> QED BY <1>4, <3>1
  <2>2. ASSUME NEW d \in queued, d.to <= n, NEW e \in queued, e.to <= n,
               Move(d).from = Move(e).from
        PROVE  d = e
    <3>1. d.from + L = e.from + L /\ d.from \in Nat /\ e.from \in Nat
      BY <1>12, <2>2
    <3>2. d.from = e.from
      BY <1>4, <3>1
    <3> QED BY <1>1, <3>2 DEF Apart
  <2>3. ASSUME NEW d \in written \cup came, NEW e \in written \cup came, d.from = e.from
        PROVE  d = e
    <3>1. CASE d \in written /\ e \in written
      BY <1>2, <2>3, <3>1 DEF Apart
    <3>2. CASE d \in written /\ e \in came
      BY <2>1, <2>3, <3>2 DEF came
    <3>3. CASE d \in came /\ e \in written
      BY <2>1, <2>3, <3>3 DEF came
    <3>4. CASE d \in came /\ e \in came
      <4>1. PICK x \in queued, y \in queued : x.to <= n /\ y.to <= n /\ d = Move(x) /\ e = Move(y)
        BY <3>4 DEF came
      <4>2. x = y
        BY <2>2, <2>3, <4>1
      <4> QED BY <4>1, <4>2
    <3> QED BY <3>1, <3>2, <3>3, <3>4
  <2> QED BY <2>3 DEF Apart
<1>14. \A e \in written \cup came :
         e \in Entry /\ Sits(h, e) /\ (Opens(h, e.from - 1) \/ e.from - 1 \in tears')
  BY <1>2, <1>11, <1>12 DEF came
<1>15. FileInv'
  BY <1>3, <1>6, <1>8, <1>9, <1>10, <1>13, <1>14 DEF FileInv
<1> QED BY <1>7, <1>15 DEF BytesInv

LEMMA BytesStep == BytesInv /\ [Next]_vars => BytesInv'
<1> SUFFICES ASSUME BytesInv, [Next]_vars PROVE BytesInv'
  OBVIOUS
<1>1. buffer \in Text /\ Len(buffer) \in Nat /\ Opens(buffer, Len(buffer))
  BY DEF BytesInv, BufferInv, Text
<1>2. ASSUME NEW r \in Records, Log(r) PROVE BytesInv'
  BY <1>2, QueueKeeps DEF Log
<1>3. CASE Write
  <2>1. Put(Len(buffer)) /\ tears' = tears /\ Len(buffer) \in 0 .. Len(buffer)
    BY <1>1, <1>3 DEF Write
  <2>2. Len(buffer) # 0 => buffer[Len(buffer)] = LineEnd
    BY <1>1 DEF Opens
  <2> QED BY <2>1, <2>2, PutKeeps
<1>4. ASSUME NEW n \in 0 .. Len(buffer), WriteStops(n) PROVE BytesInv'
  BY <1>4, PutKeeps DEF WriteStops
<1>5. CASE UNCHANGED vars
  BY <1>5 DEF vars, BytesInv, BufferInv, FileInv
<1> QED BY <1>2, <1>3, <1>4, <1>5 DEF Next

LEMMA BytesKept == Spec => []BytesInv
BY BytesInit, BytesStep, PTL DEF Spec

-----------------------------------------------------------------------------
(* What is read back.                                                      *)

\* a plain record of the file that no tear touches, with no torn letter before
\* its end, is read back
LEMMA UntouchedReadBack ==
  ASSUME BytesInv, NEW w \in written, Plain(w.record), w.from - 1 \notin tears,
         \A t \in tears : t <= w.to => file[t] # Lead
  PROVE  ReadBack(w)
<1> DEFINE b == w.from - 1
           r == w.record
<1>1. /\ b \in Nat /\ r \in Records /\ w.to \in Nat
      /\ Format(r) \in Text /\ Len(Format(r)) \in Nat \ {0} /\ w.to = b + Len(Format(r))
      /\ StandsAt(file, b, Format(r)) /\ Opens(file, b)
  <2>1. w \in Entry /\ Sits(file, w) /\ (Opens(file, b) \/ b \in tears)
    BY DEF BytesInv, FileInv
  <2> QED BY <2>1, EntryFields DEF Sits
<1>2. /\ file \in Text /\ Len(file) \in Nat
      /\ \A i \in 1 .. Len(file) :
           /\ file[i] = Lead => i \in tears \/ (i < Len(file) /\ file[i + 1] = Rest)
           /\ file[i] = Rest => i > 1 /\ file[i - 1] = Lead
  BY DEF BytesInv, FileInv, Text
<1>3. TextUpTo(file, w.to)
  <2>1. w.to <= Len(file)
    BY <1>1 DEF StandsAt
  <2>2. \A i \in 1 .. w.to : i \in 1 .. Len(file) /\ i <= w.to
    BY <1>1, <1>2, <2>1
  <2> QED BY <1>2, <2>2 DEF TextUpTo
<1> DEFINE n == Cardinality(EndsIn(file, b)) + 1
<1>4. n \in DOMAIN Replayed(file) /\ Replayed(file)[n] = r.words
  BY <1>1, <1>2, <1>3, PlainReadBack
<1>5. LineOf(w) = n
  BY DEF LineOf, EndsIn
<1> QED BY <1>4, <1>5 DEF ReadBack

LEMMA ReadUpToTearHolds == BytesInv => ReadUpToTear
<1> SUFFICES ASSUME BytesInv, NEW w \in written, Plain(w.record), \A t \in tears : w.to <= t
             PROVE  ReadBack(w)
  BY DEF ReadUpToTear
<1>1. /\ w.from \in Nat /\ w.to \in Nat /\ w.from <= w.to /\ file[w.to] = LineEnd
  <2> DEFINE f == Format(w.record)
  <2>1. /\ w.from \in Nat \ {0} /\ w.to \in Nat /\ Len(f) \in Nat \ {0} /\ f[Len(f)] = LineEnd
        /\ w.to = (w.from - 1) + Len(f) /\ StandsAt(file, w.from - 1, f)
    <3>1. w \in Entry /\ Sits(file, w)
      BY DEF BytesInv, FileInv
    <3> QED BY <3>1, EntryFields, FormatText DEF Sits
  <2> HIDE DEF f
  <2>2. Len(f) \in 1 .. Len(f)
    BY <2>1
  <2>3. file[(w.from - 1) + Len(f)] = f[Len(f)]
    BY <2>1, <2>2 DEF StandsAt
  <2> QED BY <2>1, <2>3
<1>2. tears \subseteq Nat
  BY DEF BytesInv, FileInv
<1>3. w.from - 1 \notin tears
  BY <1>1
<1>4. ASSUME NEW t \in tears, t <= w.to PROVE file[t] # Lead
  <2>1. t = w.to
    BY <1>1, <1>2, <1>4
  <2> QED BY <1>1, <2>1, Characters
<1> QED BY <1>3, <1>4, UntouchedReadBack

LEMMA OneLinePerTearHolds == BytesInv => OneLinePerTear
<1> DEFINE Lost == {w \in written : Plain(w.record) /\ ~ReadBack(w)}
<1> SUFFICES ASSUME BytesInv, \A t \in tears : file[t] # Lead
             PROVE  Cardinality(Lost) <= Cardinality(tears)
  BY DEF OneLinePerTear
<1> DEFINE before == [w \in Lost |-> w.from - 1]
<1>1. IsFiniteSet(tears)
  <2>1. Len(file) \in Nat /\ tears \subseteq 1 .. Len(file)
    BY DEF BytesInv, FileInv, Text
  <2>2. IsFiniteSet(1 .. Len(file))
    BY <2>1, FS_Interval
  <2> QED BY <2>1, <2>2, FS_Subset
<1>2. \A w \in Lost : w.from - 1 \in tears
  BY UntouchedReadBack
<1>3. ASSUME NEW v \in Lost, NEW w \in Lost, v.from - 1 = w.from - 1 PROVE v = w
  <2>1. Apart(written) /\ v \in Entry /\ w \in Entry
    BY DEF BytesInv, FileInv
  <2>2. v.from \in Nat /\ w.from \in Nat
    BY <2>1, EntryFields
  <2>3. v.from = w.from
    BY <1>3, <2>2
  <2> QED BY <2>1, <2>3 DEF Apart
<1> HIDE DEF Lost
<1>4. before \in Injection(Lost, tears)
  BY <1>2, <1>3 DEF Injection, IsInjective
<1> QED BY <1>1, <1>4, FS_Injection

(***************************************************************************)
(* A plain record that is whole in the file before the first tear is read  *)
(* back, word by word and in its place (start_aof_writer, tokenize,        *)
(* replay_aof), whatever the other records hold.                           *)
(***************************************************************************)
THEOREM WholeIsReadBack == Spec => []ReadUpToTear
BY BytesKept, ReadUpToTearHolds, PTL

(***************************************************************************)
(* A write that stops between two characters costs, of what was written    *)
(* whole, at most the one record that is glued to it (start_aof_writer,    *)
(* replay_aof): who is lost stands right behind a tear, and no two stand   *)
(* behind the same.                                                        *)
(***************************************************************************)
THEOREM TearsCostOne == Spec => []OneLinePerTear
BY BytesKept, OneLinePerTearHolds, PTL
=============================================================================
