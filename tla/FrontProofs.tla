---------------------------- MODULE FrontProofs ----------------------------
(***************************************************************************)
(* What holds of the lexer for every text, whatever its macros are, and of *)
(* any number of runs of tigc with any commands; what Parsed makes of a    *)
(* command line is left open.                                              *)
(***************************************************************************)
EXTENDS Lexer, Driver, FiniteSetTheorems, SequenceTheorems, WellFoundedInduction, TLAPS

-----------------------------------------------------------------------------
(* Scanning never goes back.                                               *)

LEMMA MinIsFirst ==
  ASSUME NEW S, S \subseteq Nat, S # {}
  PROVE  Min(S) \in S /\ \A j \in S : Min(S) <= j
<1>1. PICK x \in S : \A y \in S : <<y, x>> \notin OpToRel(<, Nat)
  BY WFMin, NatLessThanWellFounded
<1>2. \A y \in S : ~ (y < x)  BY <1>1 DEF OpToRel
<1>3. \A y \in S : x <= y  BY <1>2
<1> QED  BY <1>3 DEF Min

(* What is searched for is found at the end of the text at the latest.     *)
LEMMA Forward ==
  ASSUME NEW text, Len(text) \in Nat, NEW i \in Nat \ {0}, NEW S
  PROVE  /\ First(text, i, S) \in Nat /\ i <= First(text, i, S)
         /\ Past(text, i, S) \in Nat /\ i <= Past(text, i, S)
<1> DEFINE F == {j \in i..(i + Len(text)) : j > Len(text) \/ text[j] \in S}
           P == {j \in i..(i + Len(text)) : j > Len(text) \/ text[j] \notin S}
<1>1. F \subseteq Nat /\ P \subseteq Nat  OBVIOUS
<1>2. i + Len(text) \in F /\ i + Len(text) \in P  OBVIOUS
<1>3. \A j \in F \cup P : i <= j  OBVIOUS
<1>4. Min(F) \in F /\ Min(P) \in P
  <2> HIDE DEF F, P
  <2> QED  BY <1>1, <1>2, MinIsFirst
<1> QED  BY <1>1, <1>3, <1>4 DEF First, Past

(* The ends of a definition, a call, a string and inline C: each is the    *)
(* least of some positions past the first, the end of the text among them. *)
LEMMA LeastPast ==
  ASSUME NEW S, NEW n \in Nat, NEW i \in Nat, i <= n,
         \A j \in S : j \in Nat /\ i <= j
  PROVE  /\ Min({j + 1 : j \in S} \cup {n}) \in Nat
         /\ i <= Min({j + 1 : j \in S} \cup {n})
         /\ Min({j + 1 : j \in S} \cup {n}) = n \/ Min({j + 1 : j \in S} \cup {n}) - 1 \in S
<1> DEFINE E == {j + 1 : j \in S} \cup {n}
<1>1. E \subseteq Nat /\ \A e \in E : i <= e /\ (e = n \/ e - 1 \in S)
  <2> SUFFICES ASSUME NEW e \in E PROVE e \in Nat /\ i <= e /\ (e = n \/ e - 1 \in S)
    OBVIOUS
  <2>1. CASE e = n  BY <2>1
  <2>2. CASE \E j \in S : e = j + 1
    <3> PICK j \in S : e = j + 1  BY <2>2
    <3>1. j \in Nat /\ i <= j /\ e - 1 = j  OBVIOUS
    <3> QED  BY <3>1
  <2> QED  BY <2>1, <2>2
<1>2. Min(E) \in E
  <2>1. n \in E  OBVIOUS
  <2> HIDE DEF E
  <2> QED  BY <1>1, <2>1, MinIsFirst
<1> QED  BY <1>1, <1>2

LEMMA MacroForward ==
  ASSUME NEW text, Len(text) \in Nat, NEW i \in 1..Len(text)
  PROVE  MacroEnd(text, i) \in Nat /\ i <= MacroEnd(text, i)
<1> DEFINE n == Len(text) + 1
           S == BodyCloses(text, i)
<1>1. n \in Nat /\ i <= n /\ i \in Nat  OBVIOUS
<1>2. \A j \in S : j \in Nat /\ i <= j
  <2>1. S \subseteq i..Len(text)  BY DEF BodyCloses
  <2> QED  BY <2>1
<1>3. MacroEnd(text, i) = Min({j + 1 : j \in S} \cup {n})  BY DEF MacroEnd
<1> HIDE DEF n, S
<1>4. LET e == Min({j + 1 : j \in S} \cup {n}) IN e \in Nat /\ i <= e
  BY <1>1, <1>2, LeastPast
<1> QED  BY <1>3, <1>4

LEMMA CallForward ==
  ASSUME NEW text, Len(text) \in Nat, NEW i \in 1..(Len(text) + 1)
  PROVE  CallEnd(text, i) \in Nat /\ i <= CallEnd(text, i)
<1> DEFINE n == Len(text) + 1
           S == CallCloses(text, i)
<1>1. n \in Nat /\ i <= n /\ i \in Nat  OBVIOUS
<1>2. \A j \in S : j \in Nat /\ i <= j
  <2>1. S \subseteq i..Len(text)  BY DEF CallCloses
  <2> QED  BY <2>1
<1>3. CallEnd(text, i) = Min({j + 1 : j \in S} \cup {n})  BY DEF CallEnd
<1> HIDE DEF n, S
<1>4. LET e == Min({j + 1 : j \in S} \cup {n}) IN e \in Nat /\ i <= e
  BY <1>1, <1>2, LeastPast
<1> QED  BY <1>3, <1>4

LEMMA CodeForward ==
  ASSUME NEW text, Len(text) \in Nat, NEW i \in 1..(Len(text) + 1)
  PROVE  CodeEnd(text, i) \in Nat /\ i <= CodeEnd(text, i)
<1> DEFINE n == Len(text) + 2
           S == CodeCloses(text, i)
<1>1. n \in Nat /\ i <= n /\ i \in Nat  OBVIOUS
<1>2. \A j \in S : j \in Nat /\ i <= j
  <2>1. S \subseteq i..Len(text)  BY DEF CodeCloses
  <2> QED  BY <2>1
<1>3. CodeEnd(text, i) = Min({j + 1 : j \in S} \cup {n})  BY DEF CodeEnd
<1> HIDE DEF n, S
<1>4. LET e == Min({j + 1 : j \in S} \cup {n}) IN e \in Nat /\ i <= e
  BY <1>1, <1>2, LeastPast
<1> QED  BY <1>3, <1>4

LEMMA QuoteForward ==
  ASSUME NEW text, Len(text) \in Nat, NEW i \in 1..(Len(text) + 1), NEW q
  PROVE  QuoteEnd(text, i, q) \in Nat /\ i <= QuoteEnd(text, i, q)
<1> DEFINE n == Len(text) + 2
           S == {k \in i..Len(text) : text[k] = q /\ ~Escaped(text, i, k)}
<1>1. n \in Nat /\ i <= n /\ i \in Nat  OBVIOUS
<1>2. \A j \in S : j \in Nat /\ i <= j  OBVIOUS
<1>3. QuoteEnd(text, i, q) = Min({j + 1 : j \in S} \cup {n})  BY DEF QuoteEnd
<1> HIDE DEF n, S
<1>4. LET e == Min({j + 1 : j \in S} \cup {n}) IN e \in Nat /\ i <= e
  BY <1>1, <1>2, LeastPast
<1> QED  BY <1>3, <1>4

-----------------------------------------------------------------------------
(* Counting lines.                                                         *)

LEMMA LinesAdd ==
  ASSUME NEW text, NEW i \in Nat \ {0}, NEW end \in Nat, i <= end
  PROVE  Newlines(text, 1, i - 1) + Newlines(text, i, end - 1) = Newlines(text, 1, end - 1)
<1> DEFINE A == {k \in 1..(i - 1) : Is(text, k, "newline")}
           B == {k \in i..(end - 1) : Is(text, k, "newline")}
           C == {k \in 1..(end - 1) : Is(text, k, "newline")}
<1>1. C = A \cup B /\ A \cap B = {}  OBVIOUS
<1>2. IsFiniteSet(A) /\ IsFiniteSet(B)
  <2>1. IsFiniteSet(1..(i - 1)) /\ IsFiniteSet(i..(end - 1))
    <3>1. 1 \in Int /\ i - 1 \in Int /\ i \in Int /\ end - 1 \in Int  OBVIOUS
    <3> QED  BY <3>1, FS_Interval
  <2>2. A \in SUBSET (1..(i - 1)) /\ B \in SUBSET (i..(end - 1))  OBVIOUS
  <2> QED  BY <2>1, <2>2, FS_Subset
<1>3. Cardinality(C) = Cardinality(A) + Cardinality(B)
  <2> HIDE DEF A, B, C
  <2>1. Cardinality(A \cup B) = Cardinality(A) + Cardinality(B) - Cardinality(A \cap B)
    BY <1>2, FS_Union
  <2>2. Cardinality({}) = 0  BY FS_EmptySet
  <2>3. Cardinality(A) \in Nat /\ Cardinality(B) \in Nat  BY <1>2, FS_CardinalityType
  <2> QED  BY <1>1, <2>1, <2>2, <2>3
<1> QED  BY <1>3 DEF Newlines, Count

LEMMA LinesType ==
  ASSUME NEW text, NEW i \in Nat, NEW j \in Int
  PROVE  Newlines(text, i, j) \in Nat
<1> DEFINE B == {k \in i..j : Is(text, k, "newline")}
<1>1. IsFiniteSet(B)
  <2>1. IsFiniteSet(i..j)  BY FS_Interval
  <2>2. B \in SUBSET (i..j)  OBVIOUS
  <2> QED  BY <2>1, <2>2, FS_Subset
<1>2. Cardinality(B) \in Nat  BY <1>1, FS_CardinalityType
<1> QED  BY <1>2 DEF Newlines, Count

(* A piece of one line has no line to count.                               *)
LEMMA OneLineCounts ==
  ASSUME NEW text \in Seq(Units), NEW i \in Nat \ {0}, NEW end \in Nat,
         i <= end, end <= Len(text) + 1, OneLine(Piece(text, i, end))
  PROVE  Newlines(text, i, end - 1) = 0
<1> DEFINE p == Piece(text, i, end)
           A == {k \in 1..Len(p) : Is(p, k, "newline")}
           B == {k \in i..(end - 1) : Is(text, k, "newline")}
<1>1. /\ p \in Seq(Units) /\ Len(p) = end - i
      /\ \A k \in 1..(end - i) : p[k] = text[i + k - 1]
  <2>1. p = SubSeq(text, i, end - 1)  BY DEF Piece
  <2> HIDE DEF p
  <2> QED  BY <2>1, SubSeqProperties
<1>2. A = {}
  <2>1. IsFiniteSet(A)
    <3>1. IsFiniteSet(1..Len(p))  BY <1>1, FS_Interval
    <3>2. A \in SUBSET (1..Len(p))  OBVIOUS
    <3> QED  BY <3>1, <3>2, FS_Subset
  <2>2. Cardinality(A) = 0  BY DEF OneLine, Newlines, Count
  <2> HIDE DEF A
  <2> QED  BY <2>1, <2>2, FS_EmptySet
<1>3. B = {}
  <2> SUFFICES ASSUME NEW k \in B PROVE FALSE  OBVIOUS
  <2> DEFINE n == k - i + 1
  <2>1. n \in 1..(end - i) /\ i + n - 1 = k  OBVIOUS
  <2>2. p[n] = text[k]  BY <1>1, <2>1
  <2>3. text[k] = "newline"  BY DEF Is
  <2>4. n \in A
    <3> HIDE DEF n, p
    <3> QED  BY <1>1, <2>1, <2>2, <2>3 DEF Is
  <2> QED  BY <1>2, <2>4
<1>4. Newlines(text, i, end - 1) = Cardinality(B)  BY DEF Newlines, Count
<1> QED  BY <1>3, <1>4, FS_EmptySet

-----------------------------------------------------------------------------
(* The lines of tokens.                                                    *)

IsFrame(f) == /\ DOMAIN f = {"text", "i", "line", "toks", "from"}
              /\ f.toks \in Seq(ToSet(f.toks))
              /\ \A k \in DOMAIN f.toks : {"line", "at"} \subseteq DOMAIN f.toks[k]

(* A token, or the place of a call, bears its line in the source.          *)
Dated(t) == t.line = 1 + Newlines(src, 1, t.at - 1)

(* What of the source has been read bears its lines, and so does the call  *)
(* that is being expanded: nothing is asked of the expansions themselves.  *)
Honest(f) == /\ f.line = 1 + Newlines(src, 1, f.i - 1)
             /\ \A k \in DOMAIN f.toks : Dated(f.toks[k])

Base == /\ frames[1].text = src /\ frames[1].i \in Nat \ {0}
        /\ "E012" \notin errors => /\ Honest(frames[1])
                                   /\ Len(frames) >= 2 => Dated(frames[2].from)

LineInv == /\ src \in Seq(Units)
           /\ frames \in Seq(ToSet(frames)) /\ frames # <<>>
           /\ \A k \in 1..Len(frames) : IsFrame(frames[k])
           /\ Base

LEMMA SeqToSet ==
  ASSUME NEW T, NEW s \in Seq(T)
  PROVE  s \in Seq(ToSet(s))
<1>1. s \in [1..Len(s) -> ToSet(s)]  BY DEF ToSet
<1>2. Len(s) \in Nat  OBVIOUS
<1> QED  BY <1>1, <1>2

LEMMA InnermostCall ==
  ASSUME LineInv
  PROVE  /\ Len(frames) \in Nat \ {0} /\ DOMAIN frames = 1..Len(frames)
         /\ IsFrame(Top)
         /\ Len(frames) = 1 => Top = frames[1]
<1>1. Len(frames) \in Nat /\ DOMAIN frames = 1..Len(frames) /\ Len(frames) # 0
  BY DEF LineInv
<1>2. Len(frames) \in 1..Len(frames)  BY <1>1
<1> QED  BY <1>1, <1>2 DEF LineInv, Top

LEMMA TopReplaced ==
  ASSUME LineInv, NEW f
  PROVE  /\ SetTop(f) \in Seq(ToSet(SetTop(f))) /\ Len(SetTop(f)) = Len(frames)
         /\ \A k \in 1..Len(frames) : SetTop(f)[k] = IF k = Len(frames) THEN f ELSE frames[k]
<1> DEFINE T == ToSet(frames) \cup {f}
           s == SetTop(f)
           n == Len(frames)
<1>1. n \in Nat \ {0} /\ frames \in Seq(ToSet(frames))  BY InnermostCall DEF LineInv
<1>2. frames \in [1..n -> T]  BY <1>1
<1>3. s = [frames EXCEPT ![n] = f]  BY DEF SetTop
<1>4. s \in [1..n -> T] /\ \A k \in 1..n : s[k] = IF k = n THEN f ELSE frames[k]
  <2> HIDE DEF T, s, n
  <2>1. f \in T  BY DEF T
  <2> QED  BY <1>1, <1>2, <1>3, <2>1
<1>5. s \in Seq(T) /\ Len(s) = n
  <2> HIDE DEF T, s, n
  <2> QED  BY <1>1, <1>4
<1>6. s \in Seq(ToSet(s))
  <2> HIDE DEF T, s
  <2> QED  BY <1>5, SeqToSet
<1> QED  BY <1>4, <1>5, <1>6

(* A step of the innermost call: if that is the one for the source, it     *)
(* keeps the lines or reports E012.                                        *)
LEMMA TopStep ==
  ASSUME LineInv, NEW f, frames' = SetTop(f), src' = src, errors \subseteq errors',
         IsFrame(f), f.text = Top.text, f.from = Top.from,
         Len(frames) = 1 => /\ f.i \in Nat \ {0}
                            /\ "E012" \notin errors' => Honest(f)
  PROVE  LineInv'
<1>1. /\ frames' \in Seq(ToSet(frames')) /\ Len(frames') = Len(frames)
      /\ \A k \in 1..Len(frames) : frames'[k] = IF k = Len(frames) THEN f ELSE frames[k]
  BY TopReplaced
<1>2. Len(frames) \in Nat \ {0} /\ (Len(frames) = 1 => Top = frames[1])  BY InnermostCall
<1>3. \A k \in 1..Len(frames') : IsFrame(frames'[k])  BY <1>1 DEF LineInv
<1>4. \A t : Dated(t) => t.line = 1 + Newlines(src', 1, t.at - 1)  BY DEF Dated
<1>5. /\ frames'[1].text = src'
      /\ frames'[1].i \in Nat \ {0}
  BY <1>1, <1>2 DEF LineInv, Base
<1>6. ASSUME "E012" \notin errors'
      PROVE  Honest(frames'[1]) /\ (Len(frames) >= 2 => Dated(frames'[2].from))
  <2>1. Honest(frames[1]) /\ (Len(frames) >= 2 => Dated(frames[2].from))
    BY <1>6 DEF LineInv, Base
  <2>2. Honest(frames'[1])  BY <1>1, <1>2, <1>6, <2>1
  <2>3. ASSUME Len(frames) >= 2 PROVE frames'[2].from = frames[2].from
    BY <1>1, <1>2, <2>3 DEF Top
  <2> QED  BY <2>1, <2>2, <2>3
<1>7. Base'  BY <1>1, <1>5, <1>6 DEF Base, Honest, Dated
<1>8. frames' # <<>>  BY <1>1, <1>2
<1> QED  BY <1>1, <1>3, <1>7, <1>8 DEF LineInv, IsFrame

LEMMA Joined ==
  ASSUME NEW s, NEW t, s \in Seq(ToSet(s)), t \in Seq(ToSet(t))
  PROVE  /\ s \o t \in Seq(ToSet(s \o t))
         /\ \A P : (\A k \in DOMAIN s : s[k] \in P) /\ (\A k \in DOMAIN t : t[k] \in P)
                     => \A k \in DOMAIN (s \o t) : (s \o t)[k] \in P
<1> DEFINE S == ToSet(s)
           T == ToSet(t)
           r == s \o t
<1>1. s \in Seq(S \cup T) /\ t \in Seq(S \cup T)
  <2> HIDE DEF S, T
  <2> QED  BY DEF S, T
<1>2. r \in Seq(S \cup T)
  <2> HIDE DEF S, T
  <2> QED  BY <1>1
<1>3. r \in Seq(ToSet(r))
  <2> HIDE DEF S, T, r
  <2> QED  BY <1>2, SeqToSet
<1>4. \A k \in DOMAIN r : (k \in DOMAIN s /\ r[k] = s[k]) \/ (k - Len(s) \in DOMAIN t /\ r[k] = t[k - Len(s)])
  <2> HIDE DEF S, T
  <2> QED  BY <1>1
<1> QED  BY <1>3, <1>4

(* Tokens that are made now.                                               *)
Fresh(toks) == /\ toks \in Seq(ToSet(toks))
               /\ \A k \in DOMAIN toks : /\ {"line", "at"} \subseteq DOMAIN toks[k]
                                         /\ toks[k].line = Top.line /\ toks[k].at = Where

LEMMA FoundIsFresh ==
  ASSUME NEW kind, NEW text
  PROVE  Fresh(Found(kind, text)) /\ Fresh(<<>>)
<1> DEFINE t == Token(kind, text, Top.line, Where)
<1>1. /\ {"line", "at"} \subseteq DOMAIN t /\ t.line = Top.line /\ t.at = Where
  BY DEF Token
<1>2. Found(kind, text) = <<t>>  BY DEF Found
<1> HIDE DEF t
<1>3. <<t>> \in Seq({t}) /\ DOMAIN <<t>> = {1} /\ <<t>>[1] = t  OBVIOUS
<1>4. <<t>> \in Seq(ToSet(<<t>>))  BY <1>3, SeqToSet
<1>5. Fresh(<<t>>)  BY <1>1, <1>3, <1>4 DEF Fresh
<1>6. <<>> \in Seq(ToSet(<<>>)) /\ DOMAIN <<>> = {}  OBVIOUS
<1> QED  BY <1>2, <1>5, <1>6 DEF Fresh

Extended(f, toks) == [f EXCEPT !.toks = @ \o toks]

LEMMA WithToks ==
  ASSUME NEW f, IsFrame(f), NEW toks, toks \in Seq(ToSet(toks)),
         \A k \in DOMAIN toks : {"line", "at"} \subseteq DOMAIN toks[k]
  PROVE  LET g == Extended(f, toks)
         IN  /\ IsFrame(g) /\ g.toks = f.toks \o toks
             /\ g.text = f.text /\ g.i = f.i /\ g.line = f.line /\ g.from = f.from
             /\ \A P : (\A k \in DOMAIN f.toks : f.toks[k] \in P) /\ (\A k \in DOMAIN toks : toks[k] \in P)
                         => \A k \in DOMAIN g.toks : g.toks[k] \in P
<1> DEFINE r == f.toks \o toks
           g == Extended(f, toks)
<1>1. /\ DOMAIN g = {"text", "i", "line", "toks", "from"} /\ g.toks = r
      /\ g.text = f.text /\ g.i = f.i /\ g.line = f.line /\ g.from = f.from
  <2> HIDE DEF r
  <2>1. g = [f EXCEPT !.toks = r]  BY DEF r, Extended
  <2> HIDE DEF g
  <2> QED  BY <2>1 DEF IsFrame
<1>2. /\ r \in Seq(ToSet(r))
      /\ \A P : (\A k \in DOMAIN f.toks : f.toks[k] \in P) /\ (\A k \in DOMAIN toks : toks[k] \in P)
                   => \A k \in DOMAIN r : r[k] \in P
  BY Joined DEF IsFrame
<1>3. \A k \in DOMAIN r : {"line", "at"} \subseteq DOMAIN r[k]
  <2> DEFINE P == {u \in ToSet(f.toks) \cup ToSet(toks) : {"line", "at"} \subseteq DOMAIN u}
  <2>1. (\A k \in DOMAIN f.toks : f.toks[k] \in P) /\ (\A k \in DOMAIN toks : toks[k] \in P)
    BY DEF IsFrame, ToSet
  <2>2. \A k \in DOMAIN r : r[k] \in P
    <3> HIDE DEF P, r
    <3> QED  BY <1>2, <2>1
  <2> HIDE DEF r
  <2> QED  BY <2>2
<1> HIDE DEF g
<1>4. IsFrame(g)  BY <1>1, <1>2, <1>3 DEF IsFrame
<1> QED  BY <1>1, <1>2, <1>4 DEF g

(* What is known of the call for the source.                               *)
LEMMA SourceCall ==
  ASSUME LineInv, Len(frames) = 1
  PROVE  /\ src \in Seq(Units) /\ Len(src) \in Nat
         /\ Top.text = src /\ Top.i \in Nat \ {0} /\ Where = Top.i
         /\ "E012" \notin errors => Honest(Top)
BY InnermostCall DEF LineInv, Base, Where

(* Tokens made from here on bear their line.                               *)
LEMMA FreshIsHonest ==
  ASSUME LineInv, Len(frames) = 1, "E012" \notin errors, NEW toks, Fresh(toks)
  PROVE  \A k \in DOMAIN toks : Dated(toks[k])
<1>1. Top.line = 1 + Newlines(src, 1, Top.i - 1) /\ Where = Top.i
  BY SourceCall DEF Honest
<1> QED  BY <1>1 DEF Fresh, Dated

LEMMA MovedFrame ==
  ASSUME LineInv, NEW end, NEW toks, Fresh(toks)
  PROVE  LET f == Moved(end, toks)
         IN  /\ IsFrame(f) /\ f.text = Top.text /\ f.from = Top.from /\ f.i = end
             /\ f.line = Top.line + Newlines(Top.text, Top.i, end - 1)
             /\ \A P : (\A k \in DOMAIN Top.toks : Top.toks[k] \in P) /\ (\A k \in DOMAIN toks : toks[k] \in P)
                         => \A k \in DOMAIN f.toks : f.toks[k] \in P
<1> DEFINE n == Newlines(Top.text, Top.i, end - 1)
           g1 == [Top EXCEPT !.i = end]
           g2 == [g1 EXCEPT !.line = @ + n]
           g3 == Extended(g2, toks)
<1>1. IsFrame(Top)  BY InnermostCall
<1>2. Moved(end, toks) = g3
  <2>1. Moved(end, toks) = [Top EXCEPT !.i = end, !.line = @ + n, !.toks = @ \o toks]  BY DEF Moved
  <2> HIDE DEF n
  <2> QED  BY <2>1 DEF Extended
<1>3. /\ IsFrame(g1) /\ g1.i = end /\ g1.line = Top.line /\ g1.toks = Top.toks
      /\ g1.text = Top.text /\ g1.from = Top.from
  BY <1>1 DEF IsFrame
<1>4. /\ IsFrame(g2) /\ g2.i = end /\ g2.line = Top.line + n /\ g2.toks = Top.toks
      /\ g2.text = Top.text /\ g2.from = Top.from
  <2> HIDE DEF g1, n
  <2> QED  BY <1>3 DEF IsFrame
<1>5. toks \in Seq(ToSet(toks)) /\ \A k \in DOMAIN toks : {"line", "at"} \subseteq DOMAIN toks[k]
  BY DEF Fresh
<1>6. /\ IsFrame(g3) /\ g3.text = g2.text /\ g3.i = g2.i /\ g3.line = g2.line /\ g3.from = g2.from
      /\ \A P : (\A k \in DOMAIN g2.toks : g2.toks[k] \in P) /\ (\A k \in DOMAIN toks : toks[k] \in P)
                  => \A k \in DOMAIN g3.toks : g3.toks[k] \in P
  <2> HIDE DEF g2
  <2> QED  BY <1>4, <1>5, WithToks
<1> HIDE DEF g2, g3
<1> QED  BY <1>2, <1>4, <1>6

LEMMA HonestMoved ==
  ASSUME LineInv, Len(frames) = 1, "E012" \notin errors, NEW end \in Nat, Top.i <= end,
         NEW toks, Fresh(toks)
  PROVE  Honest(Moved(end, toks))
<1> DEFINE f == Moved(end, toks)
           nl == Newlines(Top.text, Top.i, end - 1)
           P == {t \in ToSet(Top.toks) \cup ToSet(toks) : Dated(t)}
<1>1. Top.text = src /\ Top.i \in Nat \ {0} /\ Honest(Top)  BY SourceCall
<1>2. (\A k \in DOMAIN Top.toks : Top.toks[k] \in P) /\ (\A k \in DOMAIN toks : toks[k] \in P)
  BY <1>1, FreshIsHonest DEF Honest, ToSet
<1>3. f.i = end /\ f.line = Top.line + nl /\ \A k \in DOMAIN f.toks : f.toks[k] \in P
  <2>1. /\ f.i = end /\ f.line = Top.line + nl
        /\ \A Q : (\A k \in DOMAIN Top.toks : Top.toks[k] \in Q) /\ (\A k \in DOMAIN toks : toks[k] \in Q)
                    => \A k \in DOMAIN f.toks : f.toks[k] \in Q
    BY MovedFrame
  <2> HIDE DEF P, f, nl
  <2> QED  BY <1>2, <2>1
<1>4. \A k \in DOMAIN f.toks : Dated(f.toks[k])
  <2> HIDE DEF f
  <2> QED  BY <1>3
<1>5. f.line = 1 + Newlines(src, 1, f.i - 1)
  <2> DEFINE a == Newlines(src, 1, Top.i - 1)
             b == Newlines(src, Top.i, end - 1)
             c == Newlines(src, 1, end - 1)
  <2>1. a + b = c  BY <1>1, LinesAdd
  <2>2. a \in Nat /\ b \in Nat
    <3>1. Top.i - 1 \in Int /\ end - 1 \in Int /\ 1 \in Nat /\ Top.i \in Nat  BY <1>1
    <3> QED  BY <3>1, LinesType
  <2>3. Top.line = 1 + a  BY <1>1 DEF Honest
  <2>4. f.line = Top.line + b /\ f.i = end  BY <1>1, <1>3
  <2> HIDE DEF a, b, c, f
  <2>5. f.line = 1 + c  BY <2>1, <2>2, <2>3, <2>4
  <2> QED  BY <2>4, <2>5 DEF c
<1> QED  BY <1>4, <1>5 DEF Honest

(* The branches that move on.                                              *)
LEMMA Advances ==
  ASSUME LineInv, NEW end, NEW toks, Fresh(toks), Advance(end, toks),
         src' = src, errors \subseteq errors',
         Len(frames) = 1 => end \in Nat /\ Top.i <= end
  PROVE  LineInv'
<1> DEFINE f == Moved(end, toks)
<1>1. IsFrame(f) /\ f.text = Top.text /\ f.from = Top.from /\ f.i = end  BY MovedFrame
<1>2. ASSUME Len(frames) = 1
      PROVE  f.i \in Nat \ {0} /\ ("E012" \notin errors' => Honest(f))
  <2>1. end \in Nat \ {0}  BY <1>2, SourceCall
  <2>2. ASSUME "E012" \notin errors' PROVE Honest(f)
    <3>1. "E012" \notin errors  BY <2>2
    <3> QED  BY <1>2, <2>1, <3>1, HonestMoved
  <2> QED  BY <1>1, <2>1, <2>2
<1>3. frames' = SetTop(f)  BY DEF Advance
<1> HIDE DEF f
<1> QED  BY <1>1, <1>2, <1>3, TopStep

(* An expansion is entered.                                                *)
LEMMA Pushes ==
  ASSUME LineInv, NEW end, NEW text,
         frames' = Append(SetTop(Moved(end, <<>>)), Frame(text, Top.line, Where)),
         src' = src, errors \subseteq errors',
         Len(frames) = 1 => end \in Nat /\ Top.i <= end
  PROVE  LineInv'
<1> DEFINE f == Moved(end, <<>>)
           g == Frame(text, Top.line, Where)
           s == SetTop(f)
           n == Len(frames)
           T == ToSet(s) \cup {g}
<1>1. Fresh(<<>>)  BY FoundIsFresh
<1>2. IsFrame(f) /\ f.text = Top.text /\ f.from = Top.from /\ f.i = end  BY <1>1, MovedFrame
<1>3. IsFrame(g) /\ g.from.line = Top.line /\ g.from.at = Where
  <2>1. g = [text |-> text, i |-> 1, line |-> 1, toks |-> <<>>,
             from |-> [line |-> Top.line, at |-> Where]]
    BY DEF Frame
  <2>2. <<>> \in Seq(ToSet(<<>>)) /\ DOMAIN <<>> = {}  OBVIOUS
  <2> HIDE DEF g
  <2> QED  BY <2>1, <2>2 DEF IsFrame
<1>4. /\ s \in Seq(ToSet(s)) /\ Len(s) = n
      /\ \A k \in 1..n : s[k] = IF k = n THEN f ELSE frames[k]
  BY TopReplaced
<1>5. n \in Nat \ {0} /\ (n = 1 => Top = frames[1])  BY InnermostCall
<1>6. frames' = Append(s, g)  OBVIOUS
<1> HIDE DEF f, g, s, n
<1>7. /\ frames' \in Seq(T) /\ Len(frames') = n + 1 /\ frames'[n + 1] = g
      /\ \A k \in 1..n : frames'[k] = IF k = n THEN f ELSE frames[k]
  <2>1. s \in Seq(T) /\ g \in T  BY <1>4
  <2> HIDE DEF T
  <2>2. /\ frames' \in Seq(T) /\ Len(frames') = n + 1 /\ frames'[n + 1] = g
        /\ \A k \in 1..n : frames'[k] = s[k]
    <3> DEFINE q == Append(s, g)
    <3>1. /\ q \in Seq(T) /\ Len(q) = Len(s) + 1 /\ q[Len(s) + 1] = g
          /\ \A k \in 1..Len(s) : q[k] = s[k]
      BY <2>1, AppendProperties
    <3>2. frames' = q /\ Len(s) = n  BY <1>4, <1>6
    <3> HIDE DEF q
    <3> QED  BY <3>1, <3>2
  <2> QED  BY <1>4, <2>2
<1>8. frames' \in Seq(ToSet(frames'))
  <2> HIDE DEF T
  <2> QED  BY <1>7, SeqToSet
<1>9. \A k \in 1..Len(frames') : IsFrame(frames'[k])
  <2>1. \A k \in 1..n : IsFrame(frames[k])  BY DEF LineInv, n
  <2> QED  BY <1>2, <1>3, <1>5, <1>7, <2>1
<1>10. frames'[1].text = src' /\ frames'[1].i \in Nat \ {0}
  <2>1. CASE n = 1
    <3>1. Top.text = src /\ Top.i \in Nat \ {0} /\ end \in Nat /\ Top.i <= end
      BY <2>1, SourceCall DEF n
    <3> QED  BY <1>2, <1>7, <2>1, <3>1
  <2>2. CASE n > 1
    <3>1. frames'[1] = frames[1]  BY <1>5, <1>7, <2>2
    <3> QED  BY <3>1 DEF LineInv, Base
  <2> QED  BY <1>5, <2>1, <2>2
<1>11. ASSUME "E012" \notin errors'
       PROVE  Honest(frames'[1]) /\ Dated(frames'[2].from)
  <2>0. "E012" \notin errors /\ (n = 1 \/ n = 2 \/ n > 2)  BY <1>5, <1>11
  <2>1. CASE n = 1
    <3>1. end \in Nat /\ Top.i <= end  BY <2>1 DEF n
    <3>2. Honest(f)  BY <1>1, <2>0, <2>1, <3>1, HonestMoved DEF f, n
    <3>3. Dated(g.from)
      <4>1. Top.line = 1 + Newlines(src, 1, Top.i - 1) /\ Where = Top.i
        BY <2>0, <2>1, SourceCall DEF Honest, n
      <4> QED  BY <1>3, <4>1 DEF Dated
    <3>4. frames'[1] = f /\ frames'[2] = g  BY <1>7, <2>1
    <3> QED  BY <3>2, <3>3, <3>4
  <2>2. CASE n = 2 \/ n > 2
    <3>1. Honest(frames[1]) /\ Dated(frames[2].from)  BY <1>5, <2>0, <2>2 DEF LineInv, Base, n
    <3>2. frames'[1] = frames[1]  BY <1>5, <1>7, <2>2
    <3>3. frames'[2].from = frames[2].from
      <4>1. CASE n = 2
        <5>1. frames'[2] = f /\ Top = frames[2]  BY <1>7, <4>1 DEF Top, n
        <5> QED  BY <1>2, <5>1
      <4>2. CASE n > 2  BY <1>5, <1>7, <4>2
      <4> QED  BY <2>2, <4>1, <4>2
    <3> QED  BY <3>1, <3>2, <3>3
  <2> QED  BY <2>0, <2>1, <2>2
<1>12. Base'  BY <1>10, <1>11 DEF Base, Honest, Dated
<1>13. frames' # <<>>  BY <1>5, <1>7
<1> QED  BY <1>8, <1>9, <1>12, <1>13 DEF LineInv, IsFrame

(* An expansion is left: its tokens get the line of the call.              *)
Relabelled == [k \in 1..Len(Top.toks) |->
                 [Top.toks[k] EXCEPT !.line = Top.from.line, !.at = Top.from.at]]

LEMMA RelabelledTokens ==
  ASSUME LineInv
  PROVE  /\ Relabelled \in Seq(ToSet(Relabelled))
         /\ \A k \in DOMAIN Relabelled : /\ {"line", "at"} \subseteq DOMAIN Relabelled[k]
                                         /\ Relabelled[k].line = Top.from.line
                                         /\ Relabelled[k].at = Top.from.at
<1> DEFINE m == Len(Top.toks)
<1>1. /\ m \in Nat /\ DOMAIN Top.toks = 1..m
      /\ \A k \in 1..m : {"line", "at"} \subseteq DOMAIN Top.toks[k]
  BY InnermostCall DEF IsFrame
<1>2. /\ DOMAIN Relabelled = 1..m
      /\ \A k \in 1..m : Relabelled[k] = [Top.toks[k] EXCEPT !.line = Top.from.line, !.at = Top.from.at]
  BY DEF Relabelled
<1> HIDE DEF m
<1>3. \A k \in 1..m : /\ {"line", "at"} \subseteq DOMAIN Relabelled[k]
                      /\ Relabelled[k].line = Top.from.line /\ Relabelled[k].at = Top.from.at
  <2> SUFFICES ASSUME NEW k \in 1..m
               PROVE  /\ {"line", "at"} \subseteq DOMAIN Relabelled[k]
                      /\ Relabelled[k].line = Top.from.line /\ Relabelled[k].at = Top.from.at
    OBVIOUS
  <2> DEFINE t == Top.toks[k]
             a == Top.from.line
             b == Top.from.at
             r == Relabelled[k]
  <2>1. {"line", "at"} \subseteq DOMAIN t /\ r = [t EXCEPT !.line = a, !.at = b]  BY <1>1, <1>2
  <2> HIDE DEF t, a, b, r
  <2>2. {"line", "at"} \subseteq DOMAIN r /\ r.line = a /\ r.at = b  BY <2>1
  <2> QED  BY <2>2 DEF a, b, r
<1>4. Relabelled \in Seq(ToSet(Relabelled))
  <2>1. Relabelled \in [1..Len(Top.toks) -> ToSet(Relabelled)]
    <3>1. \A k \in DOMAIN Relabelled : Relabelled[k] \in ToSet(Relabelled)  BY DEF ToSet
    <3> QED  BY <3>1 DEF Relabelled
  <2>2. Len(Top.toks) \in Nat  BY <1>1 DEF m
  <2> HIDE DEF m
  <2> QED  BY <2>1, <2>2
<1> QED  BY <1>2, <1>3, <1>4

LEMMA Leaves ==
  ASSUME LineInv, EndExpansion
  PROVE  LineInv'
<1> DEFINE n == Len(frames)
           m == n - 1
           h == frames[m]
           R == Relabelled
           g == Extended(h, R)
           s == Front(frames)
           T == ToSet(frames) \cup {g}
<1>1. /\ n \in Nat /\ m \in Nat \ {0} /\ m + 1 = n /\ frames \in Seq(ToSet(frames))
      /\ src' = src /\ errors' = errors
  <2>1. n > 1 /\ src' = src /\ errors' = errors  BY DEF EndExpansion
  <2>2. n \in Nat /\ frames \in Seq(ToSet(frames))  BY InnermostCall DEF LineInv
  <2> HIDE DEF n
  <2> QED  BY <2>1, <2>2
<1>2. frames' = [s EXCEPT ![m] = g]
  <2>1. frames' = [s EXCEPT ![m].toks = @ \o R]  BY DEF EndExpansion, Relabelled
  <2>2. /\ s \in Seq(ToSet(frames)) /\ Len(s) = m /\ \A k \in 1..m : s[k] = frames[k]
    <3>1. s = SubSeq(frames, 1, m)  BY DEF Front
    <3> HIDE DEF s, m
    <3> QED  BY <1>1, <3>1, SubSeqProperties
  <2>3. DOMAIN s = 1..m /\ s[m] = h  BY <1>1, <2>2
  <2> HIDE DEF s, m, h, R
  <2>4. [s[m] EXCEPT !.toks = @ \o R] = g  BY <2>3 DEF Extended
  <2>5. [s EXCEPT ![m].toks = @ \o R] = [s EXCEPT ![m] = [s[m] EXCEPT !.toks = @ \o R]]  OBVIOUS
  <2> QED  BY <2>1, <2>4, <2>5
<1>3. s \in Seq(T) /\ Len(s) = m /\ \A k \in 1..m : s[k] = frames[k]
  <2>1. s = SubSeq(frames, 1, m)  BY DEF Front
  <2>2. frames \in Seq(T)  BY <1>1
  <2> HIDE DEF s, m, T
  <2> QED  BY <1>1, <2>1, <2>2, SubSeqProperties
<1>4. IsFrame(h)  BY <1>1 DEF LineInv
<1>5. /\ R \in Seq(ToSet(R)) /\ \A k \in DOMAIN R : {"line", "at"} \subseteq DOMAIN R[k]
      /\ \A k \in DOMAIN R : R[k].line = Top.from.line /\ R[k].at = Top.from.at
  BY RelabelledTokens
<1>6. /\ IsFrame(g) /\ g.text = h.text /\ g.i = h.i /\ g.line = h.line /\ g.from = h.from
      /\ \A P : (\A k \in DOMAIN h.toks : h.toks[k] \in P) /\ (\A k \in DOMAIN R : R[k] \in P)
                  => \A k \in DOMAIN g.toks : g.toks[k] \in P
  <2> HIDE DEF h, R
  <2> QED  BY <1>4, <1>5, WithToks
<1> HIDE DEF g, s, R
<1>7. /\ frames' \in Seq(T) /\ Len(frames') = m
      /\ \A k \in 1..m : frames'[k] = IF k = m THEN g ELSE frames[k]
  <2>1. g \in T  OBVIOUS
  <2> HIDE DEF T, m
  <2> QED  BY <1>1, <1>2, <1>3, <2>1
<1> HIDE DEF T, m, n, h
<1>8. frames' \in Seq(ToSet(frames'))  BY <1>7, SeqToSet
<1>9. \A k \in 1..Len(frames') : IsFrame(frames'[k])
  <2>1. \A k \in 1..m : IsFrame(frames[k])  BY <1>1 DEF LineInv, n
  <2> QED  BY <1>6, <1>7, <2>1
<1>10. frames'[1].text = src' /\ frames'[1].i \in Nat \ {0}
  <2>1. frames[1].text = src /\ frames[1].i \in Nat \ {0}  BY DEF LineInv, Base
  <2>2. frames'[1] = IF m = 1 THEN g ELSE frames[1]  BY <1>1, <1>7
  <2> QED  BY <1>1, <1>6, <2>1, <2>2 DEF h
<1>11. ASSUME "E012" \notin errors'
       PROVE  Honest(frames'[1]) /\ (m >= 2 => Dated(frames'[2].from))
  <2>1. Honest(frames[1]) /\ Dated(frames[2].from)  BY <1>1, <1>11 DEF LineInv, Base, n
  <2>2. CASE m = 1
    <3>1. h = frames[1] /\ Top = frames[2]
      <4>1. n = 2  BY <1>1, <2>2
      <4> QED  BY <2>2, <4>1 DEF Top, h, n
    <3>2. frames'[1] = g  BY <1>1, <1>7, <2>2
    <3> DEFINE P == {t \in ToSet(h.toks) \cup ToSet(R) : Dated(t)}
    <3>3. (\A k \in DOMAIN h.toks : h.toks[k] \in P) /\ (\A k \in DOMAIN R : R[k] \in P)
      <4>1. \A k \in DOMAIN h.toks : Dated(h.toks[k])  BY <2>1, <3>1 DEF Honest
      <4>2. \A k \in DOMAIN R : Dated(R[k])  BY <1>5, <2>1, <3>1 DEF Dated
      <4> QED  BY <4>1, <4>2 DEF ToSet
    <3>4. \A k \in DOMAIN g.toks : g.toks[k] \in P
      <4> HIDE DEF P
      <4> QED  BY <1>6, <3>3
    <3>5. \A k \in DOMAIN g.toks : Dated(g.toks[k])  BY <3>4
    <3>6. g.line = 1 + Newlines(src, 1, g.i - 1)  BY <1>6, <2>1, <3>1 DEF Honest
    <3>7. Honest(g)  BY <3>5, <3>6 DEF Honest
    <3>8. ~(m >= 2)  BY <2>2
    <3> QED  BY <3>2, <3>7, <3>8
  <2>3. CASE m # 1
    <3>1. frames'[1] = frames[1]  BY <1>1, <1>7, <2>3
    <3>2. frames'[2].from = frames[2].from
      <4>1. 2 \in 1..m  BY <1>1, <2>3
      <4>2. frames'[2] = IF m = 2 THEN g ELSE frames[2]  BY <1>7, <4>1
      <4> QED  BY <1>6, <4>2 DEF h
    <3> QED  BY <2>1, <3>1, <3>2
  <2> QED  BY <2>2, <2>3
<1>12. Base'  BY <1>1, <1>7, <1>10, <1>11 DEF Base, Honest, Dated
<1>13. frames' # <<>>  BY <1>1, <1>7
<1> QED  BY <1>1, <1>8, <1>9, <1>12, <1>13 DEF LineInv, IsFrame

LEMMA Stays ==
  ASSUME LineInv, UNCHANGED <<src, frames>>, errors \subseteq errors'
  PROVE  LineInv'
<1>1. "E012" \notin errors' => "E012" \notin errors  OBVIOUS
<1>2. Base'  BY <1>1 DEF LineInv, Base, Honest, Dated
<1> QED  BY <1>2 DEF LineInv, IsFrame

(* Where the branches of the loop come to.                                 *)
LEMMA Ahead ==
  ASSUME LineInv, Lexing, Len(frames) = 1
  PROVE  LET text == Top.text
             i == Top.i
         IN  /\ text = src /\ Len(text) \in Nat /\ i \in 1..Len(text)
             /\ i + 1 \in Nat /\ i <= i + 1
             /\ MacroEnd(text, i) \in Nat /\ i <= MacroEnd(text, i)
             /\ \A S : First(text, i, S) \in Nat /\ i <= First(text, i, S)
             /\ \A S : Past(text, i, S) \in Nat /\ i <= Past(text, i, S)
             /\ \A S : Past(text, i + 1, S) \in Nat /\ i <= Past(text, i + 1, S)
             /\ CodeEnd(text, i + 1) \in Nat /\ i <= CodeEnd(text, i + 1)
             /\ \A q : QuoteEnd(text, i + 1, q) \in Nat /\ i <= QuoteEnd(text, i + 1, q)
             /\ i + Len(NameHere) \in Nat /\ i <= i + Len(NameHere)
<1> DEFINE text == Top.text
           i == Top.i
<1>1. text = src /\ src \in Seq(Units) /\ i \in Nat \ {0} /\ i <= Len(text)
  BY SourceCall DEF Lexing
<1>2. Len(text) \in Nat /\ i \in 1..Len(text) /\ i + 1 \in Nat \ {0} /\ i + 1 \in 1..(Len(text) + 1)
  BY <1>1
<1>3. NameHere = SubSeq(text, i, Past(text, i, Letters \cup Digits) - 1)
  BY DEF NameHere, Piece
<1> HIDE DEF text, i
<1>4. MacroEnd(text, i) \in Nat /\ i <= MacroEnd(text, i)  BY <1>2, MacroForward
<1>5. \A S : First(text, i, S) \in Nat /\ i <= First(text, i, S)  BY <1>1, <1>2, Forward
<1>6. \A S : Past(text, i, S) \in Nat /\ i <= Past(text, i, S)  BY <1>1, <1>2, Forward
<1>7. \A S : Past(text, i + 1, S) \in Nat /\ i <= Past(text, i + 1, S)
  <2>1. \A S : Past(text, i + 1, S) \in Nat /\ i + 1 <= Past(text, i + 1, S)  BY <1>2, Forward
  <2> QED  BY <1>1, <2>1
<1>8. CodeEnd(text, i + 1) \in Nat /\ i <= CodeEnd(text, i + 1)
  <2>1. CodeEnd(text, i + 1) \in Nat /\ i + 1 <= CodeEnd(text, i + 1)  BY <1>2, CodeForward
  <2> QED  BY <1>1, <2>1
<1>9. \A q : QuoteEnd(text, i + 1, q) \in Nat /\ i <= QuoteEnd(text, i + 1, q)
  <2>1. \A q : QuoteEnd(text, i + 1, q) \in Nat /\ i + 1 <= QuoteEnd(text, i + 1, q)
    BY <1>2, QuoteForward
  <2> QED  BY <1>1, <2>1
<1>10. Len(NameHere) \in Nat
  <2> DEFINE b == Past(text, i, Letters \cup Digits)
  <2>1. b \in Nat /\ i <= b  BY <1>6
  <2>2. text \in Seq(Units) /\ NameHere = SubSeq(text, i, b - 1)  BY <1>1, <1>3
  <2> HIDE DEF b
  <2>3. Len(SubSeq(text, i, b - 1)) = IF i <= b - 1 THEN (b - 1) - i + 1 ELSE 0
    BY <1>1, <2>1, <2>2
  <2> QED  BY <1>1, <2>1, <2>2, <2>3
<1>11. i + Len(NameHere) \in Nat /\ i <= i + Len(NameHere)  BY <1>1, <1>10
<1> QED  BY <1>1, <1>2, <1>4, <1>5, <1>6, <1>7, <1>8, <1>9, <1>11 DEF text, i

(* A string does not count its lines, and is an error if it has any.       *)
LEMMA StringKeeps ==
  ASSUME LineInv, StringLiteral
  PROVE  LineInv'
<1> DEFINE close == QuoteEnd(Top.text, Top.i + 1, Quote)
           text  == Piece(Top.text, Top.i, Min({close, Len(Top.text) + 1}))
           F     == Found("string", text)
           g1    == [Top EXCEPT !.i = close]
           g     == Extended(g1, F)
<1>1. /\ Lexing /\ src' = src
      /\ frames' = SetTop([Top EXCEPT !.i = close, !.toks = @ \o F])
      /\ errors' = errors \cup IF close > Len(Top.text) + 1 \/ ~OneLine(text) THEN {"E012"} ELSE {}
  BY DEF StringLiteral, AtUnit, Report
<1>2. IsFrame(Top) /\ Fresh(F)  BY InnermostCall, FoundIsFresh
<1>3. [Top EXCEPT !.i = close, !.toks = @ \o F] = g
  <2> HIDE DEF close, F
  <2> QED  BY <1>2 DEF IsFrame, Extended
<1>4. /\ IsFrame(g1) /\ g1.i = close /\ g1.line = Top.line /\ g1.toks = Top.toks
      /\ g1.text = Top.text /\ g1.from = Top.from
  <2> HIDE DEF close
  <2> QED  BY <1>2 DEF IsFrame
<1>5. /\ IsFrame(g) /\ g.text = g1.text /\ g.i = g1.i /\ g.line = g1.line /\ g.from = g1.from
      /\ \A P : (\A k \in DOMAIN g1.toks : g1.toks[k] \in P) /\ (\A k \in DOMAIN F : F[k] \in P)
                  => \A k \in DOMAIN g.toks : g.toks[k] \in P
  <2> HIDE DEF g1, F
  <2> QED  BY <1>2, <1>4, WithToks DEF Fresh
<1> HIDE DEF g1, g, F
<1>6. ASSUME Len(frames) = 1
      PROVE  g.i \in Nat \ {0} /\ ("E012" \notin errors' => Honest(g))
  <2>1. /\ Top.text = src /\ src \in Seq(Units) /\ Len(src) \in Nat /\ Top.i \in Nat \ {0}
        /\ close \in Nat /\ Top.i <= close /\ Top.i <= Len(src)
    BY <1>1, <1>6, SourceCall, Ahead
  <2>2. ASSUME "E012" \notin errors' PROVE Honest(g)
    <3>1. "E012" \notin errors /\ close <= Len(src) + 1 /\ OneLine(text)
      <4> HIDE DEF text, close
      <4> QED  BY <1>1, <2>1, <2>2
    <3>2. text = Piece(src, Top.i, close)
      <4> DEFINE C == {close, Len(src) + 1}
      <4> HIDE DEF close
      <4>1. C \subseteq Nat /\ C # {}  BY <2>1
      <4>2. Min(C) \in C /\ \A j \in C : Min(C) <= j
        <5> HIDE DEF C
        <5> QED  BY <4>1, MinIsFirst
      <4>3. Min(C) = close  BY <2>1, <3>1, <4>2
      <4> QED  BY <2>1, <4>3
    <3>3. Newlines(src, Top.i, close - 1) = 0
      <4> HIDE DEF close, text
      <4> QED  BY <2>1, <3>1, <3>2, OneLineCounts
    <3>4. Newlines(src, 1, Top.i - 1) + Newlines(src, Top.i, close - 1) = Newlines(src, 1, close - 1)
      <4> HIDE DEF close
      <4> QED  BY <2>1, LinesAdd
    <3>5. Newlines(src, 1, Top.i - 1) \in Nat
      <4>1. Top.i - 1 \in Int /\ 1 \in Nat  BY <2>1
      <4> QED  BY <4>1, LinesType
    <3>6. Honest(Top)  BY <1>6, <3>1, SourceCall
    <3>7. g.line = 1 + Newlines(src, 1, g.i - 1)
      <4> HIDE DEF close
      <4> QED  BY <1>4, <1>5, <3>3, <3>4, <3>5, <3>6 DEF Honest
    <3> DEFINE P == {t \in ToSet(Top.toks) \cup ToSet(F) : Dated(t)}
    <3>8. (\A k \in DOMAIN g1.toks : g1.toks[k] \in P) /\ (\A k \in DOMAIN F : F[k] \in P)
      <4>1. \A k \in DOMAIN F : Dated(F[k])  BY <1>2, <1>6, <3>1, FreshIsHonest
      <4> QED  BY <1>4, <3>6, <4>1 DEF Honest, ToSet
    <3>9. \A k \in DOMAIN g.toks : g.toks[k] \in P
      <4> HIDE DEF P
      <4> QED  BY <1>5, <3>8
    <3>10. \A k \in DOMAIN g.toks : Dated(g.toks[k])  BY <3>9
    <3> QED  BY <3>7, <3>10 DEF Honest
  <2> QED  BY <1>4, <1>5, <2>1, <2>2
<1>7. errors \subseteq errors'  BY <1>1
<1>8. frames' = SetTop(g)  BY <1>1, <1>3
<1> HIDE DEF close, text
<1> QED  BY <1>1, <1>4, <1>5, <1>6, <1>7, <1>8, TopStep

LEMMA BecomeKeeps ==
  ASSUME LineInv, NEW text, NEW end, Become(text, end), src' = src, errors \subseteq errors',
         Len(frames) = 1 => end \in Nat /\ Top.i <= end
  PROVE  LineInv'
<1>1. CASE Advance(end, <<>>)  BY <1>1, FoundIsFresh, Advances
<1>2. CASE Advance(end, Found("verbatim", text))  BY <1>2, FoundIsFresh, Advances
<1>3. CASE frames' = Append(SetTop(Moved(end, <<>>)), Frame(text, Top.line, Where))
  BY <1>3, Pushes
<1> QED  BY <1>1, <1>2, <1>3 DEF Become

LEMMA ExpandKeeps ==
  ASSUME LineInv, Expand
  PROVE  LineInv'
<1>1. Lexing  BY DEF Expand, AtUnit
<1> DEFINE end == Top.i + Len(NameHere)
<1>2. PICK m \in Find(macros, NameHere) : ExpandName(macros[m], end) \/ ExpandCall(macros[m], end)
  BY DEF Expand
<1>3. Len(frames) = 1 => end \in Nat /\ Top.i <= end  BY <1>1, Ahead
<1> HIDE DEF end
<1>4. CASE ExpandName(macros[m], end)
  <2>1. PICK text \in {Trim(macros[m].text)} : Become(text, end)  BY <1>4 DEF ExpandName
  <2>2. src' = src /\ errors \subseteq errors'  BY <1>4 DEF ExpandName
  <2> QED  BY <1>3, <2>1, <2>2, BecomeKeeps
<1>5. CASE ExpandCall(macros[m], end)
  <2> DEFINE after == CallEnd(Top.text, end + 1)
  <2>1. /\ src' = src /\ errors \subseteq errors'
        /\ UNCHANGED frames \/ \E text : Become(text, after)
    BY <1>5 DEF ExpandCall, Report
  <2>2. ASSUME Len(frames) = 1 PROVE after \in Nat /\ Top.i <= after
    <3>1. Is(Top.text, end, "(")  BY <1>5 DEF ExpandCall
    <3>2. end \in 1..Len(Top.text) /\ Len(Top.text) \in Nat /\ Top.i \in Nat
      BY <1>1, <2>2, <3>1, Ahead DEF Is
    <3>3. end + 1 \in 1..(Len(Top.text) + 1)  BY <3>2
    <3>4. after \in Nat /\ end + 1 <= after  BY <3>2, <3>3, CallForward
    <3> HIDE DEF after
    <3> QED  BY <1>3, <2>2, <3>2, <3>4
  <2> HIDE DEF after
  <2>3. CASE UNCHANGED frames  BY <2>1, <2>3, Stays
  <2>4. CASE \E text : Become(text, after)
    <3> PICK text : Become(text, after)  BY <2>4
    <3> QED  BY <2>1, <2>2, BecomeKeeps
  <2> QED  BY <2>1, <2>3, <2>4
<1> QED  BY <1>2, <1>4, <1>5

LEMMA FinishKeeps ==
  ASSUME LineInv, Finish
  PROVE  LineInv'
<1> DEFINE F == Found("eof", <<>>)
           g == Extended(Top, F)
<1>1. Len(frames) = 1 /\ src' = src /\ errors' = errors /\ frames' = SetTop(g)
  BY DEF Finish, Extended
<1>2. IsFrame(Top) /\ Fresh(F)  BY InnermostCall, FoundIsFresh
<1> HIDE DEF F
<1>3. /\ IsFrame(g) /\ g.text = Top.text /\ g.i = Top.i /\ g.line = Top.line /\ g.from = Top.from
      /\ \A P : (\A k \in DOMAIN Top.toks : Top.toks[k] \in P) /\ (\A k \in DOMAIN F : F[k] \in P)
                  => \A k \in DOMAIN g.toks : g.toks[k] \in P
  BY <1>2, WithToks DEF Fresh
<1> HIDE DEF g
<1>4. g.i \in Nat \ {0}  BY <1>1, <1>3, SourceCall
<1>5. ASSUME "E012" \notin errors' PROVE Honest(g)
  <2>1. Honest(Top) /\ \A k \in DOMAIN F : Dated(F[k])
    BY <1>1, <1>2, <1>5, SourceCall, FreshIsHonest
  <2> DEFINE P == {t \in ToSet(Top.toks) \cup ToSet(F) : Dated(t)}
  <2>2. (\A k \in DOMAIN Top.toks : Top.toks[k] \in P) /\ (\A k \in DOMAIN F : F[k] \in P)
    BY <2>1 DEF Honest, ToSet
  <2>3. \A k \in DOMAIN g.toks : g.toks[k] \in P
    <3> HIDE DEF P
    <3> QED  BY <1>3, <2>2
  <2>4. \A k \in DOMAIN g.toks : Dated(g.toks[k])  BY <2>3
  <2> QED  BY <1>3, <2>1, <2>4 DEF Honest
<1> QED  BY <1>1, <1>3, <1>4, <1>5, TopStep

LEMMA LexStep ==
  ASSUME LineInv, [LexNext]_lexvars
  PROVE  LineInv'
<1> DEFINE To(end) == \E toks : Fresh(toks) /\ Advance(end, toks)
           Keeps == src' = src /\ errors \subseteq errors'
<1>0. ASSUME NEW end, To(end), Keeps, Len(frames) = 1 => end \in Nat /\ Top.i <= end
      PROVE  LineInv'
  BY <1>0, Advances
<1>f. \A kind, text : Fresh(Found(kind, text)) /\ Fresh(<<>>)  BY FoundIsFresh
<1>1. CASE Define
  <2>1. To(MacroEnd(Top.text, Top.i)) /\ Keeps /\ Lexing  BY <1>1, <1>f DEF Define, AtUnit, Report
  <2> QED  BY <2>1, <1>0, Ahead
<1>2. CASE Hash \/ Blank \/ Symbol
  <2>1. To(Top.i + 1) /\ Keeps /\ Lexing  BY <1>2, <1>f DEF Hash, Blank, Symbol, AtUnit, Report
  <2> QED  BY <2>1, <1>0, Ahead
<1>3. CASE LineComment
  <2>1. To(First(Top.text, Top.i, {"newline"})) /\ Keeps /\ Lexing  BY <1>3, <1>f DEF LineComment, AtUnit
  <2> QED  BY <2>1, <1>0, Ahead
<1>4. CASE BlockComment
  <2> DEFINE end == First(Top.text, Top.i, {"*/"})
  <2>1. To(end + 1) /\ Keeps /\ Lexing  BY <1>4, <1>f DEF BlockComment, AtUnit, Report
  <2>2. Len(frames) = 1 => end + 1 \in Nat /\ Top.i <= end + 1
    <3>1. Len(frames) = 1 => end \in Nat /\ Top.i <= end /\ Top.i \in Nat  BY <2>1, Ahead
    <3> HIDE DEF end
    <3> QED  BY <3>1
  <2> QED  BY <2>1, <2>2, <1>0
<1>5. CASE Section
  <2>1. To(Past(Top.text, Top.i + 1, Letters \cup Digits)) /\ Keeps /\ Lexing
    BY <1>5, <1>f DEF Section, AtUnit
  <2> QED  BY <2>1, <1>0, Ahead
<1>6. CASE InlineC
  <2> DEFINE close == CodeEnd(Top.text, Top.i + 1)
             C     == {close, Len(Top.text) + 1}
  <2>1. To(Min(C)) /\ Keeps /\ Lexing  BY <1>6, <1>f DEF InlineC, AtUnit, Report
  <2>2. ASSUME Len(frames) = 1 PROVE Min(C) \in Nat /\ Top.i <= Min(C)
    <3>1. close \in Nat /\ Top.i <= close /\ Len(Top.text) \in Nat /\ Top.i \in 1..Len(Top.text)
      BY <2>1, <2>2, Ahead
    <3> HIDE DEF close
    <3>2. C \subseteq Nat /\ C # {} /\ \A j \in C : Top.i <= j  BY <3>1
    <3> HIDE DEF C
    <3> QED  BY <3>2, MinIsFirst
  <2> QED  BY <2>1, <2>2, <1>0
<1>7. CASE StringLiteral  BY <1>7, StringKeeps
<1>8. CASE Number
  <2>1. To(Past(Top.text, Top.i, Letters \cup Digits \cup {"."})) /\ Keeps /\ Lexing
    BY <1>8, <1>f DEF Number, AtUnit
  <2> QED  BY <2>1, <1>0, Ahead
<1>9. CASE LexName
  <2>1. To(Top.i + Len(NameHere)) /\ Keeps /\ Lexing  BY <1>9, <1>f DEF LexName, AtUnit
  <2> QED  BY <2>1, <1>0, Ahead
<1>10. CASE Expand  BY <1>10, ExpandKeeps
<1>11. CASE EndExpansion  BY <1>11, Leaves
<1>12. CASE Finish  BY <1>12, FinishKeeps
<1>13. CASE Unexpected
  <2>1. UNCHANGED <<src, frames>> /\ errors \subseteq errors'  BY <1>13 DEF Unexpected, Report
  <2> QED  BY <2>1, Stays
<1>14. CASE UNCHANGED lexvars
  <2>1. UNCHANGED <<src, frames>> /\ errors \subseteq errors'  BY <1>14 DEF lexvars
  <2> QED  BY <2>1, Stays
<1> QED  BY <1>1, <1>2, <1>3, <1>4, <1>5, <1>6, <1>7, <1>8, <1>9, <1>10, <1>11, <1>12, <1>13, <1>14
         DEF LexNext

LEMMA LexStart == LexInit => LineInv
<1> SUFFICES ASSUME LexInit PROVE LineInv  OBVIOUS
<1> DEFINE f == Frame(src, 1, 1)
<1>1. src \in Seq(Units) /\ frames = <<f>>  BY TextsAssumption DEF LexInit
<1>2. /\ DOMAIN f = {"text", "i", "line", "toks", "from"} /\ f.text = src /\ f.i = 1 /\ f.line = 1
      /\ f.toks = <<>>
  BY DEF Frame
<1> HIDE DEF f
<1>3. IsFrame(f)
  <2>1. <<>> \in Seq(ToSet(<<>>)) /\ DOMAIN <<>> = {}  OBVIOUS
  <2> QED  BY <1>2, <2>1 DEF IsFrame
<1>4. Newlines(src, 1, 1 - 1) = 0
  <2>1. {k \in 1..(1 - 1) : Is(src, k, "newline")} = {}  OBVIOUS
  <2> QED  BY <2>1, FS_EmptySet DEF Newlines, Count
<1>5. Honest(f)
  <2>1. DOMAIN f.toks = {}  BY <1>2
  <2> QED  BY <1>2, <1>4, <2>1 DEF Honest
<1>6. /\ frames \in Seq({f}) /\ Len(frames) = 1 /\ frames[1] = f /\ frames # <<>>  BY <1>1
<1>7. frames \in Seq(ToSet(frames))  BY <1>6, SeqToSet
<1>8. Base  BY <1>2, <1>5, <1>6 DEF Base
<1> QED  BY <1>1, <1>3, <1>6, <1>7, <1>8 DEF LineInv

(* Every token bears the line of its text in the source, one that comes    *)
(* from an expansion the line of the call, whatever the macros are and     *)
(* however deep they nest, unless an unterminated literal is reported.     *)
THEOREM LinesAreExact == LexSpec => []LineExact
<1>1. LineInv => LineExact
  BY DEF LineInv, Base, Honest, Dated, LineExact, Result
<1> QED  BY <1>1, LexStart, LexStep, PTL DEF LexSpec

-----------------------------------------------------------------------------
(* What is said.  Meaning is a recursion over places, and so are Replace,  *)
(* Substituted, Parameters and ArgumentsUsed over the positions of a text: *)
(* that each of them has a solution, which is the one that is meant, comes *)
(* first.  Then: replacing the parameters one after the other is replacing *)
(* them all at once where no argument holds a later parameter (OneByOne),  *)
(* so that what expand_parametric_macro returns is what is meant           *)
(* (ExpandedIsBody).  And then the calls of lex_source_with_depth: what    *)
(* they have said and what their texts still mean is, put together, what   *)
(* the source means (Telling), which every branch of the loop preserves.   *)

-----------------------------------------------------------------------------
(* A recursion whose calls go down a well-founded order has a solution:    *)
(* what the steps below need of it is that they look no further.           *)
Solves(S, V, R, H, f, x) == f \in [S -> V] /\ \A y \in S : y = x \/ <<y, x>> \in R => f[y] = H[y][f]

Orders(R, S) == /\ \A T \in SUBSET S : T # {} => \E x \in T : \A y \in T : <<y, x>> \notin R
                /\ \A x, y, z \in S : <<x, y>> \in R /\ <<y, z>> \in R => <<x, z>> \in R
Looks(S, V, R, H) ==
    /\ \A f \in [S -> V], x \in S : H[x][f] \in V
    /\ \A f, g \in [S -> V], x \in S : (\A y \in S : <<y, x>> \in R => f[y] = g[y]) => H[x][f] = H[x][g]

LEMMA SolvedOnce ==
  ASSUME NEW S, NEW V, NEW R, Orders(R, S),
         NEW H, Looks(S, V, R, H)
  PROVE  \A x \in S : \A f, g \in [S -> V] : Solves(S, V, R, H, f, x) /\ Solves(S, V, R, H, g, x) => f[x] = g[x]
<1> DEFINE T == {x \in S : \E f, g \in [S -> V] : /\ Solves(S, V, R, H, f, x) /\ Solves(S, V, R, H, g, x)
                                                 /\ f[x] # g[x]}
<1> SUFFICES ASSUME T # {} PROVE FALSE  OBVIOUS
<1>1. PICK x \in T : \A y \in T : <<y, x>> \notin R
  <2>1. T \subseteq S  OBVIOUS
  <2> HIDE DEF T
  <2> QED  BY <2>1 DEF Orders
<1>2. PICK f, g \in [S -> V] : Solves(S, V, R, H, f, x) /\ Solves(S, V, R, H, g, x) /\ f[x] # g[x]
  OBVIOUS
<1>3. ASSUME NEW y \in S, <<y, x>> \in R PROVE f[y] = g[y]
  <2>1. Solves(S, V, R, H, f, y) /\ Solves(S, V, R, H, g, y)  BY <1>2, <1>3 DEF Solves, Orders
  <2>2. y \notin T  BY <1>1, <1>3
  <2> QED  BY <2>1, <2>2
<1>4. H[x][f] = H[x][g]  BY <1>3 DEF Looks
<1> QED  BY <1>2, <1>4 DEF Solves

LEMMA SolvedSomewhere ==
  ASSUME NEW S, NEW V, NEW R, Orders(R, S),
         NEW H, Looks(S, V, R, H),
         NEW v \in V
  PROVE  \A x \in S : \E f \in [S -> V] : Solves(S, V, R, H, f, x)
<1> DEFINE Sol(x, f) == Solves(S, V, R, H, f, x)
           T == {x \in S : \A f \in [S -> V] : ~Sol(x, f)}
           sol(x) == CHOOSE f \in [S -> V] : Sol(x, f)
<1>0. \A x \in S : \A f, g \in [S -> V] : Solves(S, V, R, H, f, x) /\ Solves(S, V, R, H, g, x) => f[x] = g[x]
  BY SolvedOnce
<1> SUFFICES ASSUME T # {} PROVE FALSE  OBVIOUS
<1>1. PICK x \in T : \A y \in T : <<y, x>> \notin R
  <2>1. T \subseteq S  OBVIOUS
  <2> HIDE DEF T
  <2> QED  BY <2>1 DEF Orders
<1>2. ASSUME NEW y \in S, <<y, x>> \in R PROVE sol(y) \in [S -> V] /\ Sol(y, sol(y))
  <2>1. \E f \in [S -> V] : Sol(y, f)  BY <1>1, <1>2
  <2> HIDE DEF Sol
  <2> QED  BY <2>1
<1>3. ~(<<x, x>> \in R)  BY <1>1
<1> DEFINE F == [y \in S |-> IF <<y, x>> \in R THEN sol(y)[y] ELSE v]
           G == [y \in S |-> IF y = x THEN H[x][F] ELSE F[y]]
<1> HIDE DEF sol
<1>4. F \in [S -> V]
  BY <1>2
<1>5. /\ G \in [S -> V] /\ G[x] = H[x][F]
      /\ \A y \in S : <<y, x>> \in R => G[y] = sol(y)[y] /\ F[y] = sol(y)[y]
  <2>1. x \in S /\ H[x][F] \in V
    <3> HIDE DEF F
    <3> QED  BY <1>4 DEF Looks
  <2>2. \A y \in S : <<y, x>> \in R => F[y] = sol(y)[y]  OBVIOUS
  <2> HIDE DEF F
  <2> QED  BY <1>3, <1>4, <2>1, <2>2
<1> HIDE DEF F, G, T
<1>6. G[x] = H[x][G]
  <2>1. x \in S  BY <1>1 DEF T
  <2> QED  BY <1>4, <1>5, <2>1 DEF Looks
<1>7. ASSUME NEW y \in S, <<y, x>> \in R PROVE G[y] = H[y][G]
  <2>1. x \in S  BY <1>1 DEF T
  <2>2. ASSUME NEW z \in S, <<z, y>> \in R PROVE G[z] = sol(y)[z]
    <3>1. <<z, x>> \in R  BY <1>7, <2>1, <2>2 DEF Orders
    <3>2. Sol(z, sol(y)) /\ sol(y) \in [S -> V]
      BY <1>2, <1>7, <2>2 DEF Solves, Orders
    <3>3. Sol(z, sol(z)) /\ sol(z) \in [S -> V]  BY <1>2, <3>1
    <3>4. sol(y)[z] = sol(z)[z]  BY <1>0, <3>2, <3>3
    <3> QED  BY <1>5, <3>1, <3>4
  <2>3. sol(y) \in [S -> V] /\ sol(y)[y] = H[y][sol(y)]  BY <1>2, <1>7 DEF Solves
  <2>4. H[y][G] = H[y][sol(y)]  BY <1>5, <2>2, <2>3 DEF Looks
  <2> QED  BY <1>5, <1>7, <2>3, <2>4
<1>8. Sol(x, G)  BY <1>5, <1>6, <1>7 DEF Solves
<1> QED  BY <1>1, <1>5, <1>8 DEF T

Solvable(S, V, H) == \E f \in [S -> V] : \A x \in S : f[x] = H[x][f]

LEMMA Recursion ==
  ASSUME NEW S, NEW V, NEW R, Orders(R, S),
         NEW H, Looks(S, V, R, H),
         V # {}
  PROVE  Solvable(S, V, H)
<1> DEFINE Sol(x, f) == Solves(S, V, R, H, f, x)
           sol(x) == CHOOSE f \in [S -> V] : Sol(x, f)
           F == [x \in S |-> sol(x)[x]]
<1>0. \A x \in S : \A f, g \in [S -> V] : Solves(S, V, R, H, f, x) /\ Solves(S, V, R, H, g, x) => f[x] = g[x]
  BY SolvedOnce
<1>1. ASSUME NEW x \in S PROVE sol(x) \in [S -> V] /\ Sol(x, sol(x))
  <2>1. PICK v \in V : TRUE  OBVIOUS
  <2>2. \E f \in [S -> V] : Sol(x, f)
    <3> HIDE DEF sol
    <3> QED  BY <2>1, SolvedSomewhere
  <2> HIDE DEF Sol
  <2> QED  BY <2>2
<1> HIDE DEF sol
<1>2. F \in [S -> V] /\ \A x \in S : F[x] = sol(x)[x]  BY <1>1
<1>3. ASSUME NEW x \in S PROVE F[x] = H[x][F]
  <2>1. ASSUME NEW y \in S, <<y, x>> \in R PROVE F[y] = sol(x)[y]
    <3>1. Sol(y, sol(x))  BY <1>1, <2>1 DEF Solves, Orders
    <3>2. sol(x)[y] = sol(y)[y]  BY <1>0, <1>1, <2>1, <3>1
    <3> QED  BY <1>2, <3>2
  <2>2. sol(x)[x] = H[x][sol(x)]  BY <1>1 DEF Solves
  <2> HIDE DEF F
  <2> QED  BY <1>1, <1>2, <2>1, <2>2 DEF Looks
<1> QED  BY <1>2, <1>3 DEF Solvable

(* The pairs of S of which the first is lower: in a, or else in b.         *)
Below(S, a, b) == {p \in S \X S : \/ a[p[1]] < a[p[2]]
                                  \/ a[p[1]] = a[p[2]] /\ b[p[1]] < b[p[2]]}

LEMMA BelowOrders ==
  ASSUME NEW S, NEW a \in [S -> Nat], NEW b \in [S -> Nat]
  PROVE  Orders(Below(S, a, b), S)
<1>1. ASSUME NEW T \in SUBSET S, T # {} PROVE \E x \in T : \A y \in T : <<y, x>> \notin Below(S, a, b)
  <2> DEFINE A == {a[x] : x \in T}
             B == {b[x] : x \in {y \in T : a[y] = Min(A)}}
  <2>1. A \subseteq Nat /\ A # {} /\ \A x \in T : a[x] \in A  BY <1>1
  <2>2. Min(A) \in A /\ \A j \in A : Min(A) <= j
    <3> HIDE DEF A
    <3> QED  BY <2>1, MinIsFirst
  <2>3. \E x \in T : a[x] = Min(A)
    <3>1. \A n \in A : \E x \in T : n = a[x]  OBVIOUS
    <3> HIDE DEF A
    <3> QED  BY <2>2, <3>1
  <2>4. B \subseteq Nat /\ B # {}
    <3> HIDE DEF A
    <3> QED  BY <2>3
  <2>5. Min(B) \in B /\ \A j \in B : Min(B) <= j
    <3> HIDE DEF B
    <3> QED  BY <2>4, MinIsFirst
  <2>6. PICK x \in T : a[x] = Min(A) /\ b[x] = Min(B)
    <3>1. \A n \in B : \E x \in T : a[x] = Min(A) /\ n = b[x]
      <4> HIDE DEF A
      <4> QED  OBVIOUS
    <3> HIDE DEF A, B
    <3> QED  BY <2>5, <3>1
  <2>7. ASSUME NEW y \in T PROVE ~(a[y] < a[x]) /\ ~(a[y] = a[x] /\ b[y] < b[x])
    <3>1. a[x] <= a[y] /\ a[x] \in Nat /\ a[y] \in Nat  BY <2>1, <2>2, <2>6
    <3>2. a[y] = a[x] => b[y] \in B  BY <2>6
    <3>3. a[y] = a[x] => b[x] <= b[y] /\ b[x] \in Nat /\ b[y] \in Nat
      <4> HIDE DEF A, B
      <4> QED  BY <2>4, <2>5, <2>6, <3>2
    <3> HIDE DEF A, B
    <3> QED  BY <3>1, <3>3
  <2> HIDE DEF A, B
  <2> QED  BY <2>7 DEF Below
<1>2. ASSUME NEW x \in S, NEW y \in S, NEW z \in S,
             <<x, y>> \in Below(S, a, b), <<y, z>> \in Below(S, a, b)
      PROVE  <<x, z>> \in Below(S, a, b)
  <2>1. \A u \in S : a[u] \in Nat /\ b[u] \in Nat  OBVIOUS
  <2> QED  BY <1>2, <2>1 DEF Below
<1> QED  BY <1>1, <1>2 DEF Orders

-----------------------------------------------------------------------------
(* A walk over the positions of a text that moves on at every step, to the *)
(* text's end or to a position of Z, and puts together what it finds.      *)
Walks(n, Z, h, nxt, f) == f = [i \in Positions |-> IF i > n \/ i \in Z THEN <<>> ELSE h[i] \o f[nxt[i]]]

Strides(S, n, Z, h, nxt) == \A i \in Positions : \/ i > n \/ i \in Z
                                                 \/ h[i] \in Seq(S) /\ nxt[i] \in Positions /\ nxt[i] > i
Walkable(S, n, Z, h, nxt) ==
    \E f \in [Positions -> Seq(S)] : Walks(n, Z, h, nxt, f) /\ \A g : Walks(n, Z, h, nxt, g) => g = f

LEMMA Walk ==
  ASSUME NEW S, NEW n \in Nat, NEW Z, NEW h, NEW nxt, Strides(S, n, Z, h, nxt)
  PROVE  Walkable(S, n, Z, h, nxt)
<1> DEFINE a == [i \in Positions |-> 0]
           b == [i \in Positions |-> IF i > n THEN 0 ELSE n + 1 - i]
           R == Below(Positions, a, b)
           V == Seq(S)
           H == [i \in Positions |-> [f \in [Positions -> V] |-> IF i > n \/ i \in Z THEN <<>> ELSE h[i] \o f[nxt[i]]]]
<1>1. Orders(R, Positions)
  <2>1. a \in [Positions -> Nat] /\ b \in [Positions -> Nat]  BY DEF Positions
  <2> HIDE DEF a, b
  <2> QED  BY <2>1, BelowOrders
<1>10. \A j \in Positions : ~(j > n \/ j \in Z) => nxt[j] \in Positions  BY DEF Strides
<1>0. ASSUME NEW i \in Positions, ~(i > n \/ i \in Z)
      PROVE  h[i] \in Seq(S) /\ nxt[i] \in Positions /\ nxt[i] > i /\ i <= n
  BY <1>0 DEF Strides, Positions
<1>2. ASSUME NEW i \in Positions, ~(i > n \/ i \in Z) PROVE <<nxt[i], i>> \in R
  <2>1. nxt[i] \in Positions /\ i <= n /\ nxt[i] > i  BY <1>0, <1>2
  <2>2. \A k \in Positions : k > i => b[k] < b[i] /\ a[k] = a[i]  BY <2>1 DEF Positions
  <2> HIDE DEF a, b
  <2>3. b[nxt[i]] < b[i] /\ a[nxt[i]] = a[i] /\ i \in Positions  BY <1>2, <2>1, <2>2
  <2> QED  BY <2>1, <2>3 DEF Below
<1>3. Looks(Positions, V, R, H)
  <2>1. ASSUME NEW f \in [Positions -> V], NEW i \in Positions PROVE H[i][f] \in V
    <3>1. ~(i > n \/ i \in Z) => h[i] \in Seq(S) /\ f[nxt[i]] \in Seq(S)  BY <1>0
    <3>2. ~(i > n \/ i \in Z) => h[i] \o f[nxt[i]] \in Seq(S)  BY <3>1
    <3>3. <<>> \in Seq(S)  OBVIOUS
    <3>4. H[i][f] = IF i > n \/ i \in Z THEN <<>> ELSE h[i] \o f[nxt[i]]  OBVIOUS
    <3> HIDE DEF H
    <3> QED  BY <3>2, <3>3, <3>4
  <2>2. ASSUME NEW f \in [Positions -> V], NEW g \in [Positions -> V], NEW i \in Positions,
               \A j \in Positions : <<j, i>> \in R => f[j] = g[j]
        PROVE  H[i][f] = H[i][g]
    <3>1. i > n \/ i \in Z \/ nxt[i] \in Positions  BY <1>0
    <3>2. i > n \/ i \in Z \/ f[nxt[i]] = g[nxt[i]]
      <4> HIDE DEF R
      <4> QED  BY <1>2, <2>2, <3>1
    <3> HIDE DEF R
    <3> QED  BY <3>2
  <2> HIDE DEF H, V, R
  <2> QED  BY <2>1, <2>2 DEF Looks
<1>4. V # {}
  <2>1. <<>> \in Seq(S)  OBVIOUS
  <2> QED  BY <2>1
<1>20. Solvable(Positions, V, H)
  <2> HIDE DEF H, V, R
  <2> QED  BY <1>1, <1>3, <1>4, Recursion
<1>7. PICK f \in [Positions -> V] : \A i \in Positions : f[i] = H[i][f]
  <2> HIDE DEF H, V, R
  <2> QED  BY <1>20 DEF Solvable
<1>5. \A i \in Positions : f[i] = IF i > n \/ i \in Z THEN <<>> ELSE h[i] \o f[nxt[i]]  BY <1>7
<1>6. f \in [Positions -> Seq(S)]  OBVIOUS
<1>8. Walks(n, Z, h, nxt, f)  BY <1>5 DEF Walks
<1>9. ASSUME NEW g, Walks(n, Z, h, nxt, g) PROVE g = f
  <2> DEFINE T == {i \in Positions : g[i] # f[i]}
  <2>1. \A i \in Positions : g[i] = IF i > n \/ i \in Z THEN <<>> ELSE h[i] \o g[nxt[i]]
    BY <1>9 DEF Walks
  <2>2. T = {}
    <3> SUFFICES ASSUME T # {} PROVE FALSE  OBVIOUS
    <3>1. PICK i \in T : \A j \in T : <<j, i>> \notin R
      <4> HIDE DEF R
      <4>1. T \in SUBSET Positions  OBVIOUS
      <4> HIDE DEF T
      <4> QED  BY <1>1, <4>1 DEF Orders
    <3>2. i \in Positions  OBVIOUS
    <3>3. ~(i > n \/ i \in Z) /\ g[nxt[i]] # f[nxt[i]]  BY <1>5, <2>1, <3>2
    <3>4. nxt[i] \in Positions
      <4> HIDE DEF R, T, H, a, b, V
      <4> QED  BY <1>10, <3>2, <3>3
    <3>5. <<nxt[i], i>> \in R /\ nxt[i] \in T
      <4> HIDE DEF R
      <4> QED  BY <1>2, <3>2, <3>3, <3>4
    <3> HIDE DEF R
    <3> QED  BY <3>1, <3>5
  <2>3. \A i \in Positions : g[i] = f[i]  BY <2>2
  <2>4. g = [i \in Positions |-> g[i]]  BY <1>9 DEF Walks
  <2> HIDE DEF T, R, V
  <2> QED  BY <2>3, <2>4
<1> HIDE DEF H, V, R
<1> QED  BY <1>6, <1>8, <1>9 DEF Walkable

-----------------------------------------------------------------------------
(* Sequences of sequences, put together.                                   *)
Flat(g) == CHOOSE f : f = [i \in 1..Len(g) |-> IF i = 1 THEN g[i] ELSE f[i - 1] \o g[i]]

LEMMA FlatIs ==
  ASSUME NEW S, NEW g \in Seq(Seq(S))
  PROVE  /\ FlattenSeq(g) = IF g = <<>> THEN <<>> ELSE Flat(g)[Len(g)]
         /\ Flat(g) \in [1..Len(g) -> Seq(S)]
         /\ \A i \in 1..Len(g) : Flat(g)[i] = IF i = 1 THEN g[i] ELSE Flat(g)[i - 1] \o g[i]
<1> DEFINE n == Len(g)
           a == [i \in 1..n |-> i]
           R == Below(1..n, a, a)
           V == Seq(S)
           H == [i \in 1..n |-> [f \in [1..n -> V] |-> IF i = 1 THEN g[i] ELSE f[i - 1] \o g[i]]]
<1>0. n \in Nat /\ \A i \in 1..n : g[i] \in V  OBVIOUS
<1>1. Orders(R, 1..n)
  <2>1. a \in [1..n -> Nat]  BY <1>0
  <2> HIDE DEF a, n
  <2> QED  BY <2>1, BelowOrders
<1>2. \A i, j \in 1..n : j < i => <<j, i>> \in R
  <2> HIDE DEF n
  <2> QED  BY DEF Below
<1>3. Looks(1..n, V, R, H)
  <2>1. ASSUME NEW f \in [1..n -> V], NEW i \in 1..n PROVE H[i][f] \in V
    <3>0. i = 1 \/ i - 1 \in 1..n  BY <1>0
    <3>1. i = 1 \/ f[i - 1] \in Seq(S)  BY <3>0
    <3>2. g[i] \in Seq(S)  BY <1>0
    <3>3. H[i][f] = IF i = 1 THEN g[i] ELSE f[i - 1] \o g[i]  OBVIOUS
    <3> HIDE DEF H
    <3> QED  BY <3>1, <3>2, <3>3
  <2>2. ASSUME NEW f \in [1..n -> V], NEW e \in [1..n -> V], NEW i \in 1..n,
               \A j \in 1..n : <<j, i>> \in R => f[j] = e[j]
        PROVE  H[i][f] = H[i][e]
    <3>1. i = 1 \/ (i - 1 \in 1..n /\ i - 1 < i)  BY <1>0
    <3>2. i = 1 \/ f[i - 1] = e[i - 1]
      <4> HIDE DEF R, n
      <4> QED  BY <1>2, <2>2, <3>1
    <3> HIDE DEF R
    <3> QED  BY <3>2
  <2> HIDE DEF H, V, R, n
  <2> QED  BY <2>1, <2>2 DEF Looks
<1>4. V # {}
  <2>1. <<>> \in Seq(S)  OBVIOUS
  <2> QED  BY <2>1
<1>5. Solvable(1..n, V, H)
  <2> HIDE DEF H, V, R, n
  <2> QED  BY <1>1, <1>3, <1>4, Recursion
<1>6. PICK f \in [1..n -> V] : \A i \in 1..n : f[i] = H[i][f]
  <2> HIDE DEF H, V, n
  <2> QED  BY <1>5 DEF Solvable
<1>7. f = [i \in 1..n |-> IF i = 1 THEN g[i] ELSE f[i - 1] \o g[i]]
  <2>1. \A i \in 1..n : f[i] = IF i = 1 THEN g[i] ELSE f[i - 1] \o g[i]  BY <1>6
  <2> HIDE DEF H, n
  <2> QED  BY <2>1
<1>8. Flat(g) = [i \in 1..n |-> IF i = 1 THEN g[i] ELSE Flat(g)[i - 1] \o g[i]]
  <2> HIDE DEF V, H, R, a
  <2> QED  BY <1>7 DEF Flat
<1>9. \A i \in 1..n : Flat(g)[i] = IF i = 1 THEN g[i] ELSE Flat(g)[i - 1] \o g[i]
  <2> HIDE DEF n
  <2> QED  BY <1>8
<1>10. \A i \in 1..n : Flat(g)[i] \in Seq(S)
  <2> DEFINE T == {i \in 1..n : Flat(g)[i] \notin Seq(S)}
  <2> SUFFICES ASSUME T # {} PROVE FALSE  OBVIOUS
  <2>1. T \in SUBSET (1..n)  OBVIOUS
  <2>2. PICK i \in T : \A j \in T : <<j, i>> \notin R
    <3> HIDE DEF T, R, n
    <3> QED  BY <1>1, <2>1 DEF Orders
  <2>3. i \in 1..n /\ (i = 1 \/ (i - 1 \in 1..n /\ i - 1 < i))  BY <1>0
  <2>4. i = 1 \/ Flat(g)[i - 1] \in Seq(S)
    <3> HIDE DEF R, n
    <3> QED  BY <1>2, <2>2, <2>3
  <2>5. g[i] \in Seq(S)  BY <1>0, <2>3
  <2>6. Flat(g)[i] = IF i = 1 THEN g[i] ELSE Flat(g)[i - 1] \o g[i]  BY <1>9, <2>3
  <2>7. Flat(g)[i] \in Seq(S)
    <3> HIDE DEF T, R, n
    <3> QED  BY <2>4, <2>5, <2>6
  <2> QED  BY <2>7
<1>11. FlattenSeq(g) = IF g = <<>> THEN <<>> ELSE Flat(g)[Len(g)]
  <2>1. FlattenSeq(g) = IF Len(g) = 0 THEN g ELSE Flat(g)[Len(g)]  BY DEF FlattenSeq, Flat
  <2>2. Len(g) = 0 <=> g = <<>>  OBVIOUS
  <2> QED  BY <2>1, <2>2
<1>12. Flat(g) \in [1..n -> Seq(S)]
  <2> HIDE DEF n
  <2> QED  BY <1>8, <1>10
<1> QED  BY <1>9, <1>11, <1>12

LEMMA FlatType ==
  ASSUME NEW S, NEW g \in Seq(Seq(S)) PROVE FlattenSeq(g) \in Seq(S)
<1>1. g # <<>> => Len(g) \in 1..Len(g)  OBVIOUS
<1>2. <<>> \in Seq(S)  OBVIOUS
<1>3. /\ FlattenSeq(g) = IF g = <<>> THEN <<>> ELSE Flat(g)[Len(g)]
      /\ Flat(g) \in [1..Len(g) -> Seq(S)]
  BY FlatIs
<1> QED  BY <1>1, <1>2, <1>3

LEMMA FlatOne ==
  ASSUME NEW S, NEW s \in Seq(S) PROVE FlattenSeq(<<s>>) = s /\ FlattenSeq(<<>>) = <<>>
<1>1. <<s>> \in Seq(Seq(S)) /\ Len(<<s>>) = 1 /\ <<s>>[1] = s /\ <<s>> # <<>> /\ <<>> \in Seq(Seq(S))  OBVIOUS
<1>2. FlattenSeq(<<s>>) = s
  <2> DEFINE g == <<s>>
  <2>1. g \in Seq(Seq(S)) /\ Len(g) = 1 /\ g[1] = s /\ g # <<>>  BY <1>1
  <2> HIDE DEF g
  <2>2. FlattenSeq(g) = Flat(g)[1] /\ Flat(g)[1] = s  BY <2>1, FlatIs
  <2> QED  BY <2>2 DEF g
<1>3. FlattenSeq(<<>>) = <<>>  BY DEF FlattenSeq
<1> QED  BY <1>2, <1>3

LEMMA FlatJoins ==
  ASSUME NEW S, NEW g \in Seq(Seq(S)), NEW e \in Seq(Seq(S))
  PROVE  FlattenSeq(g \o e) = FlattenSeq(g) \o FlattenSeq(e)
<1> DEFINE n == Len(g)
           m == Len(e)
           ge == g \o e
<1>1. /\ n \in Nat /\ m \in Nat /\ ge \in Seq(Seq(S)) /\ Len(ge) = n + m
      /\ \A i \in 1..n : ge[i] = g[i] /\ g[i] \in Seq(S)
      /\ \A i \in 1..m : ge[n + i] = e[i] /\ e[i] \in Seq(S)
  OBVIOUS
<1>2. /\ \A i \in 1..n : Flat(g)[i] = IF i = 1 THEN g[i] ELSE Flat(g)[i - 1] \o g[i]
      /\ \A i \in 1..m : Flat(e)[i] = IF i = 1 THEN e[i] ELSE Flat(e)[i - 1] \o e[i]
      /\ \A i \in 1..n : Flat(g)[i] \in Seq(S)
      /\ \A i \in 1..m : Flat(e)[i] \in Seq(S)
  BY FlatIs
<1>3. \A i \in 1..(n + m) : Flat(ge)[i] = IF i = 1 THEN ge[i] ELSE Flat(ge)[i - 1] \o ge[i]
  <2> HIDE DEF ge, n, m
  <2> QED  BY <1>1, FlatIs
<1>0. \A a, b, c \in Seq(S) : (a \o b) \o c = a \o (b \o c)  BY ConcatAssociative
<1> DEFINE sum == FlattenSeq(g)
<1>4. sum \in Seq(S) /\ sum = IF n = 0 THEN <<>> ELSE Flat(g)[n]
  <2>1. g = <<>> <=> n = 0  OBVIOUS
  <2> QED  BY <2>1, FlatType, FlatIs
<1> HIDE DEF sum
<1>5. \A i \in 1..(n + m) : Flat(ge)[i] = IF i <= n THEN Flat(g)[i] ELSE sum \o Flat(e)[i - n]
  <2> DEFINE T == {i \in 1..(n + m) : Flat(ge)[i] # IF i <= n THEN Flat(g)[i] ELSE sum \o Flat(e)[i - n]}
  <2> SUFFICES ASSUME T # {} PROVE FALSE  OBVIOUS
  <2>1. PICK i \in T : \A j \in T : i <= j
    <3>1. T \subseteq Nat  BY <1>1
    <3> HIDE DEF T
    <3> QED  BY <3>1, MinIsFirst
  <2>2. i \in 1..(n + m) /\ i \in Nat  BY <1>1
  <2> HIDE DEF ge, n, m
  <2>6. Flat(ge)[i] # IF i <= n THEN Flat(g)[i] ELSE sum \o Flat(e)[i - n]  OBVIOUS
  <2>3. i = 1 \/ (i - 1 \in 1..(n + m) /\ i - 1 \notin T)  BY <1>1, <2>1, <2>2
  <2>4. CASE i <= n
    <3>1. i \in 1..n /\ ge[i] = g[i]  BY <1>1, <2>2, <2>4
    <3>2. i = 1 \/ Flat(ge)[i - 1] = Flat(g)[i - 1]  BY <1>1, <2>2, <2>3, <2>4
    <3>3. Flat(ge)[i] = Flat(g)[i]  BY <1>2, <1>3, <2>2, <3>1, <3>2
    <3> QED  BY <2>1, <2>4, <3>3
  <2>5. CASE i > n
    <3> DEFINE k == i - n
    <3>1. k \in 1..m /\ n + k = i /\ ge[i] = e[k]
      <4>1. k \in 1..m /\ n + k = i  BY <1>1, <2>2, <2>5
      <4> QED  BY <1>1, <4>1
    <3>2. CASE k = 1
      <4>1. Flat(e)[1] = e[1] /\ e[1] \in Seq(S)  BY <1>1, <1>2, <3>1, <3>2
      <4>2. Flat(ge)[i] = sum \o e[1]
        <5>1. CASE n = 0
          <6>1. i = 1 /\ Flat(ge)[i] = e[1] /\ sum = <<>>  BY <1>1, <1>3, <1>4, <2>2, <3>1, <3>2, <5>1
          <6> QED  BY <4>1, <6>1
        <5>2. CASE n # 0
          <6>1. i - 1 = n /\ i # 1 /\ i - 1 <= n  BY <1>1, <3>1, <3>2, <5>2
          <6>2. Flat(ge)[n] = sum  BY <1>1, <1>4, <2>2, <2>3, <5>2, <6>1
          <6> QED  BY <1>3, <2>2, <3>1, <3>2, <6>1, <6>2
        <5> QED  BY <5>1, <5>2
      <4>3. ~(i <= n) /\ i - n = 1  BY <1>1, <2>2, <2>5, <3>1, <3>2
      <4> HIDE DEF T, k
      <4> QED  BY <2>6, <4>1, <4>2, <4>3
    <3>3. CASE k # 1
      <4>1. k - 1 \in 1..m /\ i # 1 /\ ~(i - 1 <= n) /\ i - 1 - n = k - 1  BY <1>1, <2>2, <3>1, <3>3
      <4>2. Flat(ge)[i - 1] = sum \o Flat(e)[k - 1]  BY <2>3, <4>1
      <4>3. Flat(e)[k] = Flat(e)[k - 1] \o e[k]  BY <1>2, <3>1, <3>3
      <4>4. Flat(ge)[i] = (sum \o Flat(e)[k - 1]) \o e[k]  BY <1>3, <2>2, <3>1, <4>1, <4>2
      <4>5. e[k] \in Seq(S) /\ Flat(e)[k - 1] \in Seq(S)  BY <1>1, <1>2, <3>1, <4>1
      <4>6. (sum \o Flat(e)[k - 1]) \o e[k] = sum \o (Flat(e)[k - 1] \o e[k])
        BY <1>0, <1>4, <4>5
      <4>7. Flat(ge)[i] = sum \o Flat(e)[k]  BY <4>3, <4>4, <4>6
      <4>8. ~(i <= n)  BY <1>1, <2>2, <2>5
      <4> HIDE DEF T
      <4> QED  BY <2>6, <4>7, <4>8
    <3> QED  BY <3>2, <3>3
  <2> QED  BY <1>1, <2>2, <2>4, <2>5
<1>6. FlattenSeq(ge) = IF n + m = 0 THEN <<>> ELSE Flat(ge)[n + m]
  <2>1. ge = <<>> <=> n + m = 0
    <3>1. ge = <<>> <=> Len(ge) = 0
      <4> HIDE DEF ge
      <4> QED  BY <1>1
    <3> QED  BY <1>1, <3>1
  <2> HIDE DEF ge, n, m
  <2> QED  BY <1>1, <2>1, FlatIs
<1>7. FlattenSeq(e) \in Seq(S) /\ FlattenSeq(e) = IF m = 0 THEN <<>> ELSE Flat(e)[m]
  <2>1. e = <<>> <=> m = 0  OBVIOUS
  <2> QED  BY <2>1, FlatType, FlatIs
<1>8. FlattenSeq(ge) = sum \o FlattenSeq(e)
  <2> HIDE DEF ge, n, m
  <2>1. CASE m = 0
    <3>1. sum \o <<>> = sum  BY <1>4
    <3>2. n # 0 => n \in 1..(n + m) /\ n <= n /\ n + m = n  BY <1>1, <2>1
    <3> QED  BY <1>1, <1>4, <1>5, <1>6, <1>7, <2>1, <3>1, <3>2
  <2>2. CASE m # 0
    <3>1. n + m \in 1..(n + m) /\ ~(n + m <= n) /\ n + m - n = m /\ n + m # 0  BY <1>1, <2>2
    <3>2. PICK k : k = n + m  OBVIOUS
    <3>3. k \in 1..(n + m) /\ ~(k <= n) /\ k - n = m  BY <1>1, <2>2, <3>1, <3>2
    <3>4. Flat(ge)[k] = sum \o Flat(e)[m]  BY <1>5, <3>3
    <3> QED  BY <1>6, <1>7, <2>2, <3>1, <3>2, <3>4
  <2> QED  BY <2>1, <2>2
<1> QED  BY <1>8 DEF sum

-----------------------------------------------------------------------------
(* What the helpers make of a text over S is over S.                       *)
LEMMA Scans ==
  ASSUME NEW text, Len(text) \in Nat, NEW i \in Positions, NEW S
  PROVE  /\ First(text, i, S) \in Positions /\ i <= First(text, i, S)
         /\ First(text, i, S) <= Len(text) + 1 \/ First(text, i, S) = i
         /\ First(text, i, S) <= Len(text) => text[First(text, i, S)] \in S
         /\ \A j \in i..(First(text, i, S) - 1) : j <= Len(text) /\ text[j] \notin S
         /\ Past(text, i, S) \in Positions /\ i <= Past(text, i, S)
         /\ Past(text, i, S) <= Len(text) + 1 \/ Past(text, i, S) = i
         /\ Past(text, i, S) <= Len(text) => text[Past(text, i, S)] \notin S
         /\ \A j \in i..(Past(text, i, S) - 1) : j <= Len(text) /\ text[j] \in S
<1> DEFINE L == Len(text)
           F == {j \in i..(i + L) : j > L \/ text[j] \in S}
           P == {j \in i..(i + L) : j > L \/ text[j] \notin S}
<1>0. i \in Nat /\ i >= 1 /\ L \in Nat  BY DEF Positions
<1>1. F \subseteq Nat /\ P \subseteq Nat  BY <1>0
<1>2. i + L \in F /\ i + L \in P  BY <1>0
<1>3. /\ Min(F) \in F /\ \A j \in F : Min(F) <= j
      /\ Min(P) \in P /\ \A j \in P : Min(P) <= j
  <2> HIDE DEF F, P
  <2> QED  BY <1>1, <1>2, MinIsFirst
<1>4. First(text, i, S) = Min(F) /\ Past(text, i, S) = Min(P)  BY DEF First, Past
<1>5. ASSUME NEW j \in Nat, j >= i, j <= i + L
      PROVE  (j \in F <=> j > L \/ text[j] \in S) /\ (j \in P <=> j > L \/ text[j] \notin S)
  BY <1>0, <1>5
<1>6. ASSUME NEW m \in Nat, i <= m, m <= i + L, NEW D, D = F \/ D = P, m \in D, \A j \in D : m <= j
      PROVE  /\ m \in Positions /\ (m <= L + 1 \/ m = i)
             /\ m <= L => (D = F => text[m] \in S) /\ (D = P => text[m] \notin S)
             /\ \A j \in i..(m - 1) : j <= L /\ (D = F => text[j] \notin S) /\ (D = P => text[j] \in S)
  <2> HIDE DEF F, P
  <2>1. m \in Positions  BY <1>0, <1>6 DEF Positions
  <2>2. m <= L + 1 \/ m = i
    <3>1. i <= L + 1 => L + 1 \in D  BY <1>0, <1>5, <1>6
    <3>2. i > L + 1 => i \in D  BY <1>0, <1>5, <1>6
    <3> QED  BY <1>0, <1>6, <3>1, <3>2
  <2>3. m <= L => (D = F => text[m] \in S) /\ (D = P => text[m] \notin S)
    BY <1>0, <1>5, <1>6
  <2>4. ASSUME NEW j \in i..(m - 1) PROVE j <= L /\ (D = F => text[j] \notin S) /\ (D = P => text[j] \in S)
    <3>1. j \in Nat /\ j >= i /\ j <= i + L /\ j < m  BY <1>0, <1>6
    <3>2. j \notin D  BY <1>6, <3>1
    <3> QED  BY <1>0, <1>5, <1>6, <3>1, <3>2
  <2> QED  BY <2>1, <2>2, <2>3, <2>4
<1>7. Min(F) \in Nat /\ i <= Min(F) /\ Min(F) <= i + L /\ Min(P) \in Nat /\ i <= Min(P) /\ Min(P) <= i + L
  <2>1. \A j \in F \cup P : j \in Nat /\ i <= j /\ j <= i + L  BY <1>0
  <2> HIDE DEF F, P
  <2> QED  BY <1>3, <2>1
<1> HIDE DEF F, P
<1>8. /\ Min(F) \in Positions /\ (Min(F) <= L + 1 \/ Min(F) = i)
      /\ Min(F) <= L => text[Min(F)] \in S
      /\ \A j \in i..(Min(F) - 1) : j <= L /\ text[j] \notin S
  BY <1>3, <1>6, <1>7
<1>9. /\ Min(P) \in Positions /\ (Min(P) <= L + 1 \/ Min(P) = i)
      /\ Min(P) <= L => text[Min(P)] \notin S
      /\ \A j \in i..(Min(P) - 1) : j <= L /\ text[j] \in S
  BY <1>3, <1>6, <1>7
<1> QED  BY <1>4, <1>7, <1>8, <1>9

LEMMA PieceType ==
  ASSUME NEW S, NEW text \in Seq(S), NEW i \in Positions, NEW e \in Nat, e <= Len(text) + 1 \/ e <= i
  PROVE  /\ Piece(text, i, e) \in Seq(S)
         /\ Len(Piece(text, i, e)) = IF i <= e THEN e - i ELSE 0
         /\ \A k \in 1..(e - i) : Piece(text, i, e)[k] = text[i + k - 1]
<1>1. i \in Int /\ e - 1 \in Int /\ \A k \in i..(e - 1) : text[k] \in S  BY DEF Positions
<1> DEFINE n == e - 1
<1>2. Piece(text, i, e) = SubSeq(text, i, n)  BY DEF Piece
<1>3. n - i + 1 = e - i /\ (i <= n => i <= e) /\ (i = e => n - i + 1 = 0) /\ (i <= e /\ ~(i <= n) => e - i = 0)
  BY DEF Positions
<1>4. /\ SubSeq(text, i, n) \in Seq(S)
      /\ Len(SubSeq(text, i, n)) = IF i <= n THEN n - i + 1 ELSE 0
      /\ \A k \in 1..(n - i + 1) : SubSeq(text, i, n)[k] = text[i + k - 1]
  <2> HIDE DEF n
  <2> QED  BY <1>1, SubSeqProperties DEF n
<1> HIDE DEF n
<1> QED  BY <1>2, <1>3, <1>4

LEMMA Extremes ==
  ASSUME NEW n \in Nat, NEW K, K \subseteq 1..n, K # {}
  PROVE  Min(K) \in K /\ Max(K) \in K /\ \A k \in K : Min(K) <= k /\ k <= Max(K)
<1>1. K \subseteq Nat /\ \A k \in K : k \in Nat /\ k <= n  OBVIOUS
<1>2. Min(K) \in K /\ \A k \in K : Min(K) <= k  BY <1>1, MinIsFirst
<1>3. \E m \in K : \A j \in K : m >= j
  <2> DEFINE D == {n - k : k \in K}
  <2>1. D \subseteq Nat /\ D # {}
    <3>1. \A k \in K : n - k \in Nat  BY <1>1
    <3>2. PICK k \in K : TRUE  OBVIOUS
    <3>3. n - k \in D  OBVIOUS
    <3> QED  BY <3>1, <3>3
  <2>2. Min(D) \in D /\ \A j \in D : Min(D) <= j
    <3> HIDE DEF D
    <3> QED  BY <2>1, MinIsFirst
  <2>3. PICK m \in K : Min(D) = n - m  BY <2>2
  <2>4. \A j \in K : n - j \in D  OBVIOUS
  <2>5. \A j \in K : n - m <= n - j
    <3> HIDE DEF D
    <3> QED  BY <2>2, <2>3, <2>4
  <2> QED  BY <1>1, <2>5
<1>4. Max(K) \in K /\ \A j \in K : Max(K) >= j  BY <1>3 DEF Max
<1> QED  BY <1>1, <1>2, <1>4

LEMMA TrimType ==
  ASSUME NEW S, NEW text \in Seq(S) PROVE Trim(text) \in Seq(S)
<1> DEFINE K == {i \in 1..Len(text) : text[i] \notin Space}
<1>1. Trim(text) = IF K = {} THEN <<>> ELSE SubSeq(text, Min(K), Max(K))  BY DEF Trim
<1>2. K \subseteq 1..Len(text) /\ Len(text) \in Nat /\ <<>> \in Seq(S) /\ \A i \in 1..Len(text) : text[i] \in S
  OBVIOUS
<1> HIDE DEF K
<1>3. ASSUME K # {} PROVE SubSeq(text, Min(K), Max(K)) \in Seq(S)
  <2>1. Min(K) \in 1..Len(text) /\ Max(K) \in 1..Len(text)  BY <1>2, <1>3, Extremes
  <2>2. Min(K) \in Int /\ Max(K) \in Int /\ \A i \in Min(K)..Max(K) : text[i] \in S  BY <1>2, <2>1
  <2> QED  BY <2>2, SubSeqProperties
<1> QED  BY <1>1, <1>2, <1>3

LEMMA TrimmedType ==
  ASSUME NEW S, S \subseteq Units, NEW text \in Seq(S) PROVE Trimmed[text] \in Seq(S)
<1>1. text \in Seq(Units)  OBVIOUS
<1>2. Trimmed[text] = IF OneLine(text) /\ Trim(text) # <<>> THEN Trim(text) ELSE text  BY <1>1 DEF Trimmed
<1> QED  BY <1>2, TrimType

-----------------------------------------------------------------------------
(* The parameters of a definition.                                         *)
LEMMA ParameterEnds ==
  ASSUME NEW S, NEW text \in Seq(S), NEW j \in Positions
  PROVE  <<Piece(text, j, ParameterEnd(text, j))>> \in Seq(Seq(S))
<1>1. /\ ParameterEnd(text, j) \in Nat
      /\ ParameterEnd(text, j) <= Len(text) + 1 \/ ParameterEnd(text, j) <= j
  <2>1. Len(text) \in Nat  OBVIOUS
  <2>2. /\ ParameterEnd(text, j) \in Positions
        /\ ParameterEnd(text, j) <= Len(text) + 1 \/ ParameterEnd(text, j) = j
    <3>1. PICK C : C = Space \cup {Comma, ")"}  OBVIOUS
    <3>2. ParameterEnd(text, j) = First(text, j, C)  BY <3>1 DEF ParameterEnd
    <3> QED  BY <2>1, <3>2, Scans
  <2> QED  BY <2>1, <2>2 DEF Positions
<1>2. Piece(text, j, ParameterEnd(text, j)) \in Seq(S)  BY <1>1, PieceType
<1> QED  BY <1>2

LEMMA NextParameterForward ==
  ASSUME NEW text, Len(text) \in Nat, NEW j \in Positions, j <= Len(text), ~Is(text, j, ")")
  PROVE  NextParameter(text, j) \in Positions /\ NextParameter(text, j) > j
<1>1. PICK e : e = ParameterEnd(text, j)  OBVIOUS
<1>2. PICK c : c = Past(text, e, Space)  OBVIOUS
<1>3. PICK n : n = IF Is(text, c, Comma) THEN c + 1 ELSE c  OBVIOUS
<1>4. /\ e \in Positions /\ j <= e
      /\ e <= Len(text) => text[e] \in Space \cup {Comma, ")"}
  <2>1. PICK C : C = Space \cup {Comma, ")"}  OBVIOUS
  <2>2. e = First(text, j, C)  BY <1>1, <2>1 DEF ParameterEnd
  <2> QED  BY <2>1, <2>2, Scans
<1>5. /\ c \in Positions /\ e <= c
      /\ c <= Len(text) => text[c] \notin Space
  BY <1>2, <1>4, Scans
<1>6. n \in Positions /\ n > j
  <2>1. j \in Nat /\ e \in Nat /\ c \in Nat /\ j >= 1 /\ c >= 1  BY <1>4, <1>5 DEF Positions
  <2>2. CASE c > j  BY <1>3, <2>1, <2>2 DEF Positions
  <2>3. CASE c = j
    <3>1. e = j  BY <1>4, <1>5, <2>1, <2>3
    <3>2. text[j] \in Space \cup {Comma, ")"} /\ text[j] \notin Space  BY <1>4, <1>5, <2>3, <3>1
    <3>3. text[j] # ")"  BY <2>1 DEF Is
    <3>4. Is(text, c, Comma)  BY <2>1, <2>3, <3>2, <3>3 DEF Is
    <3> QED  BY <1>3, <2>1, <2>3, <3>4 DEF Positions
  <2> QED  BY <1>4, <1>5, <2>1, <2>2, <2>3
<1>7. Past(text, n, Space) \in Positions /\ n <= Past(text, n, Space)  BY <1>6, Scans
<1>8. NextParameter(text, j) = Past(text, n, Space)  BY <1>1, <1>2, <1>3 DEF NextParameter
<1> QED  BY <1>6, <1>7, <1>8 DEF Positions

ParameterWalk(text) ==
  CHOOSE f : f = [j \in Positions |->
                    IF j > Len(text) \/ Is(text, j, ")") THEN <<>>
                    ELSE <<Piece(text, j, ParameterEnd(text, j))>> \o f[NextParameter(text, j)]]

LEMMA ParametersType ==
  ASSUME NEW S, NEW text \in Seq(S), NEW i \in Positions
  PROVE  Parameters(text, i) \in Seq(Seq(S))
<1> DEFINE E(g) == [j \in Positions |->
                      IF j > Len(text) \/ Is(text, j, ")") THEN <<>>
                      ELSE <<Piece(text, j, ParameterEnd(text, j))>> \o g[NextParameter(text, j)]]
           Z == {j \in Positions : Is(text, j, ")")}
           h == [j \in Positions |-> <<Piece(text, j, ParameterEnd(text, j))>>]
           nxt == [j \in Positions |-> NextParameter(text, j)]
<1>0. Len(text) \in Nat  OBVIOUS
<1>1. Strides(Seq(S), Len(text), Z, h, nxt)
  <2>1. \A j \in Positions : j > Len(text) \/ j <= Len(text)  BY <1>0 DEF Positions
  <2> QED  BY <1>0, <2>1, ParameterEnds, NextParameterForward DEF Strides
<1>4. PICK f \in [Positions -> Seq(Seq(S))] :
         Walks(Len(text), Z, h, nxt, f) /\ \A g : Walks(Len(text), Z, h, nxt, g) => g = f
  <2> HIDE DEF h, nxt, Z
  <2>1. Walkable(Seq(S), Len(text), Z, h, nxt)  BY <1>0, <1>1, Walk
  <2> QED  BY <2>1 DEF Walkable
<1>5. \A g : E(g) = [j \in Positions |-> IF j > Len(text) \/ j \in Z THEN <<>> ELSE h[j] \o g[nxt[j]]]
  OBVIOUS
<1>6. ParameterWalk(text) = E(ParameterWalk(text))
  <2>1. f = E(f)  BY <1>4, <1>5 DEF Walks
  <2>2. ParameterWalk(text) = CHOOSE g : g = E(g)  BY DEF ParameterWalk
  <2> HIDE DEF E
  <2> QED  BY <2>1, <2>2
<1>7. ParameterWalk(text) = f
  <2> HIDE DEF h, nxt, Z, E
  <2> QED  BY <1>4, <1>5, <1>6 DEF Walks
<1>8. Parameters(text, i) = ParameterWalk(text)[Past(text, i, Space)]  BY DEF Parameters, ParameterWalk
<1>9. Past(text, i, Space) \in Positions  BY <1>0, Scans
<1> HIDE DEF E, Z, h, nxt
<1> QED  BY <1>7, <1>8, <1>9

-----------------------------------------------------------------------------
(* The arguments of a call.                                                *)
ArgumentWalk(args) ==
  CHOOSE f : f = [j \in Positions |->
                    IF j > Len(args) THEN <<>>
                    ELSE LET e == First(args, j, {Comma})
                         IN  <<Piece(args, j, e)>> \o f[Past(args, e + 1, Space)]]

LEMMA NextArgument ==
  ASSUME NEW S, NEW args \in Seq(S), NEW j \in Positions
  PROVE  /\ <<Piece(args, j, First(args, j, {Comma}))>> \in Seq(Seq(S))
         /\ Past(args, First(args, j, {Comma}) + 1, Space) \in Positions
         /\ Past(args, First(args, j, {Comma}) + 1, Space) > j
<1>1. PICK e : e = First(args, j, {Comma})  OBVIOUS
<1>2. Len(args) \in Nat /\ e \in Positions /\ j <= e /\ (e <= Len(args) + 1 \/ e = j)
  BY <1>1, Scans
<1>3. e \in Nat /\ e + 1 \in Positions /\ j \in Nat  BY <1>2 DEF Positions
<1>4. Piece(args, j, e) \in Seq(S)  BY <1>2, <1>3, PieceType
<1>5. Past(args, e + 1, Space) \in Positions /\ e + 1 <= Past(args, e + 1, Space)
  BY <1>2, <1>3, Scans
<1>6. Past(args, e + 1, Space) > j
  <2>1. PICK p \in Positions : p = Past(args, e + 1, Space) /\ e + 1 <= p  BY <1>5
  <2> QED  BY <1>2, <1>3, <2>1 DEF Positions
<1> QED  BY <1>1, <1>4, <1>5, <1>6

LEMMA ArgumentsType ==
  ASSUME NEW S, NEW args \in Seq(S), NEW n \in Nat
  PROVE  ArgumentsUsed(args, n) \in Seq(Seq(S)) /\ Len(ArgumentsUsed(args, n)) <= n
<1> DEFINE E(g) == [j \in Positions |->
                    IF j > Len(args) THEN <<>>
                    ELSE LET e == First(args, j, {Comma})
                         IN  <<Piece(args, j, e)>> \o g[Past(args, e + 1, Space)]]
           h == [j \in Positions |-> <<Piece(args, j, First(args, j, {Comma}))>>]
           nxt == [j \in Positions |-> Past(args, First(args, j, {Comma}) + 1, Space)]
<1>0. Len(args) \in Nat  OBVIOUS
<1>1. Strides(Seq(S), Len(args), {}, h, nxt)
  <2>1. \A j \in 1..Len(args) : j \in Positions  BY DEF Positions
  <2> QED  BY <2>1, NextArgument DEF Strides
<1>2. PICK f \in [Positions -> Seq(Seq(S))] :
         Walks(Len(args), {}, h, nxt, f) /\ \A g : Walks(Len(args), {}, h, nxt, g) => g = f
  <2> HIDE DEF h, nxt
  <2>2. Walkable(Seq(S), Len(args), {}, h, nxt)  BY <1>0, <1>1, Walk
  <2> QED  BY <2>2 DEF Walkable
<1>3. \A g : E(g) = [j \in Positions |-> IF j > Len(args) \/ j \in {} THEN <<>> ELSE h[j] \o g[nxt[j]]]
  OBVIOUS
<1>4. ArgumentWalk(args) = E(ArgumentWalk(args))
  <2>1. f = E(f)  BY <1>2, <1>3 DEF Walks
  <2>2. ArgumentWalk(args) = CHOOSE g : g = E(g)  BY DEF ArgumentWalk
  <2> HIDE DEF E
  <2> QED  BY <2>1, <2>2
<1>5. ArgumentWalk(args) = f
  <2> HIDE DEF h, nxt, E
  <2> QED  BY <1>2, <1>3, <1>4 DEF Walks
<1>6. PICK all : all = ArgumentWalk(args)[1]  OBVIOUS
<1>7. all \in Seq(Seq(S))
  <2>1. 1 \in Positions  BY DEF Positions
  <2> HIDE DEF E, h, nxt
  <2> QED  BY <1>5, <1>6, <2>1
<1>8. ArgumentsUsed(args, n) = SubSeq(all, 1, Min({n, Len(all)}))  BY <1>6 DEF ArgumentsUsed, ArgumentWalk
<1>9. PICK k : k = Min({n, Len(all)})  OBVIOUS
<1>10. k \in Nat /\ k <= n /\ k <= Len(all)
  <2>1. Len(all) \in Nat  BY <1>7
  <2>2. {n, Len(all)} \subseteq Nat /\ {n, Len(all)} # {}  BY <2>1
  <2>3. Min({n, Len(all)}) \in {n, Len(all)} /\ \A j \in {n, Len(all)} : Min({n, Len(all)}) <= j
    BY <2>2, MinIsFirst
  <2> QED  BY <1>9, <2>1, <2>3
<1>11. \A i \in 1..k : all[i] \in Seq(S)  BY <1>7, <1>10
<1>12. SubSeq(all, 1, k) \in Seq(Seq(S)) /\ Len(SubSeq(all, 1, k)) = IF 1 <= k THEN k ELSE 0
  <2>1. 1 \in Int /\ k \in Int  BY <1>10
  <2>2. /\ SubSeq(all, 1, k) \in Seq(Seq(S))
        /\ Len(SubSeq(all, 1, k)) = IF 1 <= k THEN k - 1 + 1 ELSE 0
    BY <1>11, <2>1, SubSeqProperties
  <2> QED  BY <1>10, <2>2
<1> HIDE DEF E, h, nxt
<1>13. ArgumentsUsed(args, n) = SubSeq(all, 1, k)  BY <1>8, <1>9
<1>14. IF 1 <= k THEN k <= n ELSE 0 <= n  BY <1>10
<1> QED  BY <1>12, <1>13, <1>14

-----------------------------------------------------------------------------
(* A definition.                                                           *)
MacroOver(S) == [name : Seq(S), parametric : BOOLEAN, params : Seq(Seq(S)), text : Seq(S)]

LEMMA DefinedType ==
  ASSUME NEW S, NEW text \in Seq(S), NEW i \in Positions, i <= Len(text)
  PROVE  Defined(text, i) \in MacroOver(S)
<1>0. Len(text) \in Nat /\ i \in Nat /\ i + 1 \in Positions  BY DEF Positions
<1>1. PICK s : s = NameStart(text, i)  OBVIOUS
<1>2. s \in Positions /\ s <= Len(text) + 1
  BY <1>0, <1>1, Scans DEF NameStart
<1>3. PICK e : e = NameEnd(text, i)  OBVIOUS
<1>4. e \in Positions /\ e <= Len(text) + 1
  <2>1. PICK T : e = First(text, s, T)  BY <1>1, <1>3 DEF NameEnd
  <2>2. e \in Positions /\ (e <= Len(text) + 1 \/ e = s)  BY <1>0, <1>2, <2>1, Scans
  <2> QED  BY <1>2, <2>2
<1>5. Piece(text, s, e) \in Seq(S)
  <2>1. e \in Nat  BY <1>4 DEF Positions
  <2> QED  BY <1>2, <1>4, <2>1, PieceType
<1>6. Parameters(text, e + 1) \in Seq(Seq(S)) /\ <<>> \in Seq(Seq(S))
  <2>1. e + 1 \in Positions  BY <1>4 DEF Positions
  <2> QED  BY <2>1, ParametersType
<1>7. PICK b : b = First(text, e, {"{"})  OBVIOUS
<1>8. b + 1 \in Positions
  <2>1. b \in Positions
    <3>1. PICK T : b = First(text, e, T)  BY <1>7
    <3> QED  BY <1>0, <1>4, <3>1, Scans
  <2> QED  BY <2>1 DEF Positions
<1>9. PICK c : c = MacroEnd(text, i) - 1  OBVIOUS
<1>10. c \in Nat /\ c <= Len(text) + 1
  <2>1. PICK D : D = BodyCloses(text, i)  OBVIOUS
  <2>0. D \subseteq i..Len(text)  BY <2>1 DEF BodyCloses
  <2>2. \A j \in D : j \in Nat /\ i <= j /\ j <= Len(text)  BY <1>0, <2>0
  <2>3. PICK m : m = MacroEnd(text, i)  OBVIOUS
  <2>4. m = Min({j + 1 : j \in D} \cup {Len(text) + 1})  BY <2>1, <2>3 DEF MacroEnd
  <2>5. m \in Nat /\ i <= m /\ (m = Len(text) + 1 \/ m - 1 \in D)
    <3>1. i <= Len(text) + 1 /\ Len(text) + 1 \in Nat  BY <1>0
    <3> QED  BY <1>0, <2>2, <2>4, <3>1, LeastPast
  <2>6. i >= 1  BY DEF Positions
  <2> QED  BY <1>0, <1>9, <2>2, <2>3, <2>5, <2>6
<1>11. Piece(text, b + 1, c) \in Seq(S)  BY <1>8, <1>10, PieceType
<1>12. PICK para \in BOOLEAN : para = Is(text, e, "(")  BY DEF Is
<1>13. Defined(text, i) = [name |-> Piece(text, s, e), parametric |-> para,
                           params |-> IF para THEN Parameters(text, e + 1) ELSE <<>>,
                           text |-> Piece(text, b + 1, c)]
  BY <1>1, <1>3, <1>7, <1>9, <1>12 DEF Defined
<1> QED  BY <1>5, <1>6, <1>11, <1>13 DEF MacroOver

-----------------------------------------------------------------------------
(* The words of a text.                                                    *)
LEMMA WordIs ==
  ASSUME NEW S, NEW text \in Seq(S), NEW i \in Positions
  PROVE  /\ WordEnd(text, i) \in Positions /\ i < WordEnd(text, i)
         /\ i <= Len(text) => WordEnd(text, i) <= Len(text) + 1
         /\ i <= Len(text) => Word(text, i) \in Seq(S)
         /\ i <= Len(text) => Len(Word(text, i)) = WordEnd(text, i) - i
         /\ i <= Len(text) => \A k \in 1..(WordEnd(text, i) - i) : Word(text, i)[k] = text[i + k - 1]
<1>0. Len(text) \in Nat /\ i \in Nat /\ i >= 1  BY DEF Positions
<1>1. PICK T : T = Letters \cup Digits  OBVIOUS
<1>2. PICK e : e = WordEnd(text, i)  OBVIOUS
<1>3. /\ Past(text, i, T) \in Positions /\ i <= Past(text, i, T)
      /\ Past(text, i, T) <= Len(text) + 1 \/ Past(text, i, T) = i
      /\ Past(text, i, T) <= Len(text) => text[Past(text, i, T)] \notin T
  BY <1>0, Scans
<1>4. e \in Positions /\ i < e /\ (i <= Len(text) => e <= Len(text) + 1) /\ (e <= Len(text) + 1 \/ e = i + 1)
  <2>1. CASE Joins(text, i)
    <3>1. i <= Len(text) /\ text[i] \in T  BY <1>1, <2>1 DEF Joins
    <3>2. e = Past(text, i, T)  BY <1>1, <1>2, <2>1 DEF WordEnd
    <3> QED  BY <1>0, <1>3, <3>1, <3>2 DEF Positions
  <2>2. CASE ~Joins(text, i)
    <3>1. e = i + 1  BY <1>2, <2>2 DEF WordEnd
    <3> QED  BY <1>0, <3>1 DEF Positions
  <2> QED  BY <2>1, <2>2
<1>5. Word(text, i) = Piece(text, i, e)  BY <1>2 DEF Word
<1>6. i <= Len(text) => /\ Piece(text, i, e) \in Seq(S)
                         /\ Len(Piece(text, i, e)) = e - i
                         /\ \A k \in 1..(e - i) : Piece(text, i, e)[k] = text[i + k - 1]
  <2>1. e \in Nat /\ i <= e  BY <1>0, <1>4 DEF Positions
  <2> QED  BY <1>4, <2>1, PieceType
<1> QED  BY <1>0, <1>2, <1>4, <1>5, <1>6

-----------------------------------------------------------------------------
(* What is put for the word at i.                                          *)
Chunk(text, params, args, i) ==
  LET mine == {k \in 1..Len(args) : params[k] = Word(text, i)}
  IN  IF mine = {} THEN Word(text, i) ELSE args[Min(mine)]

Substitutes(f, text, params, args) ==
  f = [i \in Positions |-> IF i > Len(text) THEN <<>>
                           ELSE Chunk(text, params, args, i) \o f[WordEnd(text, i)]]

LEMMA ChunkType ==
  ASSUME NEW S, NEW text \in Seq(S), NEW params, NEW args \in Seq(Seq(S)), NEW i \in Positions, i <= Len(text)
  PROVE  Chunk(text, params, args, i) \in Seq(S)
<1>1. PICK mine : mine = {k \in 1..Len(args) : params[k] = Word(text, i)}  OBVIOUS
<1>2. mine # {} => Min(mine) \in mine
  <2>1. Len(args) \in Nat /\ mine \subseteq 1..Len(args)  BY <1>1
  <2> QED  BY <2>1, Extremes
<1>3. mine # {} => args[Min(mine)] \in Seq(S)  BY <1>1, <1>2
<1>4. Word(text, i) \in Seq(S)  BY WordIs
<1>5. Chunk(text, params, args, i) = IF mine = {} THEN Word(text, i) ELSE args[Min(mine)]
  BY <1>1 DEF Chunk
<1> QED  BY <1>3, <1>4, <1>5

LEMMA SubstitutedIs ==
  ASSUME NEW S, NEW text \in Seq(S), NEW params, NEW args \in Seq(Seq(S))
  PROVE  \E f \in [Positions -> Seq(S)] : /\ Substitutes(f, text, params, args)
                                          /\ Substituted(text, params, args) = f[1]
<1> DEFINE E(g) == [i \in Positions |-> IF i > Len(text) THEN <<>>
                           ELSE Chunk(text, params, args, i) \o g[WordEnd(text, i)]]
           h == [i \in Positions |-> Chunk(text, params, args, i)]
           nxt == [i \in Positions |-> WordEnd(text, i)]
<1>0. Len(text) \in Nat  OBVIOUS
<1>1. Strides(S, Len(text), {}, h, nxt)
  <2>1. \A j \in Positions : j > Len(text) \/ j <= Len(text)  BY <1>0 DEF Positions
  <2>2. \A j \in Positions : WordEnd(text, j) \in Positions /\ WordEnd(text, j) > j
    <3> TAKE j \in Positions
    <3>1. WordEnd(text, j) \in Positions /\ j < WordEnd(text, j)  BY WordIs
    <3> QED  BY <3>1 DEF Positions
  <2> QED  BY <2>1, <2>2, ChunkType DEF Strides
<1>2. PICK f \in [Positions -> Seq(S)] :
         Walks(Len(text), {}, h, nxt, f) /\ \A g : Walks(Len(text), {}, h, nxt, g) => g = f
  <2> HIDE DEF h, nxt
  <2>2. Walkable(S, Len(text), {}, h, nxt)  BY <1>0, <1>1, Walk
  <2> QED  BY <2>2 DEF Walkable
<1>3. \A g : E(g) = [j \in Positions |-> IF j > Len(text) \/ j \in {} THEN <<>> ELSE h[j] \o g[nxt[j]]]
  OBVIOUS
<1>4. PICK W : W = CHOOSE g : g = E(g)  OBVIOUS
<1>5. f = E(f)  BY <1>2, <1>3 DEF Walks
<1>6. W = E(W)
  <2> HIDE DEF E
  <2> QED  BY <1>4, <1>5
<1>7. W = f
  <2> HIDE DEF h, nxt, E
  <2> QED  BY <1>2, <1>3, <1>6 DEF Walks
<1>8. Substituted(text, params, args) = W[1]  BY <1>4 DEF Substituted, Chunk
<1>9. Substitutes(f, text, params, args)  BY <1>5 DEF Substitutes
<1> HIDE DEF E, h, nxt
<1> QED  BY <1>7, <1>8, <1>9

Replaces(f, text, param, arg) ==
  f = [i \in Positions |-> IF i > Len(text) THEN <<>>
                           ELSE IF Whole(text, i, param) THEN arg \o f[i + Len(param)]
                           ELSE <<text[i]>> \o f[i + 1]]

LEMMA ReplaceIs ==
  ASSUME NEW S, NEW text \in Seq(S), NEW param, Len(param) \in Nat \ {0}, NEW arg \in Seq(S)
  PROVE  \E f \in [Positions -> Seq(S)] : /\ Replaces(f, text, param, arg)
                                          /\ Replace(text, param, arg) = f[1]
<1> DEFINE E(g) == [i \in Positions |-> IF i > Len(text) THEN <<>>
                           ELSE IF Whole(text, i, param) THEN arg \o g[i + Len(param)]
                           ELSE <<text[i]>> \o g[i + 1]]
           h == [i \in Positions |-> IF Whole(text, i, param) THEN arg ELSE <<text[i]>>]
           nxt == [i \in Positions |-> IF Whole(text, i, param) THEN i + Len(param) ELSE i + 1]
<1>0. Len(text) \in Nat  OBVIOUS
<1>1. Strides(S, Len(text), {}, h, nxt)
  <2>1. \A j \in Positions : j > Len(text) \/ j \in 1..Len(text)  BY <1>0 DEF Positions
  <2>2. \A j \in 1..Len(text) : <<text[j]>> \in Seq(S)  OBVIOUS
  <2>3. \A j \in Positions : /\ j + 1 \in Positions /\ j + 1 > j
                             /\ j + Len(param) \in Positions /\ j + Len(param) > j
    BY DEF Positions
  <2> QED  BY <2>1, <2>2, <2>3 DEF Strides
<1>2. PICK f \in [Positions -> Seq(S)] :
         Walks(Len(text), {}, h, nxt, f) /\ \A g : Walks(Len(text), {}, h, nxt, g) => g = f
  <2> HIDE DEF h, nxt
  <2>2. Walkable(S, Len(text), {}, h, nxt)  BY <1>0, <1>1, Walk
  <2> QED  BY <2>2 DEF Walkable
<1>3. \A g : E(g) = [j \in Positions |-> IF j > Len(text) \/ j \in {} THEN <<>> ELSE h[j] \o g[nxt[j]]]
  OBVIOUS
<1>4. PICK W : W = CHOOSE g : g = E(g)  OBVIOUS
<1>5. f = E(f)  BY <1>2, <1>3 DEF Walks
<1>6. W = E(W)
  <2> HIDE DEF E
  <2> QED  BY <1>4, <1>5
<1>7. W = f
  <2> HIDE DEF h, nxt, E
  <2> QED  BY <1>2, <1>3, <1>6 DEF Walks
<1>8. Replace(text, param, arg) = W[1]  BY <1>4 DEF Replace
<1>9. Replaces(f, text, param, arg)  BY <1>5 DEF Replaces
<1> HIDE DEF E, h, nxt
<1> QED  BY <1>7, <1>8, <1>9

-----------------------------------------------------------------------------
(* Replacing the parameters one after the other is replacing them at once. *)
Joining == Letters \cup Digits

LEMMA JoinsIs == \A t, i : Joins(t, i) <=> i \in 1..Len(t) /\ t[i] \in Joining
  BY DEF Joins, Joining

LEMMA HereIs ==
  ASSUME NEW S, NEW T \in Seq(S), NEW U, NEW p \in Seq(U), NEW r \in Positions
  PROVE  Here(T, r, p) <=> r + Len(p) <= Len(T) + 1 /\ \A n \in 1..Len(p) : T[r + n - 1] = p[n]
<1>0. Len(T) \in Nat /\ Len(p) \in Nat /\ r \in Nat /\ r >= 1  BY DEF Positions
<1> SUFFICES ASSUME r + Len(p) <= Len(T) + 1
             PROVE  SubSeq(T, r, r + Len(p) - 1) = p <=> \A n \in 1..Len(p) : T[r + n - 1] = p[n]
  BY DEF Here
<1>1. PICK e : e = r + Len(p) - 1  OBVIOUS
<1>2. e \in Int /\ e - r + 1 = Len(p) /\ e <= Len(T) /\ (r <= e => Len(p) = e - r + 1) /\ (~(r <= e) => Len(p) = 0)
  BY <1>0, <1>1
<1>3. PICK q : q = SubSeq(T, r, e)  OBVIOUS
<1>4. q \in Seq(S) /\ Len(q) = Len(p) /\ \A n \in 1..Len(p) : q[n] = T[r + n - 1]
  <2>1. \A i \in r..e : T[i] \in S  BY <1>0, <1>2
  <2>2. /\ q \in Seq(S) /\ Len(q) = IF r <= e THEN e - r + 1 ELSE 0
        /\ \A n \in 1..(e - r + 1) : q[n] = T[r + n - 1]
    BY <1>0, <1>2, <1>3, <2>1, SubSeqProperties
  <2> QED  BY <1>2, <2>2
<1>5. q = p <=> \A n \in 1..Len(p) : q[n] = p[n]
  BY <1>4
<1> QED  BY <1>1, <1>3, <1>4, <1>5

(* The word p does not stand in T from q on, before e.                     *)
Clear(T, q, e, p) == \A r \in q..(e - 1) : ~Whole(T, r, p)

Passed(f, T, q, e) == f[q] = SubSeq(T, q, e - 1) \o f[e]

Joinable(S) == \A x, y, z \in Seq(S) : (x \o y) \o z = x \o (y \o z)

LEMMA Associates ==
  ASSUME NEW S
  PROVE  Joinable(S)
  BY ConcatAssociative DEF Joinable

LEMMA Passes ==
  ASSUME NEW S, NEW T \in Seq(S), NEW p, NEW a, NEW f \in [Positions -> Seq(S)], Replaces(f, T, p, a),
         NEW q \in Positions, NEW e \in Positions, q <= e, e <= Len(T) + 1,
         Clear(T, q, e, p)
  PROVE  Passed(f, T, q, e)
<1> SUFFICES f[q] = SubSeq(T, q, e - 1) \o f[e]  BY DEF Passed
<1>a. Joinable(S)  BY Associates
<1>0. Len(T) \in Nat /\ q \in Nat /\ e \in Nat /\ q >= 1  BY DEF Positions
<1>1. PICK X : X = {r \in q..e : f[r] # SubSeq(T, r, e - 1) \o f[e]}  OBVIOUS
<1> SUFFICES ASSUME X # {} PROVE FALSE
  <2>1. q \in q..e  BY <1>0
  <2> QED  BY <1>1, <2>1
<1>2. PICK r \in X : \A j \in X : j <= r
  <2>1. X \subseteq 1..e  BY <1>0, <1>1
  <2> QED  BY <1>0, <2>1, Extremes
<1>3. r \in q..e /\ r \in Positions /\ r \in Nat /\ f[r] # SubSeq(T, r, e - 1) \o f[e]
  <2>1. r \in q..e /\ f[r] # SubSeq(T, r, e - 1) \o f[e]  BY <1>1
  <2>2. \A n \in q..e : n \in Nat /\ n \in Positions  BY <1>0 DEF Positions
  <2> QED  BY <2>1, <2>2
<1>4. CASE r = e
  <2>1. SubSeq(T, e, e - 1) = <<>>  BY <1>0, SubSeqEmpty
  <2>2. f[e] \in Seq(S)  OBVIOUS
  <2>3. <<>> \o f[e] = f[e]  BY <2>2
  <2> QED  BY <1>3, <1>4, <2>1, <2>3
<1>5. CASE r # e
  <2>1. r + 1 \in q..e /\ r + 1 \notin X /\ r \in q..(e - 1) /\ r + 1 \in Positions
    BY <1>0, <1>2, <1>3, <1>5 DEF Positions
  <2>2. f[r + 1] = SubSeq(T, r + 1, e - 1) \o f[e]  BY <1>1, <2>1
  <2>3. ~(r > Len(T)) /\ ~Whole(T, r, p)  BY <1>0, <1>3, <1>5, <2>1 DEF Clear
  <2>4. f[r] = <<T[r]>> \o f[r + 1]  BY <1>3, <2>3 DEF Replaces
  <2>5. PICK c : c = SubSeq(T, r + 1, e - 1)  OBVIOUS
  <2>6. c \in Seq(S) /\ T[r] \in S /\ f[e] \in Seq(S)
    <3>1. r + 1 \in Int /\ e - 1 \in Int /\ \A i \in (r + 1)..(e - 1) : T[i] \in S  BY <1>0, <1>3
    <3>2. r \in 1..Len(T)  BY <1>0, <1>3, <2>3
    <3> QED  BY <2>5, <3>1, <3>2, SubSeqProperties
  <2>7. SubSeq(T, r, e - 1) = <<T[r]>> \o c
    <3>1. r \in 1..Len(T) /\ e - 1 \in r..Len(T)  BY <1>0, <1>3, <1>5, <2>3
    <3>2. SubSeq(T, r, e - 1) = <<T[r]>> \o SubSeq(T, r + 1, e - 1)  BY <3>1, SubSeqRecursiveFirst
    <3> QED  BY <2>5, <3>2
  <2>9. <<T[r]>> \in Seq(S)  BY <2>6
  <2>10. (<<T[r]>> \o c) \o f[e] = <<T[r]>> \o (c \o f[e])  BY <1>a, <2>6, <2>9 DEF Joinable
  <2> QED  BY <1>3, <2>2, <2>4, <2>5, <2>7, <2>10
<1> QED  BY <1>4, <1>5

LEMMA NoneInside ==
  ASSUME NEW S, NEW T \in Seq(S), NEW p \in Seq(Joining), p # <<>>, NEW q \in Positions, NEW c \in Seq(S),
         q + Len(c) <= Len(T) + 1, \A n \in 1..Len(c) : T[q + n - 1] = c[n],
         ~Joins(T, q + Len(c)), \A i \in 1..Len(c) : ~Whole(c, i, p)
  PROVE  \A r \in q..(q + Len(c) - 1) : ~Whole(T, r, p)
<1> SUFFICES ASSUME NEW r \in q..(q + Len(c) - 1), Whole(T, r, p) PROVE FALSE  OBVIOUS
<1>0. /\ Len(T) \in Nat /\ Len(c) \in Nat /\ Len(p) \in Nat /\ Len(p) >= 1
      /\ q \in Nat /\ q >= 1 /\ r \in Nat /\ r >= q /\ r <= q + Len(c) - 1
  BY DEF Positions
<1>1. PICK i : i = r - q + 1  OBVIOUS
<1>2. i \in 1..Len(c) /\ i \in Positions /\ r \in Positions /\ r = q + i - 1  BY <1>0, <1>1 DEF Positions
<1>3. r + Len(p) <= Len(T) + 1 /\ \A n \in 1..Len(p) : T[r + n - 1] = p[n]
  <2>1. Here(T, r, p)  BY DEF Whole
  <2> QED  BY <1>2, <2>1, HereIs
<1>4. r + Len(p) <= q + Len(c)
  <2> SUFFICES ASSUME r + Len(p) > q + Len(c) PROVE FALSE  BY <1>0
  <2>1. PICK n : n = q + Len(c) - r + 1  OBVIOUS
  <2>2. n \in 1..Len(p) /\ r + n - 1 = q + Len(c)  BY <1>0, <2>1
  <2>3. T[q + Len(c)] \in Joining  BY <1>3, <2>2
  <2>4. q + Len(c) \in 1..Len(T)  BY <1>0, <1>3
  <2> QED  BY <2>3, <2>4, JoinsIs
<1>5. Here(c, i, p)
  <2>1. i + Len(p) <= Len(c) + 1  BY <1>0, <1>2, <1>4
  <2>2. ASSUME NEW n \in 1..Len(p) PROVE c[i + n - 1] = p[n]
    <3>1. i + n - 1 \in 1..Len(c) /\ q + (i + n - 1) - 1 = r + n - 1  BY <1>0, <1>2, <2>1
    <3>2. T[q + (i + n - 1) - 1] = c[i + n - 1]  BY <3>1
    <3> QED  BY <1>3, <3>1, <3>2
  <2> QED  BY <1>2, <2>1, <2>2, HereIs
<1>6. ~Joins(c, i - 1)
  <2> SUFFICES ASSUME i - 1 \in 1..Len(c), c[i - 1] \in Joining PROVE FALSE  BY JoinsIs
  <2>1. q + (i - 1) - 1 = r - 1 /\ r - 1 \in 1..Len(T)  BY <1>0, <1>2
  <2>2. T[q + (i - 1) - 1] = c[i - 1]  OBVIOUS
  <2>3. Joins(T, r - 1)  BY <2>1, <2>2, JoinsIs
  <2> QED  BY <2>3 DEF Whole
<1>7. ~Joins(c, i + Len(p))
  <2> SUFFICES ASSUME i + Len(p) \in 1..Len(c), c[i + Len(p)] \in Joining PROVE FALSE  BY JoinsIs
  <2>1. q + (i + Len(p)) - 1 = r + Len(p) /\ r + Len(p) \in 1..Len(T)  BY <1>0, <1>2
  <2>2. T[q + (i + Len(p)) - 1] = c[i + Len(p)]  OBVIOUS
  <2>3. Joins(T, r + Len(p))  BY <2>1, <2>2, JoinsIs
  <2> QED  BY <2>3 DEF Whole
<1>8. Whole(c, i, p)  BY <1>5, <1>6, <1>7 DEF Whole
<1> QED  BY <1>2, <1>8

LEMMA WordJoins ==
  ASSUME NEW S, NEW text \in Seq(S), NEW i \in Positions, i <= Len(text)
  PROVE  /\ ~Joins(text, i) => /\ WordEnd(text, i) = i + 1 /\ Len(Word(text, i)) = 1
                               /\ Word(text, i)[1] = text[i] /\ text[i] \notin Joining
         /\ Joins(text, i) => /\ ~Joins(text, WordEnd(text, i))
                              /\ \A n \in 1..Len(Word(text, i)) : Word(text, i)[n] \in Joining
<1>0. Len(text) \in Nat /\ i \in Nat /\ i >= 1 /\ i \in 1..Len(text)  BY DEF Positions
<1>1. PICK e : e = WordEnd(text, i)  OBVIOUS
<1>2. PICK w : w = Word(text, i)  OBVIOUS
<1>3. e \in Positions /\ e \in Nat /\ i < e /\ e <= Len(text) + 1
  BY <1>1, WordIs DEF Positions
<1>4. w \in Seq(S) /\ Len(w) = e - i /\ \A k \in 1..(e - i) : w[k] = text[i + k - 1]
  BY <1>1, <1>2, WordIs
<1>5. ASSUME ~Joins(text, i) PROVE e = i + 1 /\ Len(w) = 1 /\ w[1] = text[i] /\ text[i] \notin Joining
  <2>1. e = i + 1  BY <1>1, <1>5 DEF WordEnd
  <2>2. e - i = 1 /\ 1 \in 1..(e - i) /\ i + 1 - 1 = i  BY <1>0, <2>1
  <2>3. text[i] \notin Joining  BY <1>0, <1>5, JoinsIs
  <2> QED  BY <1>4, <2>1, <2>2, <2>3
<1>6. ASSUME Joins(text, i) PROVE ~Joins(text, e) /\ \A n \in 1..Len(w) : w[n] \in Joining
  <2>1. e = Past(text, i, Joining)  BY <1>1, <1>6 DEF WordEnd, Joining
  <2>2. /\ e <= Len(text) => text[e] \notin Joining
        /\ \A j \in i..(e - 1) : text[j] \in Joining
    BY <1>0, <2>1, Scans
  <2>3. ~Joins(text, e)  BY <2>2, JoinsIs
  <2>4. ASSUME NEW n \in 1..Len(w) PROVE w[n] \in Joining
    <3>1. n \in 1..(e - i) /\ i + n - 1 \in i..(e - 1)  BY <1>0, <1>3, <1>4
    <3> QED  BY <1>4, <2>2, <3>1
  <2> QED  BY <2>3, <2>4
<1> QED  BY <1>1, <1>2, <1>5, <1>6

(* The first k parameters are words, and args has one argument for each.   *)
Named(params, k) == \A j \in 1..k : params[j] \in Seq(Joining) /\ params[j] # <<>>
OneMoreThan(args, more, k) == /\ Len(args) = k - 1 /\ Len(more) = k
                              /\ \A j \in 1..(k - 1) : more[j] = args[j]

LEMMA NotMarks ==
  ASSUME NEW S, NEW text \in Seq(S), NEW i \in Positions, i <= Len(text), ~Joins(text, i),
         NEW p \in Seq(Joining), p # <<>>
  PROVE  Word(text, i) # p
<1>1. Word(text, i)[1] \notin Joining  BY WordJoins
<1>2. p[1] \in Joining  OBVIOUS
<1> QED  BY <1>1, <1>2

LEMMA ChunkMore ==
  ASSUME NEW S, NEW text \in Seq(S), NEW i \in Positions, i <= Len(text), NEW params,
         NEW args, NEW more, NEW k \in Nat \ {0}, Named(params, k), OneMoreThan(args, more, k)
  PROVE  \/ /\ Chunk(text, params, more, i) = Chunk(text, params, args, i)
            /\ Joins(text, i) /\ \E j \in 1..(k - 1) : Chunk(text, params, args, i) = args[j]
         \/ /\ Chunk(text, params, args, i) = Word(text, i) /\ Word(text, i) # params[k]
            /\ Chunk(text, params, more, i) = Word(text, i)
         \/ /\ Chunk(text, params, args, i) = Word(text, i) /\ Word(text, i) = params[k]
            /\ Joins(text, i) /\ Chunk(text, params, more, i) = more[k]
<1>1. PICK K : K = {j \in 1..Len(args) : params[j] = Word(text, i)}  OBVIOUS
<1>2. PICK M : M = {j \in 1..Len(more) : params[j] = Word(text, i)}  OBVIOUS
<1>3. /\ Chunk(text, params, args, i) = IF K = {} THEN Word(text, i) ELSE args[Min(K)]
      /\ Chunk(text, params, more, i) = IF M = {} THEN Word(text, i) ELSE more[Min(M)]
  BY <1>1, <1>2 DEF Chunk
<1>4. /\ K \subseteq 1..(k - 1) /\ M \subseteq 1..k
      /\ M = IF Word(text, i) = params[k] THEN K \cup {k} ELSE K
  <2>1. Len(args) = k - 1 /\ Len(more) = k  BY DEF OneMoreThan
  <2>2. 1..k = (1..(k - 1)) \cup {k} /\ k \notin 1..(k - 1)  OBVIOUS
  <2> QED  BY <1>1, <1>2, <2>1, <2>2
<1>5. k - 1 \in Nat /\ k \in Nat  OBVIOUS
<1>6. \A j \in 1..k : params[j] = Word(text, i) => Joins(text, i)
  <2> TAKE j \in 1..k
  <2>1. params[j] \in Seq(Joining) /\ params[j] # <<>>  BY DEF Named
  <2> QED  BY <2>1, NotMarks
<1>7. CASE K # {}
  <2>1. Min(K) \in K /\ \A n \in K : Min(K) <= n  BY <1>4, <1>5, <1>7, Extremes
  <2>2. Min(M) \in M /\ \A n \in M : Min(M) <= n  BY <1>4, <1>5, <1>7, Extremes
  <2>3. Min(K) \in 1..(k - 1) /\ Min(K) \in M /\ Min(M) <= Min(K)  BY <1>4, <2>1, <2>2
  <2>4. Min(M) \in 1..k /\ Min(M) # k
    <3>1. Min(M) \in 1..k  BY <1>4, <2>2
    <3>2. PICK m, n : m = Min(M) /\ n = Min(K)  OBVIOUS
    <3>3. m \in 1..k /\ n \in 1..(k - 1) /\ m <= n  BY <2>3, <3>1, <3>2
    <3>4. m # k  BY <1>5, <3>3
    <3> QED  BY <3>1, <3>2, <3>4
  <2>5. Min(M) \in K  BY <1>4, <2>2, <2>4
  <2>6. Min(M) = Min(K)  BY <1>5, <2>1, <2>3, <2>4, <2>5
  <2>7. more[Min(M)] = args[Min(K)]  BY <2>3, <2>6 DEF OneMoreThan
  <2>8. params[Min(K)] = Word(text, i)  BY <1>1, <2>1
  <2>9. Joins(text, i)  BY <1>6, <2>3, <2>8
  <2> QED  BY <1>3, <1>4, <1>7, <2>3, <2>7, <2>9
<1>8. CASE K = {} /\ Word(text, i) # params[k]
  BY <1>3, <1>4, <1>8
<1>9. CASE K = {} /\ Word(text, i) = params[k]
  <2>1. M = {k}  BY <1>4, <1>9
  <2>2. Min(M) = k  BY <1>4, <1>5, <2>1, Extremes
  <2>3. Joins(text, i)  BY <1>6, <1>9
  <2> QED  BY <1>3, <1>9, <2>1, <2>2, <2>3
<1> QED  BY <1>7, <1>8, <1>9

LEMMA NotInOther ==
  ASSUME NEW S, NEW w \in Seq(S), \A n \in 1..Len(w) : w[n] \in Joining,
         NEW p \in Seq(Joining), p # <<>>, w # p
  PROVE  \A r \in 1..Len(w) : ~Whole(w, r, p)
<1> SUFFICES ASSUME NEW r \in 1..Len(w), Whole(w, r, p) PROVE FALSE  OBVIOUS
<1>0. Len(w) \in Nat /\ Len(p) \in Nat /\ Len(p) >= 1 /\ r \in Nat /\ r >= 1 /\ r \in Positions  BY DEF Positions
<1>1. Here(w, r, p) /\ ~Joins(w, r - 1) /\ ~Joins(w, r + Len(p))  BY DEF Whole
<1>2. r + Len(p) <= Len(w) + 1 /\ \A n \in 1..Len(p) : w[r + n - 1] = p[n]  BY <1>0, <1>1, HereIs
<1>3. r = 1
  <2> SUFFICES ASSUME r # 1 PROVE FALSE  OBVIOUS
  <2>1. r - 1 \in 1..Len(w)  BY <1>0
  <2> QED  BY <1>1, <2>1, JoinsIs
<1>4. Len(p) = Len(w)
  <2> SUFFICES ASSUME Len(p) # Len(w) PROVE FALSE  OBVIOUS
  <2>1. r + Len(p) \in 1..Len(w)  BY <1>0, <1>2, <1>3
  <2> QED  BY <1>1, <2>1, JoinsIs
<1>5. \A n \in 1..Len(p) : w[n] = p[n]
  <2> TAKE n \in 1..Len(p)
  <2>1. r + n - 1 = n  BY <1>0, <1>3
  <2> QED  BY <1>2, <2>1
<1> QED  BY <1>4, <1>5, SeqEqual

-----------------------------------------------------------------------------
(* From position q on T is what f makes of the words from i on.            *)
Follows(text, f, T, i, q) ==
  /\ Len(T) = q - 1 + Len(f[i])
  /\ \A n \in 1..Len(f[i]) : T[q + n - 1] = f[i][n]
  /\ Joins(text, i) => ~Joins(T, q - 1)

(* No argument before the k-th holds p as a word.                          *)
Spared(args, p, k) == \A j \in 1..(k - 1) : \A i \in 1..Len(args[j]) : ~Whole(args[j], i, p)

(* c stands in T at q.                                                     *)
Stands(T, q, c) == q + Len(c) <= Len(T) + 1 /\ \A n \in 1..Len(c) : T[q + n - 1] = c[n]

LEMMA FollowsOn ==
  ASSUME NEW S, NEW text \in Seq(S), NEW i \in Positions, i <= Len(text), NEW params,
         NEW args \in Seq(Seq(S)), NEW k \in Nat \ {0}, Named(params, k), Len(args) = k - 1,
         NEW f \in [Positions -> Seq(S)], Substitutes(f, text, params, args),
         NEW T \in Seq(S), NEW q \in Positions, Follows(text, f, T, i, q),
         NEW c, c = Chunk(text, params, args, i)
  PROVE  /\ c \in Seq(S) /\ q + Len(c) \in Positions /\ Stands(T, q, c)
         /\ Follows(text, f, T, WordEnd(text, i), q + Len(c))
         /\ Joins(text, i) => ~Joins(T, q + Len(c))
<1>1. PICK e : e = WordEnd(text, i)  OBVIOUS
<1>2. e \in Positions /\ i < e /\ e <= Len(text) + 1 /\ e \in Nat
  BY <1>1, WordIs DEF Positions
<1>0. /\ i \in Nat /\ i >= 1 /\ q \in Nat /\ q >= 1 /\ Len(text) \in Nat /\ Len(T) \in Nat
  BY DEF Positions
<1>3. c \in Seq(S) /\ Len(c) \in Nat  BY ChunkType
<1>4. f[i] = c \o f[e]
  <2>1. ~(i > Len(text))  BY <1>0
  <2> QED  BY <1>1, <2>1 DEF Substitutes
<1>5. PICK d : d = f[e]  OBVIOUS
<1>6. d \in Seq(S) /\ Len(d) \in Nat  BY <1>2, <1>5
<1>7. PICK g : g = f[i]  OBVIOUS
<1>8. /\ g \in Seq(S) /\ Len(g) = Len(c) + Len(d)
      /\ \A n \in 1..Len(c) : g[n] = c[n]
      /\ \A n \in 1..Len(d) : g[Len(c) + n] = d[n]
  <2>1. g = c \o d  BY <1>4, <1>5, <1>7
  <2> QED  BY <1>3, <1>6, <2>1
<1>9. /\ Len(T) = q - 1 + Len(g)
      /\ \A n \in 1..Len(g) : T[q + n - 1] = g[n]
      /\ Joins(text, i) => ~Joins(T, q - 1)
  BY <1>7 DEF Follows
<1>10. PICK o : o = q + Len(c)  OBVIOUS
<1>11. o \in Nat /\ o \in Positions /\ o <= Len(T) + 1
  <2>1. o \in Nat /\ o >= 1  BY <1>0, <1>3, <1>10
  <2>2. o <= Len(T) + 1  BY <1>0, <1>3, <1>6, <1>8, <1>9, <1>10
  <2> QED  BY <2>1, <2>2 DEF Positions
<1>12. \A n \in 1..Len(c) : T[q + n - 1] = c[n]
  <2> TAKE n \in 1..Len(c)
  <2>1. n \in 1..Len(g)  BY <1>3, <1>6, <1>8
  <2> QED  BY <1>8, <1>9, <2>1
<1>13. Len(T) = o - 1 + Len(d) /\ \A n \in 1..Len(d) : T[o + n - 1] = d[n]
  <2>1. Len(T) = o - 1 + Len(d)  BY <1>0, <1>3, <1>6, <1>8, <1>9, <1>10
  <2>2. ASSUME NEW n \in 1..Len(d) PROVE T[o + n - 1] = d[n]
    <3>1. Len(c) + n \in 1..Len(g) /\ q + (Len(c) + n) - 1 = o + n - 1  BY <1>0, <1>3, <1>6, <1>8, <1>10
    <3>2. T[q + (Len(c) + n) - 1] = g[Len(c) + n]  BY <1>9, <3>1
    <3> QED  BY <1>8, <3>1, <3>2
  <2> QED  BY <2>1, <2>2
<1>14. ~Joins(text, i) => Len(c) = 1 /\ c[1] \notin Joining
  <2> SUFFICES ASSUME ~Joins(text, i) PROVE Len(c) = 1 /\ c[1] \notin Joining  OBVIOUS
  <2>1. c = Word(text, i)
    <3>1. PICK K : K = {j \in 1..Len(args) : params[j] = Word(text, i)}  OBVIOUS
    <3>2. \A j \in 1..Len(args) : params[j] # Word(text, i)
      <4> TAKE j \in 1..Len(args)
      <4>1. params[j] \in Seq(Joining) /\ params[j] # <<>>
        <5>1. j \in 1..k  OBVIOUS
        <5> QED  BY <5>1 DEF Named
      <4> QED  BY <4>1, NotMarks
    <3>3. K = {}  BY <3>1, <3>2
    <3> QED  BY <3>1, <3>3 DEF Chunk
  <2> QED  BY <2>1, WordJoins
<1>15. ASSUME Joins(text, e) PROVE ~Joins(T, o - 1)
  <2>1. ~Joins(text, i)  BY <1>1, <1>15, WordJoins
  <2>2. Len(c) = 1 /\ c[1] \notin Joining  BY <1>14, <2>1
  <2>3. o - 1 = q + 1 - 1 /\ 1 \in 1..Len(c)  BY <1>0, <1>10, <2>2
  <2>4. T[o - 1] = c[1]  BY <1>12, <2>3
  <2> QED  BY <2>2, <2>4, JoinsIs
<1>16. Follows(text, f, T, e, o)
  BY <1>5, <1>13, <1>15 DEF Follows
<1>17. ASSUME Joins(text, i) PROVE ~Joins(T, o)
  <2>1. ~Joins(text, e)  BY <1>1, <1>17, WordJoins
  <2>2. CASE e > Len(text)
    <3>1. d = <<>>  BY <1>2, <1>5, <2>2 DEF Substitutes
    <3>2. Len(T) = o - 1  BY <1>11, <1>13, <3>1
    <3> QED  BY <1>11, <3>2, JoinsIs
  <2>3. CASE e <= Len(text)
    <3>1. PICK h : h = Chunk(text, params, args, e)  OBVIOUS
    <3>2. h = Word(text, e)
      <4>2. \A j \in 1..Len(args) : params[j] # Word(text, e)
        <5> TAKE j \in 1..Len(args)
        <5>1. params[j] \in Seq(Joining) /\ params[j] # <<>>
          <6>1. j \in 1..k  OBVIOUS
          <6> QED  BY <6>1 DEF Named
        <5> QED  BY <1>2, <2>1, <2>3, <5>1, NotMarks
      <4>3. {j \in 1..Len(args) : params[j] = Word(text, e)} = {}  BY <4>2
      <4> QED  BY <3>1, <4>3 DEF Chunk
    <3>3. h \in Seq(S) /\ Len(h) = 1 /\ h[1] \notin Joining
      <4>1. h \in Seq(S)  BY <1>2, <2>3, <3>2, WordIs
      <4>2. Len(h) = 1 /\ h[1] \notin Joining  BY <1>2, <2>1, <2>3, <3>2, WordJoins
      <4> QED  BY <4>1, <4>2
    <3>4. PICK b : b = f[WordEnd(text, e)]  OBVIOUS
    <3>5. b \in Seq(S)
      <4>1. WordEnd(text, e) \in Positions  BY <1>2, WordIs
      <4> QED  BY <3>4, <4>1
    <3>6. d = h \o b
      <4>1. ~(e > Len(text))  BY <1>0, <1>2, <2>3
      <4> QED  BY <1>2, <1>5, <3>1, <3>4, <4>1 DEF Substitutes
    <3>7. d[1] = h[1] /\ 1 \in 1..Len(d)
      <4>0. d = h \o b /\ h \in Seq(S) /\ b \in Seq(S)  BY <3>3, <3>5, <3>6
      <4>1. Len(d) = Len(h) + Len(b) /\ Len(b) \in Nat  BY <4>0
      <4>2. \A n \in 1..Len(h) : d[n] = h[n]  BY <4>0
      <4>3. 1 \in 1..Len(h) /\ 1 \in 1..Len(d)  BY <3>3, <4>1
      <4> QED  BY <4>2, <4>3
    <3>8. T[o] = d[1]
      <4>1. o + 1 - 1 = o  BY <1>11
      <4> QED  BY <1>13, <3>7, <4>1
    <3> QED  BY <3>3, <3>7, <3>8, JoinsIs
  <2> QED  BY <1>0, <1>2, <2>2, <2>3
<1>18. Stands(T, q, c)  BY <1>10, <1>11, <1>12 DEF Stands
<1> QED  BY <1>1, <1>3, <1>10, <1>11, <1>16, <1>17, <1>18

LEMMA PiecesAre ==
  ASSUME NEW S, NEW text \in Seq(S)
  PROVE  \A i \in Positions, e \in Nat : i <= e /\ e <= Len(text) + 1 =>
            /\ Piece(text, i, e) \in Seq(S) /\ Len(Piece(text, i, e)) = e - i
            /\ \A k \in 1..(e - i) : Piece(text, i, e)[k] = text[i + k - 1]
<1> TAKE i \in Positions, e \in Nat
<1> HAVE i <= e /\ e <= Len(text) + 1
<1> QED  BY PieceType

LEMMA OneMore ==
  ASSUME NEW S, NEW text \in Seq(S), NEW params, NEW args \in Seq(Seq(S)), NEW more \in Seq(Seq(S)),
         NEW k \in Nat \ {0}, Named(params, k), OneMoreThan(args, more, k),
         Spared(args, params[k], k)
  PROVE  Replace(Substituted(text, params, args), params[k], more[k]) = Substituted(text, params, more)
<1> DEFINE p == params[k]
           a == more[k]
<1>1. PICK f \in [Positions -> Seq(S)] : Substitutes(f, text, params, args) /\ Substituted(text, params, args) = f[1]
  <2>1. \A t \in Seq(S) : \A ps : \A as \in Seq(Seq(S)) :
           \E h \in [Positions -> Seq(S)] : Substitutes(h, t, ps, as) /\ Substituted(t, ps, as) = h[1]
    BY SubstitutedIs
  <2> QED  BY <2>1
<1>2. PICK g \in [Positions -> Seq(S)] : Substitutes(g, text, params, more) /\ Substituted(text, params, more) = g[1]
  <2>1. \A t \in Seq(S) : \A ps : \A as \in Seq(Seq(S)) :
           \E h \in [Positions -> Seq(S)] : Substitutes(h, t, ps, as) /\ Substituted(t, ps, as) = h[1]
    BY SubstitutedIs
  <2> QED  BY <2>1
<1>3. PICK T : T = f[1]  OBVIOUS
<1>0. /\ 1 \in Positions /\ k \in Nat /\ k >= 1 /\ k \in 1..k /\ k - 1 \in Nat
      /\ Len(args) = k - 1 /\ Len(more) = k /\ Len(text) \in Nat
  BY DEF Positions, OneMoreThan
<1>4. T \in Seq(S) /\ Len(T) \in Nat  BY <1>0, <1>3
<1>pieces. \A i \in Positions, e \in Nat : i <= e /\ e <= Len(T) + 1 =>
              /\ Piece(T, i, e) \in Seq(S) /\ Len(Piece(T, i, e)) = e - i
              /\ \A n \in 1..(e - i) : Piece(T, i, e)[n] = T[i + n - 1]
  BY <1>4, PiecesAre
<1>5. a \in Seq(S)  BY <1>0
<1>6. p \in Seq(Joining) /\ p # <<>> /\ Len(p) \in Nat \ {0}
  <2>1. p \in Seq(Joining) /\ p # <<>>  BY <1>0 DEF Named
  <2> QED  BY <2>1
<1>a. \A j \in 1..(k - 1) : \A i \in 1..Len(args[j]) : ~Whole(args[j], i, p)  BY DEF Spared
<1>b. a = more[k] /\ p = params[k]  OBVIOUS
<1> HIDE DEF a, p
<1>7. PICK r \in [Positions -> Seq(S)] : Replaces(r, T, p, a) /\ Replace(T, p, a) = r[1]
  BY <1>4, <1>5, <1>6, ReplaceIs
<1>c. \A i \in Positions : i <= Len(text) =>
         LET d == Chunk(text, params, args, i)
             e == Chunk(text, params, more, i)
             w == Word(text, i)
         IN  \/ e = d /\ Joins(text, i) /\ \E j \in 1..(k - 1) : d = args[j]
             \/ d = w /\ w # params[k] /\ e = w
             \/ d = w /\ w = params[k] /\ Joins(text, i) /\ e = more[k]
  BY ChunkMore
<1>d. \A q, e \in Positions : q <= e /\ e <= Len(T) + 1 /\ Clear(T, q, e, p) => Passed(r, T, q, e)
  BY <1>4, <1>7, Passes
<1>8. PICK X : X = {i \in 1..(Len(text) + 1) : \E q \in Positions : Follows(text, f, T, i, q) /\ r[q] # g[i]}
  OBVIOUS
<1>9. ASSUME X # {} PROVE FALSE
  <2>1. PICK i \in X : \A j \in X : j <= i
    <3>1. X \subseteq 1..(Len(text) + 1) /\ Len(text) + 1 \in Nat  BY <1>0, <1>8
    <3> QED  BY <1>9, <3>1, Extremes
  <2>2. i \in 1..(Len(text) + 1)  BY <1>8
  <2>3. PICK q \in Positions : Follows(text, f, T, i, q) /\ r[q] # g[i]  BY <1>8
  <2>4. i \in Positions /\ i \in Nat /\ q \in Nat /\ q >= 1  BY <1>0, <2>2 DEF Positions
  <2>5. CASE i > Len(text)
    <3>1. f[i] = <<>> /\ g[i] = <<>>  BY <1>1, <1>2, <2>4, <2>5 DEF Substitutes
    <3>2. Len(T) = q - 1 + Len(f[i])  BY <2>3 DEF Follows
    <3>3. q > Len(T)  BY <1>4, <2>4, <3>1, <3>2
    <3>4. r[q] = <<>>  BY <1>7, <3>3 DEF Replaces
    <3> QED  BY <2>3, <3>1, <3>4
  <2>6. CASE i <= Len(text)
    <3>1. PICK c : c = Chunk(text, params, args, i)  OBVIOUS
    <3>2. PICK e : e = WordEnd(text, i)  OBVIOUS
    <3>3. PICK o : o = q + Len(c)  OBVIOUS
    <3>a. /\ c \in Seq(S) /\ o \in Positions /\ Stands(T, q, c)
          /\ Follows(text, f, T, e, o)
          /\ Joins(text, i) => ~Joins(T, o)
      BY <1>0, <1>1, <1>4, <2>3, <2>4, <2>6, <3>1, <3>2, <3>3, FollowsOn
    <3>4. /\ c \in Seq(S) /\ o \in Positions /\ o <= Len(T) + 1
          /\ \A n \in 1..Len(c) : T[q + n - 1] = c[n]
          /\ Follows(text, f, T, e, o)
          /\ Joins(text, i) => ~Joins(T, o)
      BY <3>3, <3>a DEF Stands
    <3>5. e \in Positions /\ i < e /\ e <= Len(text) + 1
      BY <2>4, <2>6, <3>2, WordIs
    <3>6. r[o] = g[e]
      <4>1. e \in 1..(Len(text) + 1) /\ ~(e <= i)  BY <1>0, <2>4, <3>5 DEF Positions
      <4>2. e \notin X  BY <2>1, <4>1
      <4> QED  BY <1>8, <3>4, <4>1, <4>2
    <3>7. PICK d : d = Chunk(text, params, more, i)  OBVIOUS
    <3>8. g[i] = d \o g[e]
      <4>1. ~(i > Len(text))  BY <1>0, <2>4, <2>6
      <4> QED  BY <1>2, <2>4, <3>2, <3>7, <4>1 DEF Substitutes
    <3>9. SubSeq(T, q, o - 1) = c
      <4>a. o \in Nat /\ Len(c) \in Nat  BY <3>4 DEF Positions
      <4>0. o \in Nat /\ Len(c) \in Nat /\ q <= o  BY <2>4, <3>3, <4>a
      <4>1. /\ Piece(T, q, o) \in Seq(S) /\ Len(Piece(T, q, o)) = o - q
            /\ \A n \in 1..(o - q) : Piece(T, q, o)[n] = T[q + n - 1]
        <5>1. q \in Positions /\ o \in Nat /\ q <= o /\ o <= Len(T) + 1  BY <2>4, <3>4, <4>0
        <5> QED  BY <1>pieces, <5>1
      <4>2. o - q = Len(c)  BY <2>4, <3>3, <4>0
      <4>3. Len(Piece(T, q, o)) = Len(c) /\ \A n \in 1..Len(c) : Piece(T, q, o)[n] = c[n]  BY <3>4, <4>0, <4>1, <4>2
      <4>4. Piece(T, q, o) = c  BY <3>4, <4>1, <4>3, SeqEqual
      <4> QED  BY <4>4 DEF Piece
    <3>10. ASSUME \A n \in q..(o - 1) : ~Whole(T, n, p), d = c PROVE FALSE
      <4>a. o \in Nat /\ Len(c) \in Nat  BY <3>4 DEF Positions
      <4>0. o \in Nat /\ q <= o  BY <2>4, <3>3, <4>a
      <4>1. Clear(T, q, o, p)  BY <3>10 DEF Clear
      <4>2. r[q] = SubSeq(T, q, o - 1) \o r[o]
        BY <1>d, <3>4, <4>0, <4>1 DEF Passed
      <4> QED  BY <2>3, <3>6, <3>8, <3>9, <3>10, <4>2
    <3>11. ASSUME Joins(text, i), d = c, \A n \in 1..Len(c) : ~Whole(c, n, p) PROVE FALSE
      <4>1. \A n \in q..(q + Len(c) - 1) : ~Whole(T, n, p)
        BY <1>4, <1>6, <3>3, <3>4, <3>11, NoneInside
      <4>2. \A n \in q..(o - 1) : ~Whole(T, n, p)
        <5> TAKE n \in q..(o - 1)
        <5>0. q \in Nat /\ Len(c) \in Nat  BY <2>4, <3>4
        <5>1. n \in q..(q + Len(c) - 1)  BY <3>3, <5>0
        <5> QED  BY <4>1, <5>1
      <4> QED  BY <3>10, <3>11, <4>2
    <3>12. CASE ~Joins(text, i) /\ d = c /\ c = Word(text, i)
      <4>0. Len(Word(text, i)) = 1 /\ Word(text, i)[1] = text[i] /\ text[i] \notin Joining
        BY <2>4, <2>6, <3>12, WordJoins
      <4>1. Len(c) = 1 /\ c[1] \notin Joining  BY <3>12, <4>0
      <4>2. q + 1 - 1 = q /\ 1 \in 1..Len(c) /\ o - 1 = q  BY <2>4, <3>3, <4>1
      <4>3. T[q] = c[1]  BY <3>4, <4>2
      <4>4. ~Whole(T, q, p)
        <5> SUFFICES ASSUME Here(T, q, p) PROVE FALSE  BY DEF Whole
        <5>1. \A n \in 1..Len(p) : T[q + n - 1] = p[n]  BY <1>4, <1>6, HereIs
        <5>2. 1 \in 1..Len(p) /\ p[1] \in Joining  BY <1>6
        <5> QED  BY <4>1, <4>2, <4>3, <5>1, <5>2
      <4>5. \A n \in q..(o - 1) : n = q  BY <2>4, <4>2
      <4> QED  BY <3>10, <3>12, <4>4, <4>5
    <3>13. CASE d = c /\ Joins(text, i) /\ \E j \in 1..(k - 1) : c = args[j]
      BY <1>a, <3>11, <3>13
    <3>14. CASE Joins(text, i) /\ c = Word(text, i) /\ Word(text, i) # p /\ d = Word(text, i)
      <4>1. \A n \in 1..Len(c) : c[n] \in Joining  BY <2>4, <2>6, <3>14, WordJoins
      <4>2. \A n \in 1..Len(c) : ~Whole(c, n, p)  BY <1>6, <3>4, <3>14, <4>1, NotInOther
      <4> QED  BY <3>11, <3>14, <4>2
    <3>15. CASE Joins(text, i) /\ c = Word(text, i) /\ Word(text, i) = p /\ d = a
      <4>1. c = p  BY <3>15
      <4>2. Here(T, q, p)
        <5>1. q + Len(p) <= Len(T) + 1 /\ \A n \in 1..Len(p) : T[q + n - 1] = p[n]  BY <3>3, <3>4, <4>1
        <5> QED  BY <1>4, <1>6, <5>1, HereIs
      <4>3. ~Joins(T, q - 1)  BY <2>3, <3>15 DEF Follows
      <4>4. ~Joins(T, q + Len(p))  BY <3>3, <3>4, <3>15, <4>1
      <4>5. Whole(T, q, p)  BY <4>2, <4>3, <4>4 DEF Whole
      <4>6. ~(q > Len(T))
        <5>1. q + Len(p) <= Len(T) + 1  BY <3>3, <3>4, <4>1
        <5> QED  BY <1>4, <1>6, <2>4, <5>1
      <4>7. r[q] = a \o r[q + Len(p)]  BY <1>7, <4>5, <4>6 DEF Replaces
      <4>8. q + Len(p) = o  BY <3>3, <4>1
      <4> QED  BY <2>3, <3>6, <3>8, <3>15, <4>7, <4>8
    <3>16. \/ d = c /\ Joins(text, i) /\ \E j \in 1..(k - 1) : c = args[j]
           \/ c = Word(text, i) /\ Word(text, i) # p /\ d = Word(text, i)
           \/ c = Word(text, i) /\ Word(text, i) = p /\ Joins(text, i) /\ d = a
      <4>1. \/ d = c /\ Joins(text, i) /\ \E j \in 1..(k - 1) : c = args[j]
            \/ c = Word(text, i) /\ Word(text, i) # params[k] /\ d = Word(text, i)
            \/ c = Word(text, i) /\ Word(text, i) = params[k] /\ Joins(text, i) /\ d = more[k]
        BY <1>c, <2>4, <2>6, <3>1, <3>7
      <4> QED  BY <1>b, <4>1
    <3> QED  BY <3>12, <3>13, <3>14, <3>15, <3>16
  <2> QED  BY <1>0, <2>4, <2>5, <2>6
<1>10. Follows(text, f, T, 1, 1)
  <2>1. Len(T) = 1 - 1 + Len(f[1])  BY <1>3, <1>4
  <2>2. \A n \in 1..Len(f[1]) : T[1 + n - 1] = f[1][n]
    <3> TAKE n \in 1..Len(f[1])
    <3>1. 1 + n - 1 = n  OBVIOUS
    <3> QED  BY <1>3, <3>1
  <2>3. ~Joins(T, 1 - 1)  BY JoinsIs
  <2> QED  BY <2>1, <2>2, <2>3 DEF Follows
<1>11. r[1] = g[1]
  <2>1. 1 \in 1..(Len(text) + 1)  BY <1>0
  <2> QED  BY <1>0, <1>8, <1>9, <1>10, <2>1
<1> QED  BY <1>b, <1>1, <1>2, <1>3, <1>7, <1>11

LEMMA NoneYet ==
  ASSUME NEW S, NEW text \in Seq(S), NEW params
  PROVE  Substituted(text, params, <<>>) = text
<1>0. 1 \in Positions /\ Len(text) \in Nat /\ <<>> \in Seq(Seq(S))  BY DEF Positions
<1>1. PICK f \in [Positions -> Seq(S)] : Substitutes(f, text, params, <<>>) /\ Substituted(text, params, <<>>) = f[1]
  <2>1. \A t \in Seq(S) : \A ps : \A as \in Seq(Seq(S)) :
           \E h \in [Positions -> Seq(S)] : Substitutes(h, t, ps, as) /\ Substituted(t, ps, as) = h[1]
    BY SubstitutedIs
  <2> QED  BY <1>0, <2>1
<1>2. PICK X : X = {i \in 1..(Len(text) + 1) : f[i] # SubSeq(text, i, Len(text))}  OBVIOUS
<1>3. ASSUME X # {} PROVE FALSE
  <2>1. PICK i \in X : \A j \in X : j <= i
    <3>1. X \subseteq 1..(Len(text) + 1) /\ Len(text) + 1 \in Nat  BY <1>0, <1>2
    <3> QED  BY <1>3, <3>1, Extremes
  <2>2. i \in 1..(Len(text) + 1) /\ f[i] # SubSeq(text, i, Len(text))  BY <1>2
  <2>4. i \in Positions /\ i \in Nat /\ i >= 1  BY <1>0, <2>2 DEF Positions
  <2>5. CASE i > Len(text)
    <3>1. f[i] = <<>>  BY <1>1, <2>4, <2>5 DEF Substitutes
    <3>2. SubSeq(text, i, Len(text)) = <<>>  BY <1>0, <2>4, <2>5, SubSeqEmpty
    <3> QED  BY <2>2, <3>1, <3>2
  <2>6. CASE i <= Len(text)
    <3>1. PICK e : e = WordEnd(text, i)  OBVIOUS
    <3>2. e \in Positions /\ i < e /\ e <= Len(text) + 1 /\ e \in Nat
      BY <2>4, <2>6, <3>1, WordIs DEF Positions
    <3>3. Chunk(text, params, <<>>, i) = SubSeq(text, i, e - 1)
      <4>1. {k \in 1..Len(<<>>) : params[k] = Word(text, i)} = {}  OBVIOUS
      <4> QED  BY <3>1, <4>1 DEF Chunk, Word, Piece
    <3>4. f[i] = SubSeq(text, i, e - 1) \o f[e]
      <4>1. ~(i > Len(text))  BY <1>0, <2>4, <2>6
      <4> QED  BY <1>1, <2>4, <3>1, <3>3, <4>1 DEF Substitutes
    <3>5. f[e] = SubSeq(text, e, Len(text))
      <4>1. e \in 1..(Len(text) + 1) /\ ~(e <= i)  BY <1>0, <2>4, <3>2
      <4>2. e \notin X  BY <2>1, <4>1
      <4> QED  BY <1>2, <4>1, <4>2
    <3>6. SubSeq(text, i, e - 1) \o SubSeq(text, e, Len(text)) = SubSeq(text, i, Len(text))
      <4>1. PICK d : d = e - 1  OBVIOUS
      <4>2. d + 1 = e /\ d \in i..Len(text) /\ i \in 1..Len(text) /\ d \in Nat  BY <1>0, <2>4, <2>6, <3>2, <4>1
      <4>3. /\ i \in 1..(Len(text) + 1) /\ d \in (i - 1)..Len(text) /\ Len(text) \in d..Len(text)
        BY <1>0, <2>4, <4>2
      <4>4. SubSeq(text, i, d) \o SubSeq(text, d + 1, Len(text)) = SubSeq(text, i, Len(text))
        BY <4>3, ConcatAdjacentSubSeq
      <4> QED  BY <4>1, <4>2, <4>4
    <3> QED  BY <2>2, <3>4, <3>5, <3>6
  <2> QED  BY <1>0, <2>4, <2>5, <2>6
<1>4. f[1] = SubSeq(text, 1, Len(text))
  <2>1. 1 \in 1..(Len(text) + 1)  BY <1>0
  <2> QED  BY <1>2, <1>3, <2>1
<1> QED  BY <1>1, <1>4, SubSeqFull

LEMMA OneByOne ==
  ASSUME NEW S, NEW text \in Seq(S), NEW params, NEW args \in Seq(Seq(S)), Named(params, Len(args)),
         \A k \in 1..Len(args) : Spared(args, params[k], k)
  PROVE  Substitute(text, params, args, Len(args)) = Substituted(text, params, args)
<1> DEFINE n == Len(args)
           E(g) == [k \in 0..n |-> IF k = 0 THEN text ELSE Replace(g[k - 1], params[k], args[k])]
           first(k) == SubSeq(args, 1, k)
           u == [k \in 0..n |-> Substituted(text, params, first(k))]
<1>m. \A k \in Nat \ {0} : \A a, b \in Seq(Seq(S)) :
         Named(params, k) /\ OneMoreThan(a, b, k) /\ Spared(a, params[k], k)
         => Replace(Substituted(text, params, a), params[k], b[k]) = Substituted(text, params, b)
  BY OneMore
<1>0. n \in Nat  OBVIOUS
<1>1. \A k \in 0..n : /\ first(k) \in Seq(Seq(S)) /\ Len(first(k)) = k
                      /\ \A j \in 1..k : first(k)[j] = args[j]
  <2> TAKE k \in 0..n
  <2>1. \A i \in 1..k : args[i] \in Seq(S)  BY <1>0
  <2>2. k \in Int /\ 1 \in Int /\ k - 1 + 1 = k /\ (~(1 <= k) => k = 0)  BY <1>0
  <2>3. /\ first(k) \in Seq(Seq(S)) /\ Len(first(k)) = IF 1 <= k THEN k - 1 + 1 ELSE 0
        /\ \A i \in 1..(k - 1 + 1) : first(k)[i] = args[1 + i - 1]
    BY <2>1, <2>2, SubSeqProperties
  <2>4. \A i \in 1..k : 1 + i - 1 = i  OBVIOUS
  <2> QED  BY <2>2, <2>3, <2>4
<1>2. u[0] = text
  <2>1. first(0) = <<>> /\ 0 \in 0..n  BY <1>0, SubSeqEmpty
  <2> QED  BY <2>1, NoneYet
<1>3. \A k \in 1..n : u[k] = Replace(u[k - 1], params[k], args[k])
  <2> TAKE k \in 1..n
  <2>1. k \in 0..n /\ k - 1 \in 0..n /\ k \in Nat \ {0} /\ k \in 1..k  BY <1>0
  <2>2. PICK a, b : a = first(k - 1) /\ b = first(k)  OBVIOUS
  <2>3. /\ a \in Seq(Seq(S)) /\ Len(a) = k - 1 /\ \A j \in 1..(k - 1) : a[j] = args[j]
        /\ b \in Seq(Seq(S)) /\ Len(b) = k /\ \A j \in 1..k : b[j] = args[j]
    <3> HIDE DEF first
    <3> QED  BY <1>1, <2>1, <2>2
  <2>4. OneMoreThan(a, b, k)
    <3>1. \A j \in 1..(k - 1) : j \in 1..k  BY <2>1
    <3> QED  BY <2>3, <3>1 DEF OneMoreThan
  <2>5. Spared(a, params[k], k)
    <3>1. Spared(args, params[k], k)  OBVIOUS
    <3> QED  BY <2>3, <3>1 DEF Spared
  <2>6. Named(params, k)
    <3>1. \A j \in 1..k : j \in 1..n  BY <1>0
    <3> QED  BY <3>1 DEF Named
  <2>7. Replace(Substituted(text, params, a), params[k], b[k]) = Substituted(text, params, b)
    BY <1>m, <2>1, <2>3, <2>4, <2>5, <2>6
  <2> QED  BY <2>1, <2>2, <2>3, <2>7
<1> HIDE DEF first
<1>4. u = E(u)
  <2>1. \A k \in 0..n : k = 0 \/ k \in 1..n  BY <1>0
  <2> HIDE DEF n
  <2> QED  BY <1>2, <1>3, <2>1
<1>5. PICK W : W = CHOOSE g : g = E(g)  OBVIOUS
<1>6. W = E(W)
  <2> HIDE DEF E, u
  <2> QED  BY <1>4, <1>5
<1>7. Substitute(text, params, args, n) = W[n]
  BY <1>5 DEF Substitute
<1>8. PICK X : X = {k \in 0..n : W[k] # u[k]}  OBVIOUS
<1>9. ASSUME X # {} PROVE FALSE
  <2>1. PICK k \in X : \A j \in X : k <= j
    <3>1. X \subseteq Nat  BY <1>0, <1>8
    <3> QED  BY <1>9, <3>1, MinIsFirst
  <2>2. k \in 0..n /\ W[k] # u[k]  BY <1>8
  <2>3. CASE k = 0  BY <1>0, <1>2, <1>6, <2>2, <2>3
  <2>4. CASE k # 0
    <3>1. k - 1 \in 0..n /\ ~(k <= k - 1) /\ k \in 1..n  BY <1>0, <2>2, <2>4
    <3>2. W[k - 1] = u[k - 1]
      <4>1. k - 1 \notin X  BY <2>1, <3>1
      <4> QED  BY <1>8, <3>1, <4>1
    <3>3. W[k] = Replace(W[k - 1], params[k], args[k])
      <4> HIDE DEF n
      <4> QED  BY <1>6, <2>2, <2>4
    <3> HIDE DEF u
    <3> QED  BY <1>3, <2>2, <3>1, <3>2, <3>3
  <2> QED  BY <2>3, <2>4
<1>10. W[n] = u[n]
  <2>1. n \in 0..n  BY <1>0
  <2> HIDE DEF u, n
  <2> QED  BY <1>8, <1>9, <2>1
<1>11. u[n] = Substituted(text, params, args)
  <2>1. first(n) = args  BY SubSeqFull DEF first
  <2>2. n \in 0..n  BY <1>0
  <2> QED  BY <2>1, <2>2
<1> QED  BY <1>7, <1>10, <1>11

LEMMA SubstitutedType ==
  ASSUME NEW S, NEW text \in Seq(S), NEW params, NEW args \in Seq(Seq(S))
  PROVE  Substituted(text, params, args) \in Seq(S)
<1>1. \A t \in Seq(S) : \A ps : \A as \in Seq(Seq(S)) :
         \E h \in [Positions -> Seq(S)] : Substitutes(h, t, ps, as) /\ Substituted(t, ps, as) = h[1]
  BY SubstitutedIs
<1>2. 1 \in Positions  BY DEF Positions
<1> QED  BY <1>1, <1>2

LEMMA CallIs ==
  ASSUME NEW text, Len(text) \in Nat, NEW i \in Positions, i <= Len(text) + 1
  PROVE  /\ CallEnd(text, i) \in Positions /\ i <= CallEnd(text, i) /\ CallEnd(text, i) <= Len(text) + 1
         /\ CallCloses(text, i) # {} => i < CallEnd(text, i)
<1>0. i \in Nat /\ i >= 1  BY DEF Positions
<1>1. PICK K : K = {j + 1 : j \in CallCloses(text, i)} \cup {Len(text) + 1}  OBVIOUS
<1>2. \A j \in CallCloses(text, i) : j \in i..Len(text)  BY DEF CallCloses
<1>3. K \subseteq Nat /\ K # {} /\ \A k \in K : i <= k /\ k >= 1
  BY <1>0, <1>1, <1>2
<1>4. Min(K) \in K /\ \A k \in K : Min(K) <= k  BY <1>3, MinIsFirst
<1>5. Min(K) <= Len(text) + 1  BY <1>1, <1>4
<1>6. ASSUME CallCloses(text, i) # {} PROVE i < Min(K)
  <2>1. PICK j \in CallCloses(text, i) : TRUE  BY <1>6
  <2>2. \A k \in K : i < k  BY <1>0, <1>1, <1>2, <2>1
  <2> QED  BY <1>4, <2>2
<1>7. CallEnd(text, i) = Min(K)  BY <1>1 DEF CallEnd
<1>8. Min(K) \in Positions /\ i <= Min(K)
  <2>1. Min(K) \in Nat /\ i <= Min(K) /\ Min(K) >= 1  BY <1>3, <1>4
  <2> QED  BY <2>1 DEF Positions
<1> QED  BY <1>5, <1>6, <1>7, <1>8

LEMMA GivenType ==
  ASSUME NEW S, NEW text \in Seq(S), NEW end \in Positions, end <= Len(text),
         NEW m, Len(m.params) \in Nat
  PROVE  /\ Given(m, text, end) \in Seq(Seq(S)) /\ Len(Given(m, text, end)) <= Len(m.params)
<1>1. PICK c : c = CallEnd(text, end + 1)  OBVIOUS
<1>2. end + 1 \in Positions /\ end + 1 <= Len(text) + 1 /\ Len(text) \in Nat /\ end \in Nat  BY DEF Positions
<1>3. c \in Positions /\ end + 1 <= c /\ c <= Len(text) + 1  BY <1>1, <1>2, CallIs
<1>4. PICK d : d = c - 1  OBVIOUS
<1>5. d \in Nat /\ d <= Len(text) + 1  BY <1>2, <1>3, <1>4 DEF Positions
<1>6. Piece(text, end + 1, d) \in Seq(S)  BY <1>2, <1>5, PieceType
<1>7. PICK a : a = Piece(text, end + 1, d)  OBVIOUS
<1>8. PICK n : n = Len(m.params)  OBVIOUS
<1>9. ArgumentsUsed(a, n) \in Seq(Seq(S)) /\ Len(ArgumentsUsed(a, n)) <= n
  BY <1>6, <1>7, <1>8, ArgumentsType
<1> QED  BY <1>1, <1>4, <1>7, <1>8, <1>9 DEF Given

LEMMA BodyType ==
  ASSUME NEW S, S \subseteq Units, NEW text \in Seq(S), NEW end \in Positions,
         NEW m \in MacroOver(S)
  PROVE  Body(m, text, end) \in Seq(S)
<1>0. m.text \in Seq(S) /\ m.params \in Seq(Seq(S)) /\ Len(m.params) \in Nat /\ end \in Nat /\ Len(text) \in Nat
  BY DEF MacroOver, Positions
<1>1. Trim(m.text) \in Seq(S)  BY <1>0, TrimType
<1>2. ASSUME Is(text, end, "(") PROVE Trimmed[Substituted(m.text, m.params, Given(m, text, end))] \in Seq(S)
  <2>1. end <= Len(text)  BY <1>0, <1>2 DEF Is
  <2>2. Given(m, text, end) \in Seq(Seq(S))  BY <1>0, <2>1, GivenType
  <2>3. Substituted(m.text, m.params, Given(m, text, end)) \in Seq(S)  BY <1>0, <2>2, SubstitutedType
  <2> QED  BY <2>3, TrimmedType
<1> QED  BY <1>0, <1>1, <1>2 DEF Body

(* A call that may be expanded becomes the body of its substitution.       *)
LEMMA ExpandedIsBody ==
  ASSUME NEW S, S \subseteq Units, NEW text \in Seq(S), NEW end \in Positions, NEW m \in MacroOver(S),
         m.parametric, Is(text, end, "("), Apart(m, text, end),
         NEW args, ~Loops(m, args, Given(m, text, end))
  PROVE  Expanded(m, Given(m, text, end)) = Body(m, text, end)
<1>0. /\ m.text \in Seq(S) /\ m.params \in Seq(Seq(S)) /\ Len(m.params) \in Nat
      /\ end \in Nat /\ Len(text) \in Nat
  BY DEF MacroOver, Positions
<1>1. CASE m.params = <<>>  BY <1>1 DEF Expanded, Body
<1>2. CASE m.params # <<>>
  <2>1. PICK given : given = Given(m, text, end)  OBVIOUS
  <2>2. end <= Len(text)  BY <1>0 DEF Is
  <2>3. given \in Seq(Seq(S)) /\ Len(given) <= Len(m.params) /\ Len(given) \in Nat
    <3>1. given \in Seq(Seq(S)) /\ Len(given) <= Len(m.params)  BY <1>0, <2>1, <2>2, GivenType
    <3> QED  BY <3>1
  <2>4. \A k \in 1..Len(given) : m.params[k] # <<>>
    BY <2>1 DEF Loops
  <2>5. \A k \in 1..Len(given) :
              /\ ToSet(m.params[k]) \subseteq Joining
              /\ \A n \in (k + 1)..Len(given), i \in 1..Len(given[k]) : ~Whole(given[k], i, m.params[n])
    BY <1>2, <2>1 DEF Apart, Joining
  <2>6. Named(m.params, Len(given))
    <3> SUFFICES ASSUME NEW k \in 1..Len(given) PROVE m.params[k] \in Seq(Joining)  BY <2>4 DEF Named
    <3>1. k \in 1..Len(m.params)  BY <1>0, <2>3
    <3>2. PICK p : p = m.params[k]  OBVIOUS
    <3>3. p \in Seq(S)  BY <1>0, <3>1, <3>2
    <3>4. \A i \in 1..Len(p) : p[i] \in Joining  BY <2>5, <3>2, <3>3 DEF ToSet
    <3>5. p \in Seq(Joining)  BY <3>3, <3>4
    <3> QED  BY <3>2, <3>5
  <2>7. \A k \in 1..Len(given) : Spared(given, m.params[k], k)
    <3> TAKE k \in 1..Len(given)
    <3>1. \A j \in 1..(k - 1) : j \in 1..Len(given) /\ k \in (j + 1)..Len(given)  BY <2>3
    <3> QED  BY <2>5, <3>1 DEF Spared
  <2>8. Substitute(m.text, m.params, given, Len(given)) = Substituted(m.text, m.params, given)
    BY <1>0, <2>3, <2>6, <2>7, OneByOne
  <2>9. Expanded(m, given) = Trimmed[Substitute(m.text, m.params, given, Len(given))]
    BY <1>2 DEF Expanded
  <2>10. Body(m, text, end) = Trimmed[Substituted(m.text, m.params, given)]
    BY <1>2, <2>1 DEF Body
  <2> QED  BY <2>1, <2>8, <2>9, <2>10
<1> QED  BY <1>1, <1>2

-----------------------------------------------------------------------------
(* What a text says is said.                                               *)
Parts(text) == [i \in 1..Len(text) |-> IF text[i] \in Space THEN <<>> ELSE <<text[i]>>]

LEMMA WordsType ==
  ASSUME NEW S, NEW text \in Seq(S) PROVE Words(text) \in Seq(S)
<1>1. \A i \in 1..Len(text) : <<>> \in Seq(S) /\ <<text[i]>> \in Seq(S)  OBVIOUS
<1>2. \A i \in 1..Len(text) : Parts(text)[i] \in Seq(S)  BY <1>1 DEF Parts
<1>3. Parts(text) \in [1..Len(text) -> Seq(S)]  BY <1>2 DEF Parts
<1>4. Parts(text) \in Seq(Seq(S))  BY <1>3
<1>5. Words(text) = FlattenSeq(Parts(text))  BY DEF Words, Parts
<1> QED  BY <1>4, <1>5, FlatType

LEMMA WordsBlank ==
  /\ Words(<<>>) = <<>>
  /\ \A b \in Space : Words(<<b>>) = <<>>
<1>1. Parts(<<>>) = <<>>  BY DEF Parts
<1>2. Words(<<>>) = FlattenSeq(Parts(<<>>))  BY DEF Words, Parts
<1>3. FlattenSeq(<<>>) = <<>>
  <2>1. <<>> \in Seq({})  OBVIOUS
  <2> QED  BY <2>1, FlatOne
<1>4. ASSUME NEW b \in Space PROVE Words(<<b>>) = <<>>
  <2>1. PICK t : t = <<b>>  OBVIOUS
  <2>2. Len(t) = 1 /\ t[1] = b  BY <2>1
  <2>3. PICK g : g = Parts(t)  OBVIOUS
  <2>4. g = << <<>> >>
    <3>1. g = [i \in 1..1 |-> IF t[i] \in Space THEN <<>> ELSE <<t[i]>>]  BY <2>2, <2>3 DEF Parts
    <3>2. \A i \in 1..1 : i = 1  OBVIOUS
    <3>3. g \in [1..1 -> {<<>>}] /\ g[1] = <<>>  BY <1>4, <2>2, <3>1, <3>2
    <3>4. PICK e : e = <<>>  OBVIOUS
    <3>5. g \in [1..1 -> {e}] /\ g[1] = e  BY <3>3, <3>4
    <3>a. PICK n \in Nat : n = 1  OBVIOUS
    <3>b. g \in [1..n -> {e}]  BY <3>5, <3>a
    <3>c. g \in Seq({e}) /\ Len(g) = n  BY <3>b
    <3>6. g \in Seq({e}) /\ Len(g) = 1 /\ g[1] = e  BY <3>5, <3>a, <3>c
    <3>7. g = <<e>>  BY <3>6
    <3> QED  BY <3>4, <3>7
  <2>5. Words(t) = FlattenSeq(g)  BY <2>3 DEF Words, Parts
  <2>6. <<>> \in Seq({})  OBVIOUS
  <2>7. FlattenSeq(<< <<>> >>) = <<>>  BY <2>6, FlatOne
  <2> QED  BY <2>1, <2>4, <2>5, <2>7
<1> QED  BY <1>1, <1>2, <1>3, <1>4

Meanings == [says : Seq(Units), table : Seq(Macro), apart : BOOLEAN]

(* What f says at p of what it says further on.                            *)
Within(p, f) == IF DefinitionsAt(p) = {} THEN Alone(p, Words(Word(p.text, p.i)))
               ELSE IF Verbatim(BodyAt(p)) THEN Alone(p, Words(BodyAt(p)))
               ELSE IF p.depth = 0 THEN Alone(p, <<>>)
               ELSE f[Place(BodyAt(p), 1, p.table, p.depth - 1)]
Later(p, f) == f[Place(p.text, Behind(p), Within(p, f).table, p.depth)]
Defining(p) == p.text[p.i] = "#" /\ HasBody(p.text, p.i)
Onward(p) == Place(p.text, MacroEnd(p.text, p.i), Append(p.table, Defined(p.text, p.i)), p.depth)
Says(p, f) == IF p.i > Len(p.text) THEN Alone(p, <<>>)
              ELSE IF Defining(p) THEN f[Onward(p)]
              ELSE [says |-> Within(p, f).says \o Later(p, f).says, table |-> Later(p, f).table,
                    apart |-> ApartAt(p) /\ Within(p, f).apart /\ Later(p, f).apart]

Depths == [p \in Places |-> p.depth]
Rooms  == [p \in Places |-> IF p.i > Len(p.text) THEN 0 ELSE Len(p.text) + 1 - p.i]
Lower  == Below(Places, Depths, Rooms)

LEMMA PlaceType ==
  ASSUME NEW text \in Seq(Units), NEW i \in Positions, NEW table \in Seq(Macro), NEW depth \in Nat
  PROVE  /\ Place(text, i, table, depth) \in Places
         /\ Place(text, i, table, depth).text = text /\ Place(text, i, table, depth).i = i
         /\ Place(text, i, table, depth).table = table /\ Place(text, i, table, depth).depth = depth
  BY DEF Place, Places

LEMMA PlaceParts ==
  ASSUME NEW p \in Places
  PROVE  /\ p.text \in Seq(Units) /\ Len(p.text) \in Nat /\ p.i \in Positions /\ p.i \in Nat /\ p.i >= 1
         /\ p.table \in Seq(Macro) /\ p.depth \in Nat
         /\ Place(p.text, p.i, p.table, p.depth) = p
  BY DEF Places, Place, Positions

LEMMA LowerOrders == Orders(Lower, Places)
<1>1. \A p \in Places : p.depth \in Nat /\ p.i \in Nat /\ Len(p.text) \in Nat  BY PlaceParts
<1>2. \A p \in Places : (IF p.i > Len(p.text) THEN 0 ELSE Len(p.text) + 1 - p.i) \in Nat  BY <1>1
<1>3. Depths \in [Places -> Nat] /\ Rooms \in [Places -> Nat]  BY <1>1, <1>2 DEF Depths, Rooms
<1> QED  BY <1>3, BelowOrders DEF Lower

LEMMA Onwards ==
  ASSUME NEW p \in Places, p.i <= Len(p.text), NEW q \in Places,
         \/ q.depth = p.depth /\ q.text = p.text /\ q.i > p.i
         \/ q.depth < p.depth
  PROVE  <<q, p>> \in Lower
<1>1. /\ p.i \in Nat /\ q.i \in Nat /\ Len(p.text) \in Nat
  BY PlaceParts
<1>2. Depths[p] = p.depth /\ Depths[q] = q.depth  BY DEF Depths
<1>3. Rooms[p] = Len(p.text) + 1 - p.i  BY <1>1 DEF Rooms
<1>4. CASE q.depth = p.depth /\ q.text = p.text /\ q.i > p.i
  <2>1. Rooms[q] = IF q.i > Len(p.text) THEN 0 ELSE Len(p.text) + 1 - q.i  BY <1>4 DEF Rooms
  <2>2. Rooms[q] < Rooms[p]  BY <1>1, <1>3, <1>4, <2>1
  <2> QED  BY <1>2, <1>4, <2>2 DEF Lower, Below
<1>5. CASE q.depth < p.depth  BY <1>2, <1>5 DEF Lower, Below
<1> QED  BY <1>4, <1>5

-----------------------------------------------------------------------------
(* What is met at a place, and where it is read on.                        *)
LEMMA MacroHere ==
  ASSUME NEW p \in Places, p.i <= Len(p.text), DefinitionsAt(p) # {}, NEW S, p.table \in Seq(S)
  PROVE  Max(DefinitionsAt(p)) \in 1..Len(p.table) /\ MacroAt(p) \in S
<1>1. DefinitionsAt(p) \subseteq 1..Len(p.table) /\ Len(p.table) \in Nat  BY PlaceParts DEF DefinitionsAt
<1>2. Max(DefinitionsAt(p)) \in DefinitionsAt(p)  BY <1>1, Extremes
<1> QED  BY <1>1, <1>2 DEF MacroAt

LEMMA BehindIs ==
  ASSUME NEW p \in Places, p.i <= Len(p.text)
  PROVE  Behind(p) \in Positions /\ Behind(p) > p.i /\ Behind(p) <= Len(p.text) + 1
<1>0. p.text \in Seq(Units) /\ p.i \in Positions /\ p.i \in Nat /\ Len(p.text) \in Nat  BY PlaceParts
<1>1. PICK e : e = WordEnd(p.text, p.i)  OBVIOUS
<1>2. e \in Positions /\ p.i < e /\ e <= Len(p.text) + 1 /\ e \in Nat
  BY <1>0, <1>1, WordIs DEF Positions
<1>3. CASE Behind(p) = e  BY <1>2, <1>3
<1>4. CASE Is(p.text, e, "(") /\ Behind(p) = CallEnd(p.text, e + 1)
  <2>1. e <= Len(p.text)  BY <1>4 DEF Is
  <2>2. e + 1 \in Positions /\ e + 1 <= Len(p.text) + 1  BY <1>0, <1>2, <2>1 DEF Positions
  <2>3. /\ CallEnd(p.text, e + 1) \in Positions /\ e + 1 <= CallEnd(p.text, e + 1)
        /\ CallEnd(p.text, e + 1) <= Len(p.text) + 1
    BY <1>0, <2>2, CallIs
  <2>4. CallEnd(p.text, e + 1) > p.i
    <3>1. CallEnd(p.text, e + 1) \in Nat  BY <2>3 DEF Positions
    <3> QED  BY <1>0, <1>2, <2>3, <3>1
  <2> QED  BY <1>4, <2>3, <2>4
<1> QED  BY <1>1, <1>3, <1>4 DEF Behind, After

LEMMA MacroEndIs ==
  ASSUME NEW text, Len(text) \in Nat, NEW i \in Positions, i <= Len(text)
  PROVE  MacroEnd(text, i) \in Positions /\ MacroEnd(text, i) > i
<1>0. i \in Nat /\ i >= 1  BY DEF Positions
<1>1. PICK K : K = {j + 1 : j \in BodyCloses(text, i)} \cup {Len(text) + 1}  OBVIOUS
<1>2. \A j \in BodyCloses(text, i) : j \in i..Len(text)  BY DEF BodyCloses
<1>3. K \subseteq Nat /\ K # {} /\ \A k \in K : k > i /\ k >= 1
  BY <1>0, <1>1, <1>2
<1>4. Min(K) \in K  BY <1>3, MinIsFirst
<1>5. Min(K) \in Nat /\ Min(K) > i /\ Min(K) >= 1  BY <1>3, <1>4
<1>6. MacroEnd(text, i) = Min(K)  BY <1>1 DEF MacroEnd
<1> QED  BY <1>5, <1>6 DEF Positions

LEMMA MacroIs == Macro = MacroOver(Units)  BY DEF Macro, MacroOver

LEMMA InnerType ==
  ASSUME NEW f \in [Places -> Meanings], NEW p \in Places, p.i <= Len(p.text)
  PROVE  /\ Within(p, f) \in Meanings
         /\ DefinitionsAt(p) # {} /\ p.depth # 0 =>
               Place(BodyAt(p), 1, p.table, p.depth - 1) \in Places
<1>0. /\ p.text \in Seq(Units) /\ p.i \in Positions /\ p.i \in Nat /\ Len(p.text) \in Nat
      /\ p.table \in Seq(Macro) /\ p.depth \in Nat /\ 1 \in Positions
  BY PlaceParts DEF Positions
<1>1. ASSUME NEW says \in Seq(Units) PROVE Alone(p, says) \in Meanings
  BY <1>0, <1>1 DEF Alone, Meanings
<1>2. Words(Word(p.text, p.i)) \in Seq(Units)
  <2>1. Word(p.text, p.i) \in Seq(Units)  BY <1>0, WordIs
  <2> QED  BY <2>1, WordsType
<1>3. ASSUME DefinitionsAt(p) # {} PROVE BodyAt(p) \in Seq(Units) /\ Words(BodyAt(p)) \in Seq(Units)
  <2>1. MacroAt(p) \in MacroOver(Units)  BY <1>0, <1>3, MacroHere, MacroIs
  <2>2. WordEnd(p.text, p.i) \in Positions  BY <1>0, WordIs
  <2>3. Units \subseteq Units  OBVIOUS
  <2>4. Body(MacroAt(p), p.text, WordEnd(p.text, p.i)) \in Seq(Units)
    BY <1>0, <2>1, <2>2, <2>3, BodyType
  <2> QED  BY <2>4, WordsType DEF BodyAt
<1>4. ASSUME DefinitionsAt(p) # {}, p.depth # 0
      PROVE  Place(BodyAt(p), 1, p.table, p.depth - 1) \in Places
  <2>1. p.depth - 1 \in Nat  BY <1>0, <1>4
  <2> QED  BY <1>0, <1>3, <1>4, <2>1, PlaceType
<1>5. <<>> \in Seq(Units)  OBVIOUS
<1>6. Within(p, f) \in Meanings
  BY <1>1, <1>2, <1>3, <1>4, <1>5 DEF Within
<1> QED  BY <1>4, <1>6

LEMMA LaterType ==
  ASSUME NEW f \in [Places -> Meanings], NEW p \in Places, p.i <= Len(p.text)
  PROVE  /\ Place(p.text, Behind(p), Within(p, f).table, p.depth) \in Places
         /\ Later(p, f) \in Meanings
<1>0. /\ p.text \in Seq(Units) /\ p.depth \in Nat  BY PlaceParts
<1>1. Within(p, f).table \in Seq(Macro)  BY InnerType DEF Meanings
<1>2. Behind(p) \in Positions  BY BehindIs
<1>3. Place(p.text, Behind(p), Within(p, f).table, p.depth) \in Places  BY <1>0, <1>1, <1>2, PlaceType
<1> QED  BY <1>3 DEF Later

LEMMA OnwardType ==
  ASSUME NEW p \in Places, p.i <= Len(p.text)
  PROVE  Onward(p) \in Places /\ <<Onward(p), p>> \in Lower
<1>0. /\ p.text \in Seq(Units) /\ p.i \in Positions /\ p.i \in Nat /\ Len(p.text) \in Nat
      /\ p.table \in Seq(Macro) /\ p.depth \in Nat
  BY PlaceParts
<1>1. MacroEnd(p.text, p.i) \in Positions /\ MacroEnd(p.text, p.i) > p.i  BY <1>0, MacroEndIs
<1>2. Defined(p.text, p.i) \in Macro  BY <1>0, DefinedType, MacroIs
<1>3. Append(p.table, Defined(p.text, p.i)) \in Seq(Macro)  BY <1>0, <1>2
<1>4. /\ Onward(p) \in Places /\ Onward(p).text = p.text /\ Onward(p).i = MacroEnd(p.text, p.i)
      /\ Onward(p).depth = p.depth
  <2>1. PICK e, t : e = MacroEnd(p.text, p.i) /\ t = Append(p.table, Defined(p.text, p.i))  OBVIOUS
  <2>2. e \in Positions /\ t \in Seq(Macro)  BY <1>1, <1>3, <2>1
  <2>3. Onward(p) = Place(p.text, e, t, p.depth)  BY <2>1 DEF Onward
  <2>4. \A x \in Seq(Units), d \in Nat :
           /\ Place(x, e, t, d) \in Places /\ Place(x, e, t, d).text = x
           /\ Place(x, e, t, d).i = e /\ Place(x, e, t, d).depth = d
    BY <2>2, PlaceType
  <2> QED  BY <1>0, <2>1, <2>3, <2>4
<1>5. Onward(p).i > p.i  BY <1>1, <1>4
<1> QED  BY <1>4, <1>5, Onwards

LEMMA SaysType ==
  ASSUME NEW f \in [Places -> Meanings], NEW p \in Places
  PROVE  Says(p, f) \in Meanings
<1>0. p.table \in Seq(Macro) /\ p.i \in Nat /\ Len(p.text) \in Nat  BY PlaceParts
<1>1. CASE p.i > Len(p.text)
  <2>1. Alone(p, <<>>) \in Meanings  BY <1>0 DEF Alone, Meanings
  <2> QED  BY <1>1, <2>1 DEF Says
<1>2. CASE p.i <= Len(p.text)
  <2>1. Onward(p) \in Places  BY <1>2, OnwardType
  <2>2. Within(p, f) \in Meanings /\ Later(p, f) \in Meanings  BY <1>2, InnerType, LaterType
  <2>3. PICK a, b : a = Within(p, f) /\ b = Later(p, f)  OBVIOUS
  <2>4. /\ a.says \in Seq(Units) /\ b.says \in Seq(Units) /\ b.table \in Seq(Macro)
        /\ a.apart \in BOOLEAN /\ b.apart \in BOOLEAN
    BY <2>2, <2>3 DEF Meanings
  <2>5. a.says \o b.says \in Seq(Units) /\ (ApartAt(p) /\ a.apart /\ b.apart) \in BOOLEAN  BY <2>4
  <2>6. [says |-> a.says \o b.says, table |-> b.table, apart |-> ApartAt(p) /\ a.apart /\ b.apart] \in Meanings
    BY <2>4, <2>5 DEF Meanings
  <2>7. ~(p.i > Len(p.text))  BY <1>0, <1>2
  <2> QED  BY <2>1, <2>3, <2>6, <2>7 DEF Says
<1> QED  BY <1>0, <1>1, <1>2

LEMMA SaysLooks ==
  ASSUME NEW f \in [Places -> Meanings], NEW g, NEW p \in Places,
         \A q \in Places : <<q, p>> \in Lower => f[q] = g[q]
  PROVE  Says(p, f) = Says(p, g)
<1>0. p.i \in Nat /\ Len(p.text) \in Nat /\ p.text \in Seq(Units) /\ p.depth \in Nat /\ p.table \in Seq(Macro)
  BY PlaceParts
<1>1. CASE p.i > Len(p.text)  BY <1>1 DEF Says
<1>2. CASE p.i <= Len(p.text)
  <2>1. f[Onward(p)] = g[Onward(p)]  BY <1>2, OnwardType
  <2>2. Within(p, f) = Within(p, g)
    <3>1. CASE DefinitionsAt(p) = {} \/ Verbatim(BodyAt(p)) \/ p.depth = 0
      BY <3>1 DEF Within
    <3>2. CASE DefinitionsAt(p) # {} /\ ~Verbatim(BodyAt(p)) /\ p.depth # 0
      <4>1. PICK q : q = Place(BodyAt(p), 1, p.table, p.depth - 1)  OBVIOUS
      <4>2. q \in Places  BY <1>2, <3>2, <4>1, InnerType
      <4>3. q.depth = p.depth - 1  BY <4>1 DEF Place
      <4>4. q.depth < p.depth  BY <1>0, <4>3
      <4>5. <<q, p>> \in Lower  BY <1>2, <4>2, <4>4, Onwards
      <4>6. f[q] = g[q]  BY <4>2, <4>5
      <4> QED  BY <3>2, <4>1, <4>6 DEF Within
    <3> QED  BY <3>1, <3>2
  <2>3. Later(p, f) = Later(p, g)
    <3>1. PICK q : q = Place(p.text, Behind(p), Within(p, f).table, p.depth)  OBVIOUS
    <3>2. q \in Places  BY <1>2, <3>1, LaterType
    <3>3. q.depth = p.depth /\ q.text = p.text /\ q.i = Behind(p)  BY <3>1 DEF Place
    <3>4. q.i > p.i  BY <1>2, <3>3, BehindIs
    <3>5. <<q, p>> \in Lower  BY <1>2, <3>2, <3>3, <3>4, Onwards
    <3>6. f[q] = g[q]  BY <3>2, <3>5
    <3> QED  BY <2>2, <3>1, <3>6 DEF Later
  <2> QED  BY <2>1, <2>2, <2>3 DEF Says
<1> QED  BY <1>0, <1>1, <1>2

LEMMA MeaningIs ==
  /\ Meaning \in [Places -> Meanings]
  /\ \A p \in Places : Meaning[p] = Says(p, Meaning)
<1> DEFINE V == Meanings
           H == [p \in Places |-> [f \in [Places -> V] |-> Says(p, f)]]
           E(g) == [p \in Places |-> Says(p, g)]
<1>1. Looks(Places, V, Lower, H)
  <2>1. \A f \in [Places -> V], p \in Places : H[p][f] = Says(p, f)  OBVIOUS
  <2>2. \A f \in [Places -> V], p \in Places : Says(p, f) \in V  BY SaysType
  <2>3. \A f, g \in [Places -> V], p \in Places :
           (\A q \in Places : <<q, p>> \in Lower => f[q] = g[q]) => Says(p, f) = Says(p, g)
    BY SaysLooks
  <2> HIDE DEF V, H
  <2> QED  BY <2>1, <2>2, <2>3 DEF Looks
<1>2. V # {}
  <2>1. [says |-> <<>>, table |-> <<>>, apart |-> TRUE] \in V  BY DEF Meanings
  <2> QED  BY <2>1
<1>3. Solvable(Places, V, H)
  <2> HIDE DEF V, H
  <2> QED  BY <1>1, <1>2, LowerOrders, Recursion
<1>4. PICK f \in [Places -> V] : \A p \in Places : f[p] = H[p][f]
  <2> HIDE DEF V, H
  <2> QED  BY <1>3 DEF Solvable
<1>5. \A p \in Places : f[p] = Says(p, f)  BY <1>4
<1>6. f = E(f)  BY <1>5
<1>7. Meaning = CHOOSE g : g = E(g)
  BY DEF Meaning, Says, Within, Later, Defining, Onward
<1>8. Meaning = E(Meaning)
  <2> HIDE DEF E
  <2> QED  BY <1>6, <1>7
<1>9. \A p \in Places : Meaning[p] = Says(p, Meaning)
  <2>1. PICK M : M = Meaning  OBVIOUS
  <2>2. M = [p \in Places |-> Says(p, M)]  BY <1>8, <2>1
  <2>3. \A p \in Places : M[p] = Says(p, M)  BY <2>2
  <2> QED  BY <2>1, <2>3
<1>10. ASSUME NEW M, M = [p \in Places |-> Says(p, M)] PROVE M = f
  <2> DEFINE T == {p \in Places : M[p] # f[p]}
  <2>0. \A p \in Places : M[p] = Says(p, M)  BY <1>10
  <2>1. ASSUME T # {} PROVE FALSE
    <3>1. T \subseteq Places  OBVIOUS
    <3>2. PICK p \in T : \A q \in T : <<q, p>> \notin Lower
      <4> HIDE DEF T
      <4> QED  BY <2>1, <3>1, LowerOrders DEF Orders
    <3>3. \A q \in Places : <<q, p>> \in Lower => f[q] = M[q]  BY <3>2
    <3>4. Says(p, f) = Says(p, M)  BY <3>1, <3>2, <3>3, SaysLooks
    <3>5. M[p] = f[p]  BY <1>5, <2>0, <3>1, <3>2, <3>4
    <3> QED  BY <3>2, <3>5
  <2>2. \A p \in Places : M[p] = f[p]  BY <2>1
  <2>3. M = [p \in Places |-> M[p]]
    <3>1. PICK G : G = [p \in Places |-> Says(p, M)]  OBVIOUS
    <3>2. M = G /\ G = [p \in Places |-> G[p]]  BY <1>10, <3>1
    <3> QED  BY <3>2
  <2> QED  BY <2>2, <2>3
<1>11. Meaning = f
  <2>1. PICK M : M = Meaning  OBVIOUS
  <2>2. M = [p \in Places |-> Says(p, M)]  BY <1>8, <2>1
  <2> QED  BY <1>10, <2>1, <2>2
<1> QED  BY <1>9, <1>11

-----------------------------------------------------------------------------
(* What tokens say.                                                        *)
SoundTokens(toks) == toks \in Seq(ToSet(toks)) /\ \A k \in 1..Len(toks) : "text" \in DOMAIN toks[k] /\ toks[k].text \in Seq(Units)
Tellings(toks) == [k \in 1..Len(toks) |-> Words(toks[k].text)]
Saying(toks)   == FlattenSeq([k \in 1..Len(toks) |-> Words(toks[k].text)])

LEMMA TellingsType ==
  ASSUME NEW toks, SoundTokens(toks)
  PROVE  /\ Tellings(toks) \in Seq(Seq(Units)) /\ Len(Tellings(toks)) = Len(toks) /\ Len(toks) \in Nat
         /\ \A k \in 1..Len(toks) : Tellings(toks)[k] = Words(toks[k].text)
         /\ Saying(toks) = FlattenSeq(Tellings(toks)) /\ Saying(toks) \in Seq(Units)
<1>1. toks \in Seq(ToSet(toks)) /\ \A k \in 1..Len(toks) : toks[k].text \in Seq(Units)  BY DEF SoundTokens
<1>2. Len(toks) \in Nat  BY <1>1
<1>3. \A k \in 1..Len(toks) : Words(toks[k].text) \in Seq(Units)  BY <1>1, WordsType
<1>4. Tellings(toks) \in [1..Len(toks) -> Seq(Units)]  BY <1>3 DEF Tellings
<1>5. Tellings(toks) \in Seq(Seq(Units)) /\ Len(Tellings(toks)) = Len(toks)  BY <1>2, <1>4
<1>6. Saying(toks) = FlattenSeq(Tellings(toks))  BY DEF Saying, Tellings
<1>7. FlattenSeq(Tellings(toks)) \in Seq(Units)  BY <1>5, FlatType
<1>8. \A k \in 1..Len(toks) : Tellings(toks)[k] = Words(toks[k].text)  BY DEF Tellings
<1> QED  BY <1>2, <1>5, <1>6, <1>7, <1>8

LEMMA SayingJoins ==
  ASSUME NEW a, NEW b, SoundTokens(a), SoundTokens(b)
  PROVE  SoundTokens(a \o b) /\ Saying(a \o b) = Saying(a) \o Saying(b)
<1>1. PICK c : c = a \o b  OBVIOUS
<1>2. PICK S : S = ToSet(a) \cup ToSet(b)  OBVIOUS
<1>3. a \in Seq(S) /\ b \in Seq(S)
  <2>1. a \in Seq(ToSet(a)) /\ b \in Seq(ToSet(b))  BY DEF SoundTokens
  <2>2. ToSet(a) \subseteq S /\ ToSet(b) \subseteq S  BY <1>2
  <2> QED  BY <2>1, <2>2
<1>4. /\ c \in Seq(S) /\ Len(c) = Len(a) + Len(b) /\ Len(a) \in Nat /\ Len(b) \in Nat
      /\ \A k \in 1..Len(a) : c[k] = a[k]
      /\ \A k \in 1..Len(b) : c[Len(a) + k] = b[k]
  BY <1>1, <1>3
<1>5. SoundTokens(c)
  <2>1. c \in Seq(ToSet(c))
    <3>1. c \in [1..Len(c) -> ToSet(c)]  BY <1>4 DEF ToSet
    <3>2. Len(c) \in Nat  BY <1>4
    <3> QED  BY <3>1, <3>2
  <2>2. ASSUME NEW k \in 1..Len(c) PROVE "text" \in DOMAIN c[k] /\ c[k].text \in Seq(Units)
    <3>1. CASE k \in 1..Len(a)  BY <1>4, <3>1 DEF SoundTokens
    <3>2. CASE k \notin 1..Len(a)
      <4>1. PICK j \in 1..Len(b) : k = Len(a) + j
        <5>1. k - Len(a) \in 1..Len(b) /\ k = Len(a) + (k - Len(a))  BY <1>4, <3>2
        <5> QED  BY <5>1
      <4> QED  BY <1>4, <4>1 DEF SoundTokens
    <3> QED  BY <3>1, <3>2
  <2> QED  BY <2>1, <2>2 DEF SoundTokens
<1>6. PICK x, y, z : x = Tellings(a) /\ y = Tellings(b) /\ z = Tellings(c)  OBVIOUS
<1>7. /\ x \in Seq(Seq(Units)) /\ Len(x) = Len(a) /\ \A k \in 1..Len(a) : x[k] = Words(a[k].text)
      /\ y \in Seq(Seq(Units)) /\ Len(y) = Len(b) /\ \A k \in 1..Len(b) : y[k] = Words(b[k].text)
      /\ z \in Seq(Seq(Units)) /\ Len(z) = Len(c) /\ \A k \in 1..Len(c) : z[k] = Words(c[k].text)
      /\ Saying(a) = FlattenSeq(x) /\ Saying(b) = FlattenSeq(y) /\ Saying(c) = FlattenSeq(z)
  BY <1>5, <1>6, TellingsType
<1>8. z = x \o y
  <2>1. PICK w : w = x \o y  OBVIOUS
  <2>2. /\ w \in Seq(Seq(Units)) /\ Len(w) = Len(a) + Len(b)
        /\ \A k \in 1..Len(a) : w[k] = x[k]
        /\ \A k \in 1..Len(b) : w[Len(a) + k] = y[k]
    <3>1. x \in Seq(Seq(Units)) /\ y \in Seq(Seq(Units)) /\ Len(x) = Len(a) /\ Len(y) = Len(b)  BY <1>7
    <3>2. PICK V : V = Seq(Units)  OBVIOUS
    <3>3. x \in Seq(V) /\ y \in Seq(V)  BY <3>1, <3>2
    <3>4. /\ w \in Seq(V) /\ Len(w) = Len(x) + Len(y)
          /\ \A k \in 1..Len(x) : w[k] = x[k]
          /\ \A k \in 1..Len(y) : w[Len(x) + k] = y[k]
      BY <2>1, <3>3
    <3> QED  BY <3>1, <3>2, <3>4
  <2>3. ASSUME NEW k \in 1..Len(c) PROVE z[k] = w[k]
    <3>1. CASE k \in 1..Len(a)  BY <1>4, <1>7, <2>2, <3>1
    <3>2. CASE k \notin 1..Len(a)
      <4>1. PICK j \in 1..Len(b) : k = Len(a) + j
        <5>1. k - Len(a) \in 1..Len(b) /\ k = Len(a) + (k - Len(a))  BY <1>4, <3>2
        <5> QED  BY <5>1
      <4> QED  BY <1>4, <1>7, <2>2, <4>1
    <3> QED  BY <3>1, <3>2
  <2>4. Len(z) = Len(w)  BY <1>4, <1>7, <2>2
  <2> QED  BY <1>7, <2>1, <2>2, <2>3, <2>4, SeqEqual
<1>9. FlattenSeq(x \o y) = FlattenSeq(x) \o FlattenSeq(y)  BY <1>7, FlatJoins
<1> QED  BY <1>1, <1>5, <1>7, <1>8, <1>9

LEMMA SayingOne ==
  ASSUME NEW kind, NEW text \in Seq(Units)
  PROVE  /\ SoundTokens(<<>>) /\ Saying(<<>>) = <<>>
         /\ SoundTokens(Found(kind, text)) /\ Saying(Found(kind, text)) = Words(text)
<1>1. SoundTokens(<<>>)
  <2>1. <<>> \in Seq(ToSet(<<>>)) /\ Len(<<>>) = 0  OBVIOUS
  <2> QED  BY <2>1 DEF SoundTokens
<1>2. Saying(<<>>) = <<>>
  <2>1. Tellings(<<>>) = <<>>  BY DEF Tellings
  <2>2. <<>> \in Seq(Units)  OBVIOUS
  <2> QED  BY <1>1, <2>1, <2>2, TellingsType, FlatOne
<1>3. PICK t : t = Token(kind, text, Top.line, Where)  OBVIOUS
<1>4. PICK f : f = <<t>>  OBVIOUS
<1>5. f \in Seq({t}) /\ Len(f) = 1 /\ f[1] = t  BY <1>4
<1>6. t.text = text /\ "text" \in DOMAIN t  BY <1>3 DEF Token
<1>7. \A k \in 1..1 : k = 1  OBVIOUS
<1>8. SoundTokens(f)
  <2>1. f \in [1..Len(f) -> ToSet(f)]  BY <1>5 DEF ToSet
  <2>2. Len(f) \in Nat  BY <1>5
  <2>3. f \in Seq(ToSet(f))  BY <2>1, <2>2
  <2> QED  BY <1>5, <1>6, <1>7, <2>3 DEF SoundTokens
<1>9. PICK g : g = Tellings(f)  OBVIOUS
<1>10. g \in Seq(Seq(Units)) /\ Len(g) = 1 /\ g[1] = Words(text) /\ Saying(f) = FlattenSeq(g)
  BY <1>5, <1>6, <1>8, <1>9, TellingsType
<1>11. g = <<Words(text)>>  BY <1>10
<1>12. Saying(f) = Words(text)
  <2>1. Words(text) \in Seq(Units)  BY WordsType
  <2> QED  BY <1>10, <1>11, <2>1, FlatOne
<1>13. Found(kind, text) = f  BY <1>3, <1>4 DEF Found
<1> QED  BY <1>1, <1>2, <1>8, <1>12, <1>13

LEMMA SayingSame ==
  ASSUME NEW a, SoundTokens(a), NEW b, b \in Seq(ToSet(b)), Len(b) = Len(a),
         \A k \in 1..Len(a) : "text" \in DOMAIN b[k] /\ b[k].text = a[k].text
  PROVE  SoundTokens(b) /\ Saying(b) = Saying(a)
<1>1. SoundTokens(b)  BY DEF SoundTokens
<1>2. Tellings(b) = Tellings(a)  BY DEF Tellings
<1> QED  BY <1>1, <1>2, TellingsType

-----------------------------------------------------------------------------
(* What the calls of lex_source_with_depth have said and are yet to say.   *)
PlainUnits == {u \in Units : Plain(<<u>>)}
SoundCall(f) == f.text \in Seq(PlainUnits) /\ f.i \in Positions /\ SoundTokens(f.toks)
SoundCalls(fr, table) ==
  /\ Len(fr) \in Nat \ {0} /\ Len(fr) <= MaxDepth + 1
  /\ table \in Seq(MacroOver(PlainUnits))
  /\ \A k \in 1..Len(fr) : SoundCall(fr[k])

Depth(k) == MaxDepth + 1 - k
Reads(f, table, d) == Meaning[Place(f.text, f.i, table, d)]

Told(fr, table, whole, R, T) ==
  LET n == Len(fr)
  IN  /\ \A k \in 1..n : R[k].apart
      /\ R[n] = Reads(fr[n], table, Depth(n))
      /\ \A k \in 1..(n - 1) : R[k] = Reads(fr[k], R[k + 1].table, Depth(k))
      /\ T[n] = Saying(fr[n].toks) \o R[n].says
      /\ \A k \in 1..(n - 1) : T[k] = Saying(fr[k].toks) \o (T[k + 1] \o R[k].says)
      /\ T[1] = whole
Tells(fr, table, whole) == \E R \in [Positions -> Meanings], T \in [Positions -> Seq(Units)] :
                              Told(fr, table, whole, R, T)

(* g, with the macros of more, says what f, with those of table, says.     *)
Carries(f, table, g, more, d) ==
  LET a == Reads(f, table, d)
      b == Reads(g, more, d)
  IN  a.apart => /\ b.apart /\ b.table = a.table
                 /\ Saying(g.toks) \o b.says = Saying(f.toks) \o a.says

SameCall(f, g) == g.text = f.text /\ g.i = f.i /\ g.toks = f.toks

LEMMA PlainType ==
  /\ PlainUnits \subseteq Units
  /\ \A S, T : S \subseteq T => Seq(S) \subseteq Seq(T) /\ MacroOver(S) \subseteq MacroOver(T)
  /\ Seq(PlainUnits) \subseteq Seq(Units) /\ Seq(MacroOver(PlainUnits)) \subseteq Seq(Macro)
<1>1. PlainUnits \subseteq Units  BY DEF PlainUnits
<1>2. ASSUME NEW S, NEW T, S \subseteq T PROVE Seq(S) \subseteq Seq(T)  BY <1>2
<1>3. ASSUME NEW S, NEW T, S \subseteq T PROVE MacroOver(S) \subseteq MacroOver(T)
  <2>1. Seq(S) \subseteq Seq(T)  BY <1>2, <1>3
  <2>2. Seq(Seq(S)) \subseteq Seq(Seq(T))  BY <1>2, <2>1
  <2> QED  BY <2>1, <2>2 DEF MacroOver
<1>4. Seq(PlainUnits) \subseteq Seq(Units)  BY <1>1, <1>2
<1>5. MacroOver(PlainUnits) \subseteq Macro  BY <1>1, <1>3, MacroIs
<1>6. Seq(MacroOver(PlainUnits)) \subseteq Seq(Macro)  BY <1>2, <1>5
<1> QED  BY <1>1, <1>2, <1>3, <1>4, <1>6

LEMMA ReadsType ==
  ASSUME NEW f, SoundCall(f), NEW table \in Seq(Macro), NEW d \in Nat
  PROVE  /\ Place(f.text, f.i, table, d) \in Places
         /\ Reads(f, table, d) \in Meanings
<1>1. f.text \in Seq(Units) /\ f.i \in Positions  BY PlainType DEF SoundCall
<1>2. Place(f.text, f.i, table, d) \in Places  BY <1>1, PlaceType
<1>3. \A p \in Places : Meaning[p] \in Meanings  BY MeaningIs
<1> QED  BY <1>2, <1>3 DEF Reads

LEMMA DepthType ==
  ASSUME NEW fr, NEW table, SoundCalls(fr, table), NEW k \in 1..Len(fr)
  PROVE  Depth(k) \in Nat /\ SoundCall(fr[k]) /\ table \in Seq(Macro) /\ Len(fr) \in 1..Len(fr) /\ Len(fr) \in Positions
<1>1. Len(fr) \in Nat \ {0} /\ Len(fr) <= MaxDepth + 1 /\ table \in Seq(MacroOver(PlainUnits)) /\ SoundCall(fr[k])
  BY DEF SoundCalls
<1>2. Depth(k) \in Nat  BY <1>1, DepthAssumption DEF Depth
<1> QED  BY <1>1, <1>2, PlainType DEF Positions

(* The innermost call goes on.                                             *)
LEMMA GoesOn ==
  ASSUME NEW fr, NEW table, SoundCalls(fr, table), NEW whole, Tells(fr, table, whole),
         NEW gr, NEW more, SoundCalls(gr, more), Len(gr) = Len(fr),
         \A k \in 1..(Len(fr) - 1) : SameCall(fr[k], gr[k]),
         Carries(fr[Len(fr)], table, gr[Len(fr)], more, Depth(Len(fr)))
  PROVE  Tells(gr, more, whole)
<1>1. PICK R \in [Positions -> Meanings], T \in [Positions -> Seq(Units)] : Told(fr, table, whole, R, T)
  BY DEF Tells
<1>2. PICK n : n = Len(fr)  OBVIOUS
<1>3. n \in Nat \ {0} /\ n \in 1..n /\ n \in Positions /\ Depth(n) \in Nat /\ more \in Seq(Macro) /\ SoundCall(gr[n])
  <2>1. Len(fr) \in Nat \ {0}  BY DEF SoundCalls
  <2>2. Len(fr) \in 1..Len(gr)  BY <2>1
  <2> QED  BY <1>2, <2>1, <2>2, DepthType DEF Positions
<1>4. PICK b : b = Reads(gr[n], more, Depth(n))  OBVIOUS
<1>5. b \in Meanings  BY <1>3, <1>4, ReadsType
<1>6. /\ \A k \in 1..n : R[k].apart
      /\ R[n] = Reads(fr[n], table, Depth(n))
      /\ \A k \in 1..(n - 1) : R[k] = Reads(fr[k], R[k + 1].table, Depth(k))
      /\ T[n] = Saying(fr[n].toks) \o R[n].says
      /\ \A k \in 1..(n - 1) : T[k] = Saying(fr[k].toks) \o (T[k + 1] \o R[k].says)
      /\ T[1] = whole
  BY <1>1, <1>2 DEF Told
<1>7. b.apart /\ b.table = R[n].table /\ Saying(gr[n].toks) \o b.says = T[n]
  <2>1. R[n].apart  BY <1>3, <1>6
  <2>2. Carries(fr[n], table, gr[n], more, Depth(n))  BY <1>2
  <2> QED  BY <1>4, <1>6, <2>1, <2>2 DEF Carries
<1>8. PICK Q : Q = [R EXCEPT ![n] = b]  OBVIOUS
<1>9. /\ Q \in [Positions -> Meanings] /\ Q[n] = b /\ \A k \in Positions : k # n => Q[k] = R[k]
  BY <1>3, <1>5, <1>8
<1>10. \A k \in 1..n : k \in Positions /\ (k # n => k \in 1..(n - 1))  BY <1>3 DEF Positions
<1>11. \A k \in 1..(n - 1) : k \in 1..n /\ k # n /\ k + 1 \in 1..n  BY <1>3
<1>12. \A k \in 1..n : Q[k].apart /\ Q[k].table = R[k].table
  BY <1>6, <1>7, <1>9, <1>10
<1>13. ASSUME NEW k \in 1..(n - 1)
       PROVE  /\ Q[k] = Reads(gr[k], Q[k + 1].table, Depth(k))
              /\ T[k] = Saying(gr[k].toks) \o (T[k + 1] \o Q[k].says)
  <2>1. Q[k] = R[k] /\ Q[k + 1].table = R[k + 1].table  BY <1>9, <1>10, <1>11, <1>12
  <2>2. SameCall(fr[k], gr[k])  BY <1>2
  <2>3. R[k] = Reads(fr[k], R[k + 1].table, Depth(k)) /\ T[k] = Saying(fr[k].toks) \o (T[k + 1] \o R[k].says)
    BY <1>6
  <2> QED  BY <2>1, <2>2, <2>3 DEF SameCall, Reads
<1>14. Told(gr, more, whole, Q, T)
  <2>1. Len(gr) = n  BY <1>2
  <2> QED  BY <1>4, <1>6, <1>7, <1>9, <1>12, <1>13, <2>1 DEF Told
<1> QED  BY <1>9, <1>14 DEF Tells

LEMMA ReadsEnd ==
  ASSUME NEW f, SoundCall(f), f.i > Len(f.text), NEW table \in Seq(Macro), NEW d \in Nat
  PROVE  LET a == Reads(f, table, d) IN a.says = <<>> /\ a.table = table /\ a.apart
<1>1. PICK p : p = Place(f.text, f.i, table, d)  OBVIOUS
<1>2. p \in Places /\ p.text = f.text /\ p.i = f.i /\ p.table = table
  BY <1>1, ReadsType DEF Place
<1>3. Meaning[p] = Says(p, Meaning)  BY <1>2, MeaningIs
<1>4. Says(p, Meaning) = Alone(p, <<>>)  BY <1>2 DEF Says
<1> QED  BY <1>1, <1>2, <1>3, <1>4 DEF Reads, Alone

(* A further call is entered, for h; f goes on as g.                       *)
Enters(f, table, g, h, d) ==
  LET a == Reads(f, table, d)
      i == Reads(h, table, d - 1)
      b == Reads(g, i.table, d)
  IN  a.apart => i.apart /\ b.apart /\ b.table = a.table /\ a.says = i.says \o b.says

LEMMA GoesIn ==
  ASSUME NEW fr, NEW table, SoundCalls(fr, table), NEW whole, Tells(fr, table, whole),
         NEW gr, SoundCalls(gr, table), Len(gr) = Len(fr) + 1,
         \A k \in 1..(Len(fr) - 1) : SameCall(fr[k], gr[k]),
         gr[Len(fr)].toks = fr[Len(fr)].toks, gr[Len(fr) + 1].toks = <<>>,
         Enters(fr[Len(fr)], table, gr[Len(fr)], gr[Len(fr) + 1], Depth(Len(fr)))
  PROVE  Tells(gr, table, whole)
<1>1. PICK R \in [Positions -> Meanings], T \in [Positions -> Seq(Units)] : Told(fr, table, whole, R, T)
  BY DEF Tells
<1>2. PICK n : n = Len(fr)  OBVIOUS
<1>3. /\ n \in Nat \ {0} /\ n \in 1..n /\ n \in Positions /\ n + 1 \in Positions /\ n + 1 # n
      /\ Depth(n) \in Nat /\ Depth(n + 1) \in Nat /\ Depth(n + 1) = Depth(n) - 1
      /\ table \in Seq(Macro) /\ SoundCall(gr[n]) /\ SoundCall(gr[n + 1])
  <2>1. Len(fr) \in Nat \ {0}  BY DEF SoundCalls
  <2>2. n \in 1..Len(gr) /\ n + 1 \in 1..Len(gr) /\ n \in 1..n /\ n \in Positions /\ n + 1 \in Positions /\ n + 1 # n
    BY <1>2, <2>1 DEF Positions
  <2>3. Depth(n + 1) = Depth(n) - 1  BY <1>2, <2>1, DepthAssumption DEF Depth
  <2> QED  BY <1>2, <2>1, <2>2, <2>3, DepthType
<1>4. PICK i : i = Reads(gr[n + 1], table, Depth(n + 1))  OBVIOUS
<1>5. i \in Meanings  BY <1>3, <1>4, ReadsType
<1>6. PICK b : b = Reads(gr[n], i.table, Depth(n))  OBVIOUS
<1>7. b \in Meanings
  <2>1. i.table \in Seq(Macro)  BY <1>5 DEF Meanings
  <2> QED  BY <1>3, <1>6, <2>1, ReadsType
<1>8. /\ \A k \in 1..n : R[k].apart
      /\ R[n] = Reads(fr[n], table, Depth(n))
      /\ \A k \in 1..(n - 1) : R[k] = Reads(fr[k], R[k + 1].table, Depth(k))
      /\ T[n] = Saying(fr[n].toks) \o R[n].says
      /\ \A k \in 1..(n - 1) : T[k] = Saying(fr[k].toks) \o (T[k + 1] \o R[k].says)
      /\ T[1] = whole
  BY <1>1, <1>2 DEF Told
<1>9. i.apart /\ b.apart /\ b.table = R[n].table /\ R[n].says = i.says \o b.says
  <2>1. R[n].apart  BY <1>3, <1>8
  <2>2. Enters(fr[n], table, gr[n], gr[n + 1], Depth(n))  BY <1>2
  <2> QED  BY <1>3, <1>4, <1>6, <1>8, <2>1, <2>2 DEF Enters
<1>10. PICK Q : Q = [[R EXCEPT ![n] = b] EXCEPT ![n + 1] = i]  OBVIOUS
<1>11. /\ Q \in [Positions -> Meanings] /\ Q[n] = b /\ Q[n + 1] = i
       /\ \A k \in Positions : k # n /\ k # n + 1 => Q[k] = R[k]
  <2>1. PICK P : P = [R EXCEPT ![n] = b]  OBVIOUS
  <2>2. P \in [Positions -> Meanings] /\ P[n] = b /\ \A k \in Positions : k # n => P[k] = R[k]
    BY <1>3, <1>7, <2>1
  <2>3. Q = [P EXCEPT ![n + 1] = i]  BY <1>10, <2>1
  <2> QED  BY <1>3, <1>5, <2>2, <2>3
<1>12. i.says \in Seq(Units) /\ b.says \in Seq(Units)  BY <1>5, <1>7 DEF Meanings
<1>13. PICK V : V = [T EXCEPT ![n + 1] = i.says]  OBVIOUS
<1>14. /\ V \in [Positions -> Seq(Units)] /\ V[n + 1] = i.says
       /\ \A k \in Positions : k # n + 1 => V[k] = T[k]
  BY <1>3, <1>12, <1>13
<1>15. \A k \in 1..(n + 1) : /\ k \in Positions /\ (k # n + 1 => k \in 1..n)
                             /\ (k # n /\ k # n + 1 => k \in 1..(n - 1))
  BY <1>3 DEF Positions
<1>16. \A k \in 1..(n - 1) : k \in 1..n /\ k \in Positions /\ k # n /\ k # n + 1 /\ k + 1 \in 1..n /\ k + 1 # n + 1
  BY <1>3 DEF Positions
<1>17. \A k \in 1..(n + 1) : Q[k].apart
  <2> TAKE k \in 1..(n + 1)
  <2>1. CASE k = n \/ k = n + 1  BY <1>9, <1>11, <2>1
  <2>2. CASE k # n /\ k # n + 1  BY <1>8, <1>11, <1>15, <1>16, <2>2
  <2> QED  BY <2>1, <2>2
<1>18. \A k \in 1..n : Q[k].table = R[k].table /\ V[k] = T[k]
  <2> TAKE k \in 1..n
  <2>0. k \in 1..(n + 1) /\ k # n + 1 /\ k \in Positions  BY <1>3 DEF Positions
  <2>1. CASE k = n  BY <1>9, <1>11, <1>14, <2>0, <2>1
  <2>2. CASE k # n  BY <1>11, <1>14, <2>0, <2>2
  <2> QED  BY <2>1, <2>2
<1>19. ASSUME NEW k \in 1..n
       PROVE  /\ Q[k] = Reads(gr[k], Q[k + 1].table, Depth(k))
              /\ V[k] = Saying(gr[k].toks) \o (V[k + 1] \o Q[k].says)
  <2>1. CASE k = n
    <3>1. V[n] = Saying(fr[n].toks) \o (i.says \o b.says)  BY <1>3, <1>8, <1>9, <1>18
    <3>2. gr[n].toks = fr[n].toks  BY <1>2
    <3> QED  BY <1>6, <1>11, <1>14, <2>1, <3>1, <3>2
  <2>2. CASE k # n
    <3>0. k \in 1..(n - 1)  BY <1>3, <2>2
    <3>1. Q[k] = R[k] /\ Q[k + 1].table = R[k + 1].table /\ V[k] = T[k] /\ V[k + 1] = T[k + 1]
      BY <1>11, <1>16, <1>18, <3>0
    <3>2. SameCall(fr[k], gr[k])  BY <1>2, <3>0
    <3>3. R[k] = Reads(fr[k], R[k + 1].table, Depth(k)) /\ T[k] = Saying(fr[k].toks) \o (T[k + 1] \o R[k].says)
      BY <1>8, <3>0
    <3> QED  BY <3>1, <3>2, <3>3 DEF SameCall, Reads
  <2> QED  BY <2>1, <2>2
<1>20. V[n + 1] = Saying(gr[n + 1].toks) \o Q[n + 1].says
  <2>1. Saying(<<>>) = <<>>
    <3>1. <<>> \in Seq(Units)  OBVIOUS
    <3> QED  BY <3>1, SayingOne
  <2>2. gr[n + 1].toks = <<>>  BY <1>2
  <2>3. <<>> \o i.says = i.says  BY <1>12
  <2> QED  BY <1>11, <1>14, <2>1, <2>2, <2>3
<1>21. V[1] = whole
  <2>1. 1 \in 1..n  BY <1>3
  <2> QED  BY <1>8, <1>18, <2>1
<1>22. Told(gr, table, whole, Q, V)
  <2>0. PICK m : m = Len(gr)  OBVIOUS
  <2>1. m = n + 1 /\ m - 1 = n  BY <1>2, <1>3, <2>0
  <2>2. \A k \in 1..m : Q[k].apart  BY <1>17, <2>1
  <2>3. Q[m] = Reads(gr[m], table, Depth(m))  BY <1>4, <1>11, <2>1
  <2>4. V[m] = Saying(gr[m].toks) \o Q[m].says  BY <1>20, <2>1
  <2>5. \A k \in 1..(m - 1) : Q[k] = Reads(gr[k], Q[k + 1].table, Depth(k))  BY <1>19, <2>1
  <2>6. \A k \in 1..(m - 1) : V[k] = Saying(gr[k].toks) \o (V[k + 1] \o Q[k].says)  BY <1>19, <2>1
  <2> QED  BY <1>21, <2>0, <2>2, <2>3, <2>4, <2>5, <2>6 DEF Told
<1> QED  BY <1>11, <1>14, <1>22 DEF Tells

(* The innermost call is left, what it has said being said by the caller.  *)
LEMMA ComesOut ==
  ASSUME NEW fr, NEW table, SoundCalls(fr, table), NEW whole, Tells(fr, table, whole),
         NEW gr, SoundCalls(gr, table), Len(fr) = Len(gr) + 1,
         fr[Len(fr)].i > Len(fr[Len(fr)].text),
         \A k \in 1..(Len(gr) - 1) : SameCall(fr[k], gr[k]),
         gr[Len(gr)].text = fr[Len(gr)].text, gr[Len(gr)].i = fr[Len(gr)].i,
         Saying(gr[Len(gr)].toks) = Saying(fr[Len(gr)].toks) \o Saying(fr[Len(fr)].toks)
  PROVE  Tells(gr, table, whole)
<1>a. Joinable(Units)  BY Associates
<1>1. PICK R \in [Positions -> Meanings], T \in [Positions -> Seq(Units)] : Told(fr, table, whole, R, T)
  BY DEF Tells
<1>2. PICK n : n = Len(gr)  OBVIOUS
<1>3. /\ n \in Nat \ {0} /\ n \in 1..(n + 1) /\ n + 1 \in 1..(n + 1) /\ n \in Positions
      /\ Depth(n) \in Nat /\ Depth(n + 1) \in Nat
      /\ table \in Seq(Macro) /\ SoundCall(fr[n]) /\ SoundCall(fr[n + 1]) /\ Len(fr) = n + 1
  <2>1. Len(gr) \in Nat \ {0}  BY DEF SoundCalls
  <2>2. n \in 1..Len(fr) /\ n + 1 \in 1..Len(fr) /\ n \in Positions
    BY <1>2, <2>1 DEF Positions
  <2> QED  BY <1>2, <2>1, <2>2, DepthType
<1>4. /\ \A k \in 1..(n + 1) : R[k].apart
      /\ R[n + 1] = Reads(fr[n + 1], table, Depth(n + 1))
      /\ \A k \in 1..n : R[k] = Reads(fr[k], R[k + 1].table, Depth(k))
      /\ T[n + 1] = Saying(fr[n + 1].toks) \o R[n + 1].says
      /\ \A k \in 1..n : T[k] = Saying(fr[k].toks) \o (T[k + 1] \o R[k].says)
      /\ T[1] = whole
  <2>0. PICK m : m = Len(fr)  OBVIOUS
  <2>1. m = n + 1 /\ m - 1 = n  BY <1>3, <2>0
  <2>2. /\ \A k \in 1..m : R[k].apart
        /\ R[m] = Reads(fr[m], table, Depth(m))
        /\ \A k \in 1..(m - 1) : R[k] = Reads(fr[k], R[k + 1].table, Depth(k))
        /\ T[m] = Saying(fr[m].toks) \o R[m].says
        /\ \A k \in 1..(m - 1) : T[k] = Saying(fr[k].toks) \o (T[k + 1] \o R[k].says)
        /\ T[1] = whole
    BY <1>1, <2>0 DEF Told
  <2>3. /\ \A k \in 1..m : R[k].apart
        /\ R[m] = Reads(fr[m], table, Depth(m))
        /\ \A k \in 1..n : R[k] = Reads(fr[k], R[k + 1].table, Depth(k))
    BY <2>1, <2>2
  <2>4. /\ T[m] = Saying(fr[m].toks) \o R[m].says
        /\ \A k \in 1..n : T[k] = Saying(fr[k].toks) \o (T[k + 1] \o R[k].says)
    BY <2>1, <2>2
  <2> QED  BY <2>1, <2>2, <2>3, <2>4
<1>5. R[n + 1].says = <<>> /\ R[n + 1].table = table
  <2>1. fr[n + 1].i > Len(fr[n + 1].text)  BY <1>3
  <2> QED  BY <1>3, <1>4, <2>1, ReadsEnd
<1>6. PICK x, y, z : x = Saying(fr[n].toks) /\ y = Saying(fr[n + 1].toks) /\ z = R[n].says  OBVIOUS
<1>7. x \in Seq(Units) /\ y \in Seq(Units) /\ z \in Seq(Units)
  <2>1. SoundTokens(fr[n].toks) /\ SoundTokens(fr[n + 1].toks)  BY <1>3 DEF SoundCall
  <2>2. R[n] \in Meanings  BY <1>3
  <2> QED  BY <1>6, <2>1, <2>2, TellingsType DEF Meanings
<1>8. T[n + 1] = y
  <2>1. y \o <<>> = y  BY <1>7
  <2> QED  BY <1>4, <1>5, <1>6, <2>1
<1>9. T[n] = Saying(gr[n].toks) \o R[n].says
  <2>1. n \in 1..n  BY <1>3
  <2>2. T[n] = x \o (y \o z)  BY <1>4, <1>6, <1>8, <2>1
  <2>3. Saying(gr[n].toks) = x \o y  BY <1>2, <1>3, <1>6
  <2>4. (x \o y) \o z = x \o (y \o z)  BY <1>a, <1>7 DEF Joinable
  <2> QED  BY <1>6, <2>2, <2>3, <2>4
<1>10. R[n] = Reads(gr[n], table, Depth(n))
  <2>1. n \in 1..n  BY <1>3
  <2>2. gr[n].text = fr[n].text /\ gr[n].i = fr[n].i  BY <1>2
  <2> QED  BY <1>4, <1>5, <2>1, <2>2 DEF Reads
<1>11. ASSUME NEW k \in 1..(n - 1)
       PROVE  /\ R[k] = Reads(gr[k], R[k + 1].table, Depth(k))
              /\ T[k] = Saying(gr[k].toks) \o (T[k + 1] \o R[k].says)
  <2>1. k \in 1..n  BY <1>3
  <2>2. SameCall(fr[k], gr[k])  BY <1>2
  <2> QED  BY <1>4, <2>1, <2>2 DEF SameCall, Reads
<1>12. \A k \in 1..n : R[k].apart
  <2>1. \A k \in 1..n : k \in 1..(n + 1)  BY <1>3
  <2> QED  BY <1>4, <2>1
<1>13. Told(gr, table, whole, R, T)
  BY <1>2, <1>4, <1>9, <1>10, <1>11, <1>12 DEF Told
<1> QED  BY <1>13 DEF Tells

-----------------------------------------------------------------------------
(* What is read at a place of a plain text.                                *)
PlaceOf(f, table, d) == Place(f.text, f.i, table, d)

LEMMA AtIs ==
  ASSUME NEW f, SoundCall(f), f.i <= Len(f.text), NEW table \in Seq(Macro), NEW d \in Nat,
         NEW p, p = PlaceOf(f, table, d)
  PROVE  /\ p \in Places /\ p.text = f.text /\ p.i = f.i /\ p.table = table /\ p.depth = d
         /\ p.i <= Len(p.text) /\ Reads(f, table, d) = Says(p, Meaning)
         /\ f.text \in Seq(Units) /\ f.i \in Positions /\ f.i \in 1..Len(f.text) /\ Len(f.text) \in Nat
<1>1. p = Place(f.text, f.i, table, d)  BY DEF PlaceOf
<1>2. p \in Places  BY <1>1, ReadsType
<1>3. p.text = f.text /\ p.i = f.i /\ p.table = table /\ p.depth = d  BY <1>1 DEF Place
<1>4. Reads(f, table, d) = Says(p, Meaning)  BY <1>1, <1>2, MeaningIs DEF Reads
<1>5. f.text \in Seq(Units) /\ f.i \in Positions  BY PlainType DEF SoundCall
<1>6. f.i \in 1..Len(f.text) /\ Len(f.text) \in Nat  BY <1>5 DEF Positions
<1> QED  BY <1>2, <1>3, <1>4, <1>5, <1>6

LEMMA ReadsDefined ==
  ASSUME NEW f, SoundCall(f), f.i <= Len(f.text), NEW table \in Seq(Macro), NEW d \in Nat,
         f.text[f.i] = "#", HasBody(f.text, f.i),
         NEW g, g.text = f.text, g.i = MacroEnd(f.text, f.i)
  PROVE  Reads(f, table, d) = Reads(g, Append(table, Defined(f.text, f.i)), d)
<1>1. PICK p : p = PlaceOf(f, table, d)  OBVIOUS
<1>2. p.text = f.text /\ p.i = f.i /\ p.table = table /\ p.depth = d /\ Reads(f, table, d) = Says(p, Meaning)
      /\ f.i \in Nat /\ Len(f.text) \in Nat
  BY <1>1, AtIs DEF Positions
<1>3. Defining(p)  BY <1>2 DEF Defining
<1>4. Says(p, Meaning) = Meaning[Onward(p)]  BY <1>2, <1>3 DEF Says
<1> QED  BY <1>2, <1>4 DEF Onward, Reads

(* A place that is read as it stands: the call goes on as g.               *)
LEMMA ReadsAlone ==
  ASSUME NEW f, SoundCall(f), f.i <= Len(f.text), NEW table \in Seq(Macro), NEW d \in Nat,
         NEW p, p = PlaceOf(f, table, d), ~Defining(p),
         NEW says \in Seq(Units), Within(p, Meaning) = Alone(p, says),
         NEW g, SoundCall(g), g.text = f.text, g.i = Behind(p),
         Saying(g.toks) = Saying(f.toks) \o says
  PROVE  Carries(f, table, g, table, d)
<1>a. Joinable(Units)  BY Associates
<1>1. /\ p.text = f.text /\ p.i = f.i /\ p.table = table /\ p.depth = d /\ Reads(f, table, d) = Says(p, Meaning)
      /\ f.i \in Nat /\ Len(f.text) \in Nat
  BY AtIs DEF Positions
<1>2. PICK b : b = Reads(g, table, d)  OBVIOUS
<1>3. b \in Meanings  BY <1>2, ReadsType
<1>4. PICK w : w = Alone(p, says)  OBVIOUS
<1>5. w.says = says /\ w.table = table /\ w.apart = TRUE  BY <1>1, <1>4 DEF Alone
<1>6. Later(p, Meaning) = b  BY <1>1, <1>2, <1>4, <1>5 DEF Later, Reads
<1>7. PICK a : a = Reads(f, table, d)  OBVIOUS
<1>8. a = [says |-> w.says \o b.says, table |-> b.table, apart |-> ApartAt(p) /\ w.apart /\ b.apart]
  BY <1>1, <1>4, <1>6, <1>7 DEF Says
<1>9. a.says = says \o b.says /\ a.table = b.table /\ (a.apart => b.apart)  BY <1>5, <1>8
<1>10. Saying(f.toks) \in Seq(Units) /\ b.says \in Seq(Units)
  <2>1. SoundTokens(f.toks)  BY DEF SoundCall
  <2> QED  BY <1>3, <2>1, TellingsType DEF Meanings
<1>11. PICK x : x = Saying(f.toks)  OBVIOUS
<1>12. (x \o says) \o b.says = x \o (says \o b.says)  BY <1>a, <1>10, <1>11 DEF Joinable
<1>13. Saying(g.toks) \o b.says = Saying(f.toks) \o a.says  BY <1>9, <1>11, <1>12
<1> QED  BY <1>2, <1>7, <1>9, <1>13 DEF Carries

(* All macros that are used from a place on can be replaced in turn.       *)
LEMMA ReadsApart ==
  ASSUME NEW f, SoundCall(f), f.i <= Len(f.text), NEW table \in Seq(Macro), NEW d \in Nat,
         NEW p, p = PlaceOf(f, table, d), ~Defining(p), Reads(f, table, d).apart
  PROVE  ApartAt(p)
<1>1. /\ p.text = f.text /\ p.i = f.i /\ Reads(f, table, d) = Says(p, Meaning)
      /\ f.i \in Nat /\ Len(f.text) \in Nat
  BY AtIs DEF Positions
<1>2. PICK w, b : w = Within(p, Meaning) /\ b = Later(p, Meaning)  OBVIOUS
<1>3. Says(p, Meaning) = [says |-> w.says \o b.says, table |-> b.table,
                          apart |-> ApartAt(p) /\ w.apart /\ b.apart]
  BY <1>1, <1>2 DEF Says
<1>4. Says(p, Meaning).apart = (ApartAt(p) /\ w.apart /\ b.apart)  BY <1>3
<1>5. Says(p, Meaning).apart  BY <1>1
<1> QED  BY <1>4, <1>5

(* A place whose expansion is read in its turn: f goes on as g after h.    *)
LEMMA ReadsInside ==
  ASSUME NEW f, SoundCall(f), f.i <= Len(f.text), NEW table \in Seq(Macro), NEW d \in Nat,
         NEW p, p = PlaceOf(f, table, d), ~Defining(p),
         DefinitionsAt(p) # {}, ~Verbatim(BodyAt(p)), d # 0,
         NEW h, h.text = BodyAt(p), h.i = 1,
         NEW g, g.text = f.text, g.i = Behind(p)
  PROVE  Enters(f, table, g, h, d)
<1>1. /\ p.text = f.text /\ p.i = f.i /\ p.table = table /\ p.depth = d /\ Reads(f, table, d) = Says(p, Meaning)
      /\ f.i \in Nat /\ Len(f.text) \in Nat
  BY AtIs DEF Positions
<1>2. PICK i : i = Reads(h, table, d - 1)  OBVIOUS
<1>3. Within(p, Meaning) = i  BY <1>1, <1>2 DEF Within, Reads
<1>4. PICK b : b = Reads(g, i.table, d)  OBVIOUS
<1>5. Later(p, Meaning) = b  BY <1>1, <1>3, <1>4 DEF Later, Reads
<1>6. PICK a : a = Reads(f, table, d)  OBVIOUS
<1>7. a = [says |-> i.says \o b.says, table |-> b.table, apart |-> ApartAt(p) /\ i.apart /\ b.apart]
  BY <1>1, <1>3, <1>5, <1>6 DEF Says
<1>8. a.says = i.says \o b.says /\ a.table = b.table /\ (a.apart => i.apart /\ b.apart)  BY <1>7
<1> QED  BY <1>2, <1>4, <1>6, <1>8 DEF Enters

-----------------------------------------------------------------------------
(* What stands at a place of a plain text.                                 *)
Forbidden == {Quote, "'", "\\", "//", "/*", "*/", ".", CodeMark}

LEMMA PlainIs ==
  /\ \A text : Plain(text) <=> \A i \in 1..Len(text) : text[i] \notin Forbidden
  /\ \A u \in PlainUnits : u \in Units /\ u \notin Forbidden
  /\ \A u \in Units : u \notin Forbidden => u \in PlainUnits
<1>1. \A text : Plain(text) <=> \A i \in 1..Len(text) : text[i] \notin Forbidden  BY Zenon DEF Plain, Forbidden
<1>2. ASSUME NEW u PROVE Plain(<<u>>) <=> u \notin Forbidden
  <2>1. Len(<<u>>) = 1 /\ <<u>>[1] = u /\ \A i \in 1..1 : i = 1  OBVIOUS
  <2> QED  BY <1>1, <2>1
<1> QED  BY <1>1, <1>2 DEF PlainUnits

LEMMA UnitsHere ==
  /\ \A u \in Space \cup Marks \cup {"->", "#"} : u \notin Joining
  /\ \A u \in Joining \cup Space \cup Marks : u # "#"
  /\ \A u \in Digits : u \notin Letters
<1>1. "#" \in Signs /\ "->" \in Signs  BY DEF Signs
<1>2. "#" \notin Space  BY DEF Space
<1> QED  BY <1>1, <1>2, UnitsAssumption DEF Joining

LEMMA MarkHere ==
  ASSUME NEW f, SoundCall(f), f.i <= Len(f.text), NEW table \in Seq(Macro), NEW d \in Nat,
         NEW p, p = PlaceOf(f, table, d), f.text[f.i] \notin Joining
  PROVE  /\ DefinitionsAt(p) = {} /\ Behind(p) = f.i + 1
         /\ Within(p, Meaning) = Alone(p, Words(<<f.text[f.i]>>))
<1>1. /\ p.text = f.text /\ p.i = f.i /\ f.i \in 1..Len(f.text) /\ f.text \in Seq(Units) /\ f.i \in Positions
      /\ p.i <= Len(p.text)
  BY AtIs
<1>2. ~Joins(f.text, f.i)  BY <1>1, JoinsIs
<1>3. WordEnd(f.text, f.i) = f.i + 1 /\ Len(Word(f.text, f.i)) = 1 /\ Word(f.text, f.i)[1] = f.text[f.i]
  BY <1>1, <1>2, WordJoins
<1>4. Word(f.text, f.i) \in Seq(Units)  BY <1>1, WordIs
<1>5. Word(f.text, f.i) = <<f.text[f.i]>>  BY <1>3, <1>4
<1>6. DefinitionsAt(p) = {}  BY <1>1 DEF DefinitionsAt, Joining
<1>7. Behind(p) = f.i + 1  BY <1>1, <1>3, <1>6 DEF Behind
<1>8. Within(p, Meaning) = Alone(p, Words(<<f.text[f.i]>>))  BY <1>1, <1>5, <1>6 DEF Within
<1> QED  BY <1>6, <1>7, <1>8

LEMMA WordHere ==
  ASSUME NEW f, SoundCall(f), f.i <= Len(f.text), NEW table \in Seq(Macro), NEW d \in Nat,
         NEW p, p = PlaceOf(f, table, d), f.text[f.i] \in Joining, DefinitionsAt(p) = {}
  PROVE  /\ Behind(p) = Past(f.text, f.i, Joining)
         /\ Within(p, Meaning) = Alone(p, Words(Piece(f.text, f.i, Past(f.text, f.i, Joining))))
<1>1. p.text = f.text /\ p.i = f.i /\ f.i \in 1..Len(f.text)  BY AtIs
<1>2. Joins(f.text, f.i)  BY <1>1, JoinsIs
<1>3. WordEnd(f.text, f.i) = Past(f.text, f.i, Joining)  BY <1>2 DEF WordEnd, Joining
<1> QED  BY <1>1, <1>3 DEF Word, Behind, Within

(* A number ends where its word does, there being no points.               *)
LEMMA NumberEnds ==
  ASSUME NEW text \in Seq(PlainUnits), NEW i \in Positions
  PROVE  Past(text, i, Letters \cup Digits \cup {"."}) = Past(text, i, Joining)
<1>1. ASSUME NEW j \in i..(i + Len(text))
      PROVE  (j > Len(text) \/ text[j] \notin Letters \cup Digits \cup {"."}) <=> (j > Len(text) \/ text[j] \notin Joining)
  <2>1. CASE j \in 1..Len(text)
    <3>1. text[j] \in PlainUnits  BY <2>1
    <3>2. text[j] # "."  BY <3>1, PlainIs DEF Forbidden
    <3> QED  BY <3>2 DEF Joining
  <2>2. CASE j \notin 1..Len(text)
    <3>1. j > Len(text)  BY <1>1, <2>2 DEF Positions
    <3> QED  BY <3>1
  <2> QED  BY <2>1, <2>2
<1>2. {j \in i..(i + Len(text)) : j > Len(text) \/ text[j] \notin Letters \cup Digits \cup {"."}}
        = {j \in i..(i + Len(text)) : j > Len(text) \/ text[j] \notin Joining}
  BY <1>1
<1> QED  BY <1>2 DEF Past

LEMMA NoSections ==
  ASSUME NEW u \in PlainUnits
  PROVE  u \notin {"//", "/*", "*/", CodeMark, Quote, "'", "\\", "."}
BY PlainIs DEF Forbidden

-----------------------------------------------------------------------------
(* A name, and the macro that find_macro finds for it.                     *)
LEMMA NameHereIs ==
  ASSUME NEW f, SoundCall(f), f.i <= Len(f.text), NEW table \in Seq(Macro), NEW d \in Nat,
         NEW p, p = PlaceOf(f, table, d), f.text[f.i] \in Letters,
         NEW name, name = Piece(f.text, f.i, Past(f.text, f.i, Letters \cup Digits))
  PROVE  /\ name = Word(f.text, f.i) /\ f.i + Len(name) = WordEnd(f.text, f.i)
         /\ Past(f.text, f.i, Joining) = WordEnd(f.text, f.i)
         /\ Find(table, name) = {} => DefinitionsAt(p) = {}
         /\ \A m \in Find(table, name) : DefinitionsAt(p) # {} /\ MacroAt(p) = table[m]
<1>1. /\ p.text = f.text /\ p.i = f.i /\ p.table = table /\ f.i \in 1..Len(f.text)
      /\ f.text \in Seq(Units) /\ f.i \in Positions
  BY AtIs
<1>2. f.text[f.i] \in Joining  BY DEF Joining
<1>3. Joins(f.text, f.i)  BY <1>1, <1>2, JoinsIs
<1>4. WordEnd(f.text, f.i) = Past(f.text, f.i, Letters \cup Digits)  BY <1>3 DEF WordEnd
<1>5. name = Word(f.text, f.i)  BY <1>4 DEF Word
<1>6. f.i + Len(name) = WordEnd(f.text, f.i)
  <2>1. WordEnd(f.text, f.i) \in Positions /\ Len(Word(f.text, f.i)) = WordEnd(f.text, f.i) - f.i
    BY <1>1, WordIs
  <2> QED  BY <1>1, <1>5, <2>1 DEF Positions
<1>7. PICK K : K = DefinitionsAt(p)  OBVIOUS
<1>8. PICK n : n = Len(table)  OBVIOUS
<1>9. n \in Nat /\ K = {k \in 1..n : table[k].name = name}
  <2>1. K = {k \in 1..n : f.text[f.i] \in Letters /\ table[k].name = name}
    BY <1>1, <1>5, <1>7, <1>8 DEF DefinitionsAt
  <2> QED  BY <1>8, <2>1
<1>10. K # {} => Max(K) \in K /\ \A k \in K : k <= Max(K)
  <2>1. K \subseteq 1..n  BY <1>9
  <2> QED  BY <1>9, <2>1, Extremes
<1>11. Find(table, name) = {m \in 1..n : table[m].name = name /\ \A k \in (m + 1)..n : table[k].name # name}
  BY <1>8 DEF Find
<1>12. ASSUME K # {} PROVE Max(K) \in Find(table, name)
  <2>1. Max(K) \in 1..n /\ table[Max(K)].name = name /\ \A k \in K : k <= Max(K)  BY <1>9, <1>10, <1>12
  <2>2. ASSUME NEW k \in (Max(K) + 1)..n PROVE table[k].name # name
    <3>1. k \in 1..n /\ ~(k <= Max(K))  BY <1>9, <2>1
    <3> QED  BY <1>9, <2>1, <3>1
  <2> QED  BY <1>11, <2>1, <2>2
<1>13. ASSUME NEW m \in Find(table, name) PROVE K # {} /\ m = Max(K)
  <2>1. m \in 1..n /\ table[m].name = name /\ \A k \in (m + 1)..n : table[k].name # name  BY <1>11
  <2>2. m \in K  BY <1>9, <2>1
  <2>3. Max(K) \in K /\ m <= Max(K)  BY <1>10, <2>2
  <2>4. Max(K) \in 1..n /\ table[Max(K)].name = name  BY <1>9, <2>3
  <2>5. ~(Max(K) \in (m + 1)..n)  BY <2>1, <2>4
  <2>6. m = Max(K)  BY <1>9, <2>1, <2>3, <2>4, <2>5
  <2> QED  BY <2>2, <2>6
<1>14. MacroAt(p) = table[Max(K)]  BY <1>1, <1>7 DEF MacroAt
<1>15. \A m \in Find(table, name) : DefinitionsAt(p) # {} /\ MacroAt(p) = table[m]
  BY <1>7, <1>13, <1>14
<1>16. Find(table, name) = {} => DefinitionsAt(p) = {}  BY <1>7, <1>12
<1>17. Past(f.text, f.i, Joining) = WordEnd(f.text, f.i)  BY <1>4 DEF Joining
<1> QED  BY <1>5, <1>6, <1>15, <1>16, <1>17

LEMMA UsedHere ==
  ASSUME NEW f, SoundCall(f), f.i <= Len(f.text), NEW table \in Seq(MacroOver(PlainUnits)), NEW d \in Nat,
         NEW p, p = PlaceOf(f, table, d), DefinitionsAt(p) # {}, NEW m, m = MacroAt(p),
         NEW end, end = WordEnd(f.text, f.i)
  PROVE  /\ m \in MacroOver(PlainUnits) /\ end \in Positions
         /\ BodyAt(p) = Body(m, f.text, end) /\ Behind(p) = After(m, f.text, end)
         /\ ApartAt(p) => Apart(m, f.text, end)
         /\ BodyAt(p) \in Seq(PlainUnits)
<1>0. table \in Seq(Macro) /\ f.text \in Seq(PlainUnits) /\ PlainUnits \subseteq Units
  BY PlainType DEF SoundCall
<1>1. /\ p \in Places /\ p.text = f.text /\ p.i = f.i /\ p.table = table /\ p.i <= Len(p.text)
      /\ f.text \in Seq(Units) /\ f.i \in Positions
  BY <1>0, AtIs
<1>2. m \in MacroOver(PlainUnits)
  <2>1. p.table \in Seq(MacroOver(PlainUnits))  BY <1>1
  <2> QED  BY <1>1, <2>1, MacroHere
<1>3. end \in Positions  BY <1>1, WordIs
<1>4. BodyAt(p) = Body(m, f.text, end)  BY <1>1 DEF BodyAt
<1>5. Behind(p) = After(m, f.text, end)  BY <1>1 DEF Behind
<1>6. ApartAt(p) => Apart(m, f.text, end)  BY <1>1 DEF ApartAt
<1>7. Body(m, f.text, end) \in Seq(PlainUnits)  BY <1>0, <1>2, <1>3, BodyType
<1> QED  BY <1>2, <1>3, <1>4, <1>5, <1>6, <1>7

-----------------------------------------------------------------------------
(* The calls that are under way, and their steps.                          *)
Telling(whole) == SoundCalls(frames, macros) /\ Tells(frames, macros, whole)

LEMMA Innermost ==
  ASSUME LineInv, NEW whole, Telling(whole)
  PROVE  /\ Top = frames[Len(frames)] /\ Len(frames) \in 1..Len(frames) /\ Len(frames) \in Nat \ {0}
         /\ SoundCall(Top) /\ IsFrame(Top) /\ Top.text \in Seq(Units) /\ Top.i \in Positions
         /\ macros \in Seq(MacroOver(PlainUnits)) /\ macros \in Seq(Macro)
         /\ Len(frames) <= MaxDepth + 1 /\ Depth(Len(frames)) \in Nat
         /\ Reads(Top, macros, Depth(Len(frames))).apart
<1>1. SoundCalls(frames, macros) /\ Tells(frames, macros, whole)  BY DEF Telling
<1>2. Len(frames) \in Nat \ {0} /\ Len(frames) <= MaxDepth + 1 /\ macros \in Seq(MacroOver(PlainUnits))
  BY <1>1 DEF SoundCalls
<1>3. Len(frames) \in 1..Len(frames)  BY <1>2
<1>4. Top = frames[Len(frames)]  BY DEF Top
<1>5. Depth(Len(frames)) \in Nat /\ SoundCall(frames[Len(frames)]) /\ macros \in Seq(Macro)
  BY <1>1, <1>3, DepthType
<1>6. IsFrame(Top)  BY InnermostCall
<1>7. Top.text \in Seq(Units) /\ Top.i \in Positions  BY <1>4, <1>5, PlainType DEF SoundCall
<1>8. Reads(frames[Len(frames)], macros, Depth(Len(frames))).apart
  <2>1. PICK R \in [Positions -> Meanings], T \in [Positions -> Seq(Units)] : Told(frames, macros, whole, R, T)
    BY <1>1 DEF Tells
  <2>2. R[Len(frames)].apart /\ R[Len(frames)] = Reads(frames[Len(frames)], macros, Depth(Len(frames)))
    BY <1>3, <2>1 DEF Told
  <2> QED  BY <2>2
<1> QED  BY <1>2, <1>3, <1>4, <1>5, <1>6, <1>7, <1>8

LEMMA MovedIs ==
  ASSUME NEW f, IsFrame(f), SoundCall(f), f = Top, NEW end \in Positions, NEW toks, SoundTokens(toks)
  PROVE  /\ Moved(end, toks).text = f.text /\ Moved(end, toks).i = end
         /\ SoundCall(Moved(end, toks))
         /\ Saying(Moved(end, toks).toks) = Saying(f.toks) \o Saying(toks)
<1>1. PICK n : n = Newlines(Top.text, Top.i, end - 1)  OBVIOUS
<1>2. PICK r : r = f.toks \o toks  OBVIOUS
<1>3. PICK g : g = Moved(end, toks)  OBVIOUS
<1>4. g = [f EXCEPT !.i = end, !.line = @ + n, !.toks = @ \o toks]  BY <1>1, <1>3 DEF Moved
<1>5. g.text = f.text /\ g.i = end /\ g.toks = r  BY <1>2, <1>4 DEF IsFrame
<1>6. SoundTokens(f.toks) /\ f.text \in Seq(PlainUnits)  BY DEF SoundCall
<1>7. SoundTokens(r) /\ Saying(r) = Saying(f.toks) \o Saying(toks)  BY <1>2, <1>6, SayingJoins
<1>8. SoundCall(g)  BY <1>5, <1>6, <1>7 DEF SoundCall
<1> QED  BY <1>3, <1>5, <1>7, <1>8

(* The innermost call goes on as g.                                        *)
LEMMA TellsOn ==
  ASSUME LineInv, NEW whole, Telling(whole), NEW g, SoundCall(g), frames' = SetTop(g),
         macros' \in Seq(MacroOver(PlainUnits)),
         Carries(Top, macros, g, macros', Depth(Len(frames)))
  PROVE  Telling(whole)'
<1>1. PICK fr, gr, table, more, n : fr = frames /\ gr = frames' /\ table = macros /\ more = macros' /\ n = Len(frames)
  OBVIOUS
<1>2. Len(gr) = n /\ n \in Nat \ {0} /\ n <= MaxDepth + 1 /\ \A k \in 1..n : gr[k] = IF k = n THEN g ELSE fr[k]
  BY <1>1, TopReplaced, Innermost
<1>3. SoundCalls(fr, table) /\ Tells(fr, table, whole) /\ Len(fr) = n  BY <1>1 DEF Telling
<1>4. fr[n] = Top /\ gr[n] = g  BY <1>1, <1>2, Innermost
<1>5. \A k \in 1..n : SoundCall(gr[k])  BY <1>2, <1>3 DEF SoundCalls
<1>6. SoundCalls(gr, more)  BY <1>1, <1>2, <1>5 DEF SoundCalls
<1>7. \A k \in 1..(n - 1) : SameCall(fr[k], gr[k])  BY <1>2 DEF SameCall
<1>8. Carries(fr[n], table, gr[n], more, Depth(n))  BY <1>1, <1>4
<1>9. Tells(gr, more, whole)  BY <1>2, <1>3, <1>6, <1>7, <1>8, GoesOn
<1> QED  BY <1>1, <1>6, <1>9 DEF Telling

(* A call is entered for h, the calling one going on as g.                 *)
LEMMA TellsInside ==
  ASSUME LineInv, NEW whole, Telling(whole), NEW g, SoundCall(g), NEW h, SoundCall(h),
         frames' = Append(SetTop(g), h), macros' = macros, Len(frames) <= MaxDepth,
         g.toks = Top.toks, h.toks = <<>>,
         Enters(Top, macros, g, h, Depth(Len(frames)))
  PROVE  Telling(whole)'
<1>1. PICK fr, gr, table, n, s : fr = frames /\ gr = frames' /\ table = macros /\ n = Len(frames) /\ s = SetTop(g)
  OBVIOUS
<1>2. s \in Seq(ToSet(s)) /\ Len(s) = n /\ n \in Nat \ {0} /\ \A k \in 1..n : s[k] = IF k = n THEN g ELSE fr[k]
  BY <1>1, TopReplaced, Innermost
<1>3. SoundCalls(fr, table) /\ Tells(fr, table, whole) /\ Len(fr) = n  BY <1>1 DEF Telling
<1>4. PICK S : S = ToSet(s) \cup {h}  OBVIOUS
<1>5. s \in Seq(S) /\ h \in S  BY <1>2, <1>4
<1>6. gr = Append(s, h)  BY <1>1
<1>7. Len(gr) = n + 1 /\ gr[n + 1] = h /\ \A k \in 1..n : gr[k] = s[k]  BY <1>2, <1>5, <1>6, AppendProperties
<1>8. fr[n] = Top /\ n \in 1..n /\ gr[n] = g  BY <1>1, <1>2, <1>7, Innermost
<1>9. \A k \in 1..(n + 1) : SoundCall(gr[k])
  <2> TAKE k \in 1..(n + 1)
  <2>1. CASE k = n + 1  BY <1>7, <2>1
  <2>2. CASE k # n + 1
    <3>1. k \in 1..n  BY <1>2, <2>2
    <3> QED  BY <1>2, <1>3, <1>7, <3>1 DEF SoundCalls
  <2> QED  BY <2>1, <2>2
<1>10. SoundCalls(gr, table)
  <2>1. n + 1 \in Nat \ {0} /\ n + 1 <= MaxDepth + 1 /\ Len(gr) = n + 1  BY <1>1, <1>2, <1>7, DepthAssumption
  <2>2. table \in Seq(MacroOver(PlainUnits))  BY <1>3 DEF SoundCalls
  <2>3. \A k \in 1..Len(gr) : SoundCall(gr[k])  BY <1>9, <2>1
  <2>4. Len(gr) \in Nat \ {0} /\ Len(gr) <= MaxDepth + 1  BY <2>1
  <2> QED  BY <2>2, <2>3, <2>4 DEF SoundCalls
<1>11. \A k \in 1..(n - 1) : SameCall(fr[k], gr[k])  BY <1>2, <1>7 DEF SameCall
<1>12. Enters(fr[n], table, gr[n], gr[n + 1], Depth(n))  BY <1>1, <1>7, <1>8
<1>13. gr[n].toks = fr[n].toks /\ gr[n + 1].toks = <<>>  BY <1>7, <1>8
<1>14. Tells(gr, table, whole)  BY <1>3, <1>7, <1>10, <1>11, <1>12, <1>13, GoesIn
<1> QED  BY <1>1, <1>10, <1>14 DEF Telling

-----------------------------------------------------------------------------
(* The branches of the loop.                                               *)
PlaceHere == PlaceOf(Top, macros, Depth(Len(frames)))

LEMMA SpokenHere ==
  ASSUME LineInv, NEW whole, Telling(whole), Lexing, ~Defining(PlaceHere),
         NEW says \in Seq(Units), Within(PlaceHere, Meaning) = Alone(PlaceHere, says),
         NEW toks, SoundTokens(toks), Saying(toks) = says,
         Advance(Behind(PlaceHere), toks), macros' = macros
  PROVE  Telling(whole)'
<1>1. PICK f, table, d, p : f = Top /\ table = macros /\ d = Depth(Len(frames)) /\ p = PlaceHere  OBVIOUS
<1>2. /\ SoundCall(f) /\ IsFrame(f) /\ table \in Seq(Macro) /\ d \in Nat /\ f.i <= Len(f.text)
      /\ table \in Seq(MacroOver(PlainUnits))
  BY <1>1, Innermost DEF Lexing
<1>3. p = PlaceOf(f, table, d)  BY <1>1 DEF PlaceHere
<1>4. p \in Places /\ p.i <= Len(p.text)  BY <1>2, <1>3, AtIs
<1>5. PICK end : end = Behind(p)  OBVIOUS
<1>6. end \in Positions  BY <1>4, <1>5, BehindIs
<1>7. PICK g : g = Moved(end, toks)  OBVIOUS
<1>8. g.text = f.text /\ g.i = end /\ SoundCall(g) /\ Saying(g.toks) = Saying(f.toks) \o says
  BY <1>1, <1>2, <1>6, <1>7, MovedIs
<1>9. Carries(f, table, g, table, d)
  BY <1>1, <1>2, <1>3, <1>5, <1>8, ReadsAlone
<1>10. frames' = SetTop(g)  BY <1>1, <1>5, <1>7 DEF Advance
<1>11. Carries(Top, macros, g, macros', Depth(Len(frames)))  BY <1>1, <1>9
<1>12. macros' \in Seq(MacroOver(PlainUnits))  BY <1>1, <1>2
<1> QED  BY <1>8, <1>10, <1>11, <1>12, TellsOn

LEMMA PlaceHereIs ==
  ASSUME LineInv, NEW whole, Telling(whole), Lexing
  PROVE  /\ SoundCall(Top) /\ Top.i <= Len(Top.text) /\ macros \in Seq(Macro) /\ Depth(Len(frames)) \in Nat
         /\ PlaceHere = PlaceOf(Top, macros, Depth(Len(frames)))
         /\ PlaceHere \in Places /\ PlaceHere.text = Top.text /\ PlaceHere.i = Top.i /\ PlaceHere.table = macros
         /\ PlaceHere.depth = Depth(Len(frames)) /\ PlaceHere.i <= Len(PlaceHere.text)
         /\ Top.text[Top.i] \in PlainUnits
         /\ Defining(PlaceHere) <=> Top.text[Top.i] = "#" /\ HasBody(Top.text, Top.i)
<1>1. SoundCall(Top) /\ Top.i <= Len(Top.text) /\ macros \in Seq(Macro) /\ Depth(Len(frames)) \in Nat
  BY Innermost DEF Lexing
<1>2. PlaceHere = PlaceOf(Top, macros, Depth(Len(frames)))  BY DEF PlaceHere
<1>3. /\ PlaceHere \in Places /\ PlaceHere.text = Top.text /\ PlaceHere.i = Top.i /\ PlaceHere.table = macros
      /\ PlaceHere.depth = Depth(Len(frames)) /\ PlaceHere.i <= Len(PlaceHere.text) /\ Top.i \in 1..Len(Top.text)
  BY <1>1, <1>2, AtIs
<1>4. Top.text[Top.i] \in PlainUnits  BY <1>1, <1>3 DEF SoundCall
<1> QED  BY <1>1, <1>2, <1>3, <1>4 DEF Defining

LEMMA DefineTells ==
  ASSUME LineInv, NEW whole, Telling(whole), Define
  PROVE  Telling(whole)'
<1>1. Lexing /\ Top.text[Top.i] = "#" /\ HasBody(Top.text, Top.i)
      /\ Advance(MacroEnd(Top.text, Top.i), <<>>) /\ macros' = Append(macros, Defined(Top.text, Top.i))
  BY DEF Define, AtUnit
<1>2. PICK f, table, d, more, end : /\ f = Top /\ table = macros /\ d = Depth(Len(frames))
                                    /\ more = macros' /\ end = MacroEnd(f.text, f.i)
  OBVIOUS
<1>3. /\ SoundCall(f) /\ IsFrame(f) /\ table \in Seq(Macro) /\ d \in Nat /\ f.i <= Len(f.text)
      /\ table \in Seq(MacroOver(PlainUnits)) /\ f.text \in Seq(PlainUnits) /\ f.i \in Positions
  BY <1>1, <1>2, Innermost DEF Lexing, SoundCall
<1>4. end \in Positions
  <2>1. Len(f.text) \in Nat  BY <1>3
  <2> QED  BY <1>2, <1>3, <2>1, MacroEndIs
<1>5. Defined(f.text, f.i) \in MacroOver(PlainUnits)  BY <1>3, DefinedType
<1>6. more \in Seq(MacroOver(PlainUnits)) /\ more = Append(table, Defined(f.text, f.i))
  <2>1. more = Append(table, Defined(f.text, f.i))  BY <1>1, <1>2
  <2> QED  BY <1>3, <1>5, <2>1
<1>7. PICK g : g = Moved(end, <<>>)  OBVIOUS
<1>8. SoundTokens(<<>>) /\ Saying(<<>>) = <<>>
  <2>1. <<>> \in Seq(Units)  OBVIOUS
  <2> QED  BY <2>1, SayingOne
<1>9. g.text = f.text /\ g.i = end /\ SoundCall(g) /\ Saying(g.toks) = Saying(f.toks) \o <<>>
  <2>1. PICK none : none = <<>>  OBVIOUS
  <2>2. SoundTokens(none) /\ g = Moved(end, none) /\ f = Top  BY <1>2, <1>7, <1>8, <2>1
  <2>3. g.text = f.text /\ g.i = end /\ SoundCall(g) /\ Saying(g.toks) = Saying(f.toks) \o Saying(none)
    BY <1>3, <1>4, <2>2, MovedIs
  <2> QED  BY <1>8, <2>1, <2>3
<1>10. Saying(g.toks) = Saying(f.toks)
  <2>1. Saying(f.toks) \in Seq(Units)  BY <1>3, TellingsType DEF SoundCall
  <2> QED  BY <1>9, <2>1
<1>11. Reads(f, table, d) = Reads(g, more, d)
  <2>1. f.text[f.i] = "#" /\ HasBody(f.text, f.i)  BY <1>1, <1>2
  <2> QED  BY <1>2, <1>3, <1>6, <1>9, <2>1, ReadsDefined
<1>12. Carries(f, table, g, more, d)  BY <1>10, <1>11 DEF Carries
<1>13. frames' = SetTop(g)  BY <1>1, <1>2, <1>7 DEF Advance
<1>14. Carries(Top, macros, g, macros', Depth(Len(frames))) /\ macros' \in Seq(MacroOver(PlainUnits))
  BY <1>2, <1>6, <1>12
<1> QED  BY <1>9, <1>13, <1>14, TellsOn

LEMMA MarkTells ==
  ASSUME LineInv, NEW whole, Telling(whole), Hash \/ Blank \/ Symbol
  PROVE  Telling(whole)'
<1>1. PICK u : u = Top.text[Top.i]  OBVIOUS
<1>2. /\ Lexing /\ macros' = macros
      /\ u \in Space \cup Marks \cup {"->", "#", "*/"}
      /\ \/ u \in Space /\ Advance(Top.i + 1, <<>>)
         \/ u \notin Space /\ Advance(Top.i + 1, Found("symbol", <<u>>))
      /\ ~(u = "#" /\ HasBody(Top.text, Top.i))
  <2>1. CASE Hash
    <3>1. u = "#" /\ u \notin Space  BY <1>1, <2>1 DEF Hash, AtUnit, Space
    <3> QED  BY <1>1, <2>1, <3>1 DEF Hash, AtUnit
  <2>2. CASE Blank
    <3>1. u \in Space  BY <1>1, <2>2 DEF Blank, AtUnit
    <3>2. u # "#"  BY <3>1, UnitsHere
    <3> QED  BY <1>1, <2>2, <3>1, <3>2 DEF Blank, AtUnit
  <2>3. CASE Symbol
    <3>1. u \in Marks \cup {"->", "*/"}  BY <1>1, <2>3 DEF Symbol, AtUnit
    <3>2. u # "#" /\ u \notin Space
      <4>1. CASE u \in Marks  BY <4>1, UnitsHere, UnitsAssumption
      <4>2. CASE u \in {"->", "*/"}  BY <4>2 DEF Space
      <4> QED  BY <3>1, <4>1, <4>2
    <3> QED  BY <1>1, <2>3, <3>1, <3>2 DEF Symbol, AtUnit
  <2> QED  BY <2>1, <2>2, <2>3
<1>3. u \in PlainUnits /\ ~Defining(PlaceHere)  BY <1>1, <1>2, PlaceHereIs
<1>4. u \in Units /\ u \notin Joining
  <2>1. u # "*/" /\ u \in Units  BY <1>3, NoSections, PlainType
  <2> QED  BY <1>2, <2>1, UnitsHere
<1>5. Behind(PlaceHere) = Top.i + 1 /\ Within(PlaceHere, Meaning) = Alone(PlaceHere, Words(<<u>>))
  BY <1>1, <1>2, <1>4, PlaceHereIs, MarkHere
<1>6. <<u>> \in Seq(Units) /\ <<>> \in Seq(Units)  BY <1>4
<1>7. Words(<<u>>) \in Seq(Units)  BY <1>6, WordsType
<1>8. CASE u \in Space /\ Advance(Top.i + 1, <<>>)
  <2>1. Words(<<u>>) = <<>>  BY <1>8, WordsBlank
  <2>2. SoundTokens(<<>>) /\ Saying(<<>>) = <<>>  BY <1>6, SayingOne
  <2> QED  BY <1>2, <1>3, <1>5, <1>7, <1>8, <2>1, <2>2, SpokenHere
<1>9. CASE Advance(Top.i + 1, Found("symbol", <<u>>))
  <2>1. SoundTokens(Found("symbol", <<u>>)) /\ Saying(Found("symbol", <<u>>)) = Words(<<u>>)
    BY <1>6, SayingOne
  <2> QED  BY <1>2, <1>3, <1>5, <1>7, <1>9, <2>1, SpokenHere
<1> QED  BY <1>2, <1>8, <1>9

LEMMA NumberTells ==
  ASSUME LineInv, NEW whole, Telling(whole), Number
  PROVE  Telling(whole)'
<1>1. PICK w, end : end = Past(Top.text, Top.i, Joining) /\ w = Piece(Top.text, Top.i, end)  OBVIOUS
<1>2. Lexing /\ macros' = macros /\ Top.text[Top.i] \in Digits  BY DEF Number, AtUnit
<1>3. /\ SoundCall(Top) /\ Top.text \in Seq(PlainUnits) /\ Top.i \in Positions /\ Top.text \in Seq(Units)
  BY Innermost DEF SoundCall
<1>4. Advance(end, Found("number", w))
  <2>1. Past(Top.text, Top.i, Letters \cup Digits \cup {"."}) = end  BY <1>1, <1>3, NumberEnds
  <2> QED  BY <1>1, <2>1 DEF Number
<1>5. Top.text[Top.i] # "#" /\ Top.text[Top.i] \notin Letters /\ Top.text[Top.i] \in Joining
  BY <1>2, UnitsHere DEF Joining
<1>6. ~Defining(PlaceHere) /\ DefinitionsAt(PlaceHere) = {}
  BY <1>2, <1>5, PlaceHereIs DEF DefinitionsAt
<1>7. Behind(PlaceHere) = end /\ Within(PlaceHere, Meaning) = Alone(PlaceHere, Words(w))
  BY <1>1, <1>2, <1>5, <1>6, PlaceHereIs, WordHere
<1>8. w \in Seq(Units)
  <2>1. Len(Top.text) \in Nat /\ Top.i <= Len(Top.text)  BY <1>2, <1>3 DEF Lexing
  <2>2. end \in Positions /\ (end <= Len(Top.text) + 1 \/ end = Top.i)  BY <1>1, <1>3, <2>1, Scans
  <2>3. end \in Nat /\ (end <= Len(Top.text) + 1 \/ end <= Top.i)  BY <1>3, <2>2 DEF Positions
  <2> QED  BY <1>1, <1>3, <2>3, PieceType
<1>9. Words(w) \in Seq(Units)  BY <1>8, WordsType
<1>10. SoundTokens(Found("number", w)) /\ Saying(Found("number", w)) = Words(w)  BY <1>8, SayingOne
<1> QED  BY <1>2, <1>4, <1>6, <1>7, <1>9, <1>10, SpokenHere

LEMMA NameTells ==
  ASSUME LineInv, NEW whole, Telling(whole), LexName
  PROVE  Telling(whole)'
<1>1. PICK name, end : name = NameHere /\ end = Top.i + Len(name)  OBVIOUS
<1>2. /\ Lexing /\ macros' = macros /\ Top.text[Top.i] \in Letters /\ Find(macros, name) = {}
      /\ \E kind : Advance(end, Found(kind, name))
  BY <1>1 DEF LexName, AtUnit
<1>3. name = Piece(Top.text, Top.i, Past(Top.text, Top.i, Letters \cup Digits))  BY <1>1 DEF NameHere
<1>4. /\ name = Word(Top.text, Top.i) /\ end = WordEnd(Top.text, Top.i)
      /\ Past(Top.text, Top.i, Joining) = end /\ DefinitionsAt(PlaceHere) = {}
  BY <1>1, <1>2, <1>3, PlaceHereIs, NameHereIs
<1>5. Top.text[Top.i] # "#" /\ Top.text[Top.i] \in Joining  BY <1>2, UnitsHere DEF Joining
<1>6. ~Defining(PlaceHere)  BY <1>2, <1>5, PlaceHereIs
<1>7. Behind(PlaceHere) = end /\ Within(PlaceHere, Meaning) = Alone(PlaceHere, Words(name))
  <2>1. name = Piece(Top.text, Top.i, Past(Top.text, Top.i, Joining))  BY <1>3 DEF Joining
  <2> QED  BY <1>2, <1>4, <1>5, <2>1, PlaceHereIs, WordHere
<1>8. name \in Seq(Units)
  <2>1. Top.text \in Seq(Units) /\ Top.i \in Positions /\ Top.i <= Len(Top.text)  BY <1>2, Innermost DEF Lexing
  <2> QED  BY <1>4, <2>1, WordIs
<1>9. Words(name) \in Seq(Units)  BY <1>8, WordsType
<1>10. PICK kind : Advance(end, Found(kind, name))  BY <1>2
<1>11. SoundTokens(Found(kind, name)) /\ Saying(Found(kind, name)) = Words(name)  BY <1>8, SayingOne
<1> QED  BY <1>2, <1>6, <1>7, <1>9, <1>10, <1>11, SpokenHere

(* A macro becomes nothing, a token or a text that is lexed in its turn.   *)
LEMMA BecomeTells ==
  ASSUME LineInv, NEW whole, Telling(whole), Lexing, ~Defining(PlaceHere), macros' = macros,
         DefinitionsAt(PlaceHere) # {},
         NEW text \in Seq(PlainUnits), text = BodyAt(PlaceHere), NEW end, end = Behind(PlaceHere),
         Become(text, end)
  PROVE  Telling(whole)'
<1>1. PICK p, d, n : p = PlaceHere /\ d = Depth(Len(frames)) /\ n = Len(frames)  OBVIOUS
<1>2. /\ SoundCall(Top) /\ IsFrame(Top) /\ Top.i <= Len(Top.text) /\ macros \in Seq(Macro) /\ d \in Nat
      /\ p = PlaceOf(Top, macros, d) /\ p \in Places /\ p.text = Top.text /\ p.i = Top.i
      /\ p.table = macros /\ p.depth = d /\ p.i <= Len(p.text)
  BY <1>1, PlaceHereIs, Innermost
<1>3. n \in Nat \ {0} /\ n <= MaxDepth + 1 /\ d = MaxDepth + 1 - n
  BY <1>1, Innermost DEF Depth
<1>4. text \in Seq(Units) /\ <<>> \in Seq(Units)  BY PlainType
<1>5. SoundTokens(<<>>) /\ Saying(<<>>) = <<>>  BY <1>4, SayingOne
<1>6. CASE (text = <<>> \/ (~Verbatim(text) /\ n > MaxDepth)) /\ Advance(end, <<>>)
  <2>1. Within(p, Meaning) = Alone(p, <<>>)
    <3>1. ~Verbatim(text)  BY <1>6 DEF Verbatim
    <3>2. CASE d = 0  BY <1>1, <1>2, <3>1, <3>2 DEF Within
    <3>3. CASE d # 0
      <4>1. text = <<>>  BY <1>3, <1>6, <3>3, DepthAssumption
      <4>2. PICK q : q = Place(text, 1, macros, d - 1)  OBVIOUS
      <4>3. d - 1 \in Nat /\ 1 \in Positions  BY <1>2, <3>3 DEF Positions
      <4>4. q \in Places /\ q.text = text /\ q.i = 1 /\ q.table = macros  BY <1>2, <1>4, <4>2, <4>3, PlaceType
      <4>5. Meaning[q] = Says(q, Meaning)  BY <4>4, MeaningIs
      <4>6. q.i > Len(q.text)  BY <4>1, <4>4
      <4>7. Says(q, Meaning) = Alone(q, <<>>)  BY <4>6 DEF Says
      <4>8. Alone(q, <<>>) = Alone(p, <<>>)  BY <1>2, <4>4 DEF Alone
      <4>9. Within(p, Meaning) = Meaning[q]  BY <1>1, <1>2, <3>1, <3>3, <4>2 DEF Within
      <4> QED  BY <4>5, <4>7, <4>8, <4>9
    <3> QED  BY <3>2, <3>3
  <2> QED  BY <1>1, <1>4, <1>5, <1>6, <2>1, SpokenHere
<1>7. CASE Verbatim(text) /\ Advance(end, Found("verbatim", text))
  <2>1. Within(p, Meaning) = Alone(p, Words(text))  BY <1>1, <1>7 DEF Within
  <2>2. SoundTokens(Found("verbatim", text)) /\ Saying(Found("verbatim", text)) = Words(text)  BY <1>4, SayingOne
  <2>3. Words(text) \in Seq(Units)  BY <1>4, WordsType
  <2> QED  BY <1>1, <1>7, <2>1, <2>2, <2>3, SpokenHere
<1>8. CASE /\ ~Verbatim(text) /\ n <= MaxDepth
           /\ frames' = Append(SetTop(Moved(end, <<>>)), Frame(text, Top.line, Where))
  <2>1. PICK g, h, none : g = Moved(end, none) /\ h = Frame(text, Top.line, Where) /\ none = <<>>  OBVIOUS
  <2>2. end \in Positions  BY <1>1, <1>2, BehindIs
  <2>3. SoundTokens(none)  BY <1>5, <2>1
  <2>4. g.text = Top.text /\ g.i = end /\ SoundCall(g)  BY <1>2, <2>1, <2>2, <2>3, MovedIs
  <2>5. g.toks = Top.toks
    <3>1. PICK m : m = Newlines(Top.text, Top.i, end - 1)  OBVIOUS
    <3>2. PICK r : r = Top.toks \o <<>>  OBVIOUS
    <3>3. g = [Top EXCEPT !.i = end, !.line = @ + m, !.toks = @ \o <<>>]  BY <2>1, <3>1 DEF Moved
    <3>4. g.toks = r  BY <1>2, <3>2, <3>3 DEF IsFrame
    <3>5. r = Top.toks
      <4>1. Top.toks \in Seq(ToSet(Top.toks))  BY <1>2 DEF IsFrame
      <4> QED  BY <3>2, <4>1
    <3> QED  BY <3>4, <3>5
  <2>6. h.text = text /\ h.i = 1 /\ h.toks = <<>>  BY <2>1 DEF Frame
  <2>7. SoundCall(h)  BY <1>5, <2>6 DEF SoundCall, Positions
  <2>8. d # 0  BY <1>3, <1>8, DepthAssumption
  <2>9. Enters(Top, macros, g, h, d)  BY <1>1, <1>2, <1>8, <2>4, <2>6, <2>8, ReadsInside
  <2>10. frames' = Append(SetTop(g), h)  BY <1>8, <2>1
  <2> QED  BY <1>1, <1>8, <2>4, <2>5, <2>6, <2>7, <2>9, <2>10, TellsInside
<1> QED  BY <1>1, <1>6, <1>7, <1>8 DEF Become

LEMMA ExpandTells ==
  ASSUME LineInv, NEW whole, Telling(whole), Expand, status' = "lexing"
  PROVE  Telling(whole)'
<1>1. PICK name, end : name = NameHere /\ end = Top.i + Len(name)  OBVIOUS
<1>2. PICK k \in Find(macros, name) : ExpandName(macros[k], end) \/ ExpandCall(macros[k], end)
  BY <1>1 DEF Expand
<1>3. PICK m : m = macros[k]  OBVIOUS
<1>4. Lexing /\ Top.text[Top.i] \in Letters  BY DEF Expand, AtUnit
<1>5. macros' = macros  BY <1>2 DEF ExpandName, ExpandCall
<1>6. name = Piece(Top.text, Top.i, Past(Top.text, Top.i, Letters \cup Digits))  BY <1>1 DEF NameHere
<1>7. PICK text, d, p : text = Top.text /\ d = Depth(Len(frames)) /\ p = PlaceHere  OBVIOUS
<1>8. /\ SoundCall(Top) /\ Top.i <= Len(text) /\ macros \in Seq(Macro) /\ d \in Nat
      /\ p = PlaceOf(Top, macros, d) /\ macros \in Seq(MacroOver(PlainUnits))
      /\ text \in Seq(PlainUnits) /\ PlainUnits \subseteq Units
      /\ Reads(Top, macros, d).apart
  BY <1>4, <1>7, PlaceHereIs, Innermost, PlainType DEF SoundCall
<1>9. end = WordEnd(text, Top.i) /\ DefinitionsAt(p) # {} /\ MacroAt(p) = m
  <2>1. PICK f, q, e, table : f = Top /\ q = PlaceHere /\ e = Depth(Len(frames)) /\ table = macros  OBVIOUS
  <2>2. /\ SoundCall(f) /\ f.i <= Len(f.text) /\ table \in Seq(Macro) /\ e \in Nat
        /\ q = PlaceOf(f, table, e) /\ f.text[f.i] \in Letters
        /\ name = Piece(f.text, f.i, Past(f.text, f.i, Letters \cup Digits))
    BY <1>4, <1>6, <1>7, <1>8, <2>1
  <2>3. f.i + Len(name) = WordEnd(f.text, f.i)  BY <2>2, NameHereIs
  <2>4. \A j \in Find(table, name) : DefinitionsAt(q) # {} /\ MacroAt(q) = table[j]  BY <2>2, NameHereIs
  <2> QED  BY <1>1, <1>2, <1>3, <1>7, <2>1, <2>3, <2>4
<1>10. ~Defining(p)
  <2>1. Top.text[Top.i] # "#"  BY <1>4, UnitsHere DEF Joining
  <2> QED  BY <1>4, <1>7, <2>1, PlaceHereIs
<1>11. /\ m \in MacroOver(PlainUnits) /\ end \in Positions
       /\ BodyAt(p) = Body(m, text, end) /\ Behind(p) = After(m, text, end)
       /\ ApartAt(p) => Apart(m, text, end)
       /\ BodyAt(p) \in Seq(PlainUnits)
  BY <1>7, <1>8, <1>9, UsedHere
<1>12. Apart(m, text, end)
  <2>1. ApartAt(p)  BY <1>7, <1>8, <1>10, ReadsApart
  <2> QED  BY <1>11, <2>1
<1>13. CASE ExpandName(m, end)
  <2>1. Become(Trim(m.text), end) /\ (~m.parametric \/ ~Is(text, end, "("))  BY <1>7, <1>13 DEF ExpandName
  <2>2. BodyAt(p) = Trim(m.text) /\ Behind(p) = end  BY <1>11, <2>1 DEF Body, After
  <2> QED  BY <1>4, <1>5, <1>7, <1>9, <1>10, <1>11, <2>1, <2>2, BecomeTells
<1>14. CASE ExpandCall(m, end)
  <2>1. m.parametric /\ Is(text, end, "(")  BY <1>7, <1>14 DEF ExpandCall
  <2>2. PICK after, args, given : /\ after = CallEnd(text, end + 1)
                                  /\ args = Piece(text, end + 1, after - 1)
                                  /\ given = ArgumentsUsed(args, Len(m.params))
    OBVIOUS
  <2>3. ~Loops(m, args, given) /\ Become(Expanded(m, given), after)
    <3>1. \/ ~Loops(m, args, given) /\ Become(Expanded(m, given), after)
          \/ status' = "astray" \/ status' = "hang"
      BY <1>7, <1>14, <2>2 DEF ExpandCall
    <3> QED  BY <3>1
  <2>4. given = Given(m, text, end)  BY <2>2 DEF Given
  <2>5. Expanded(m, given) = Body(m, text, end)
    BY <1>8, <1>11, <1>12, <2>1, <2>3, <2>4, ExpandedIsBody
  <2>6. Behind(p) = after  BY <1>11, <2>1, <2>2 DEF After
  <2> QED  BY <1>4, <1>5, <1>7, <1>9, <1>10, <1>11, <2>3, <2>5, <2>6, BecomeTells
<1> QED  BY <1>2, <1>3, <1>13, <1>14

LEMMA FinishTells ==
  ASSUME LineInv, NEW whole, Telling(whole), Finish
  PROVE  Telling(whole)' /\ Len(frames') = 1 /\ frames'[1].i > Len(frames'[1].text)
<1>1. PICK F, g, r : /\ F = Found("eof", <<>>) /\ g = [Top EXCEPT !.toks = @ \o F] /\ r = Top.toks \o F
  OBVIOUS
<1>2. Len(frames) = 1 /\ macros' = macros /\ frames' = SetTop(g) /\ Top.i > Len(Top.text)  BY <1>1 DEF Finish
<1>3. /\ SoundCall(Top) /\ IsFrame(Top) /\ macros \in Seq(MacroOver(PlainUnits))
      /\ SoundTokens(Top.toks) /\ Top.text \in Seq(PlainUnits) /\ Top.i \in Positions
  BY Innermost DEF SoundCall
<1>4. g.text = Top.text /\ g.i = Top.i /\ g.toks = r  BY <1>1, <1>3 DEF IsFrame
<1>5. <<>> \in Seq(Units)  OBVIOUS
<1>6. SoundTokens(F) /\ Saying(F) = <<>>
  <2>1. SoundTokens(F) /\ Saying(F) = Words(<<>>)  BY <1>1, <1>5, SayingOne
  <2> QED  BY <2>1, WordsBlank
<1>7. SoundTokens(r) /\ Saying(r) = Saying(Top.toks)
  <2>1. SoundTokens(r) /\ Saying(r) = Saying(Top.toks) \o Saying(F)  BY <1>1, <1>3, <1>6, SayingJoins
  <2>2. Saying(Top.toks) \in Seq(Units)  BY <1>3, TellingsType
  <2>3. Saying(Top.toks) \o <<>> = Saying(Top.toks)  BY <2>2
  <2> QED  BY <1>6, <2>1, <2>3
<1>8. SoundCall(g)  BY <1>3, <1>4, <1>7 DEF SoundCall
<1>9. Carries(Top, macros, g, macros', Depth(Len(frames)))  BY <1>2, <1>4, <1>7 DEF Carries, Reads
<1>10. Telling(whole)'  BY <1>2, <1>3, <1>8, <1>9, TellsOn
<1>11. Len(frames') = 1 /\ frames'[1] = g
  <2>1. Len(SetTop(g)) = Len(frames) /\ \A k \in 1..Len(frames) : SetTop(g)[k] = IF k = Len(frames) THEN g ELSE frames[k]
    BY TopReplaced
  <2>2. 1 \in 1..1  OBVIOUS
  <2> QED  BY <1>2, <2>1, <2>2
<1> QED  BY <1>2, <1>4, <1>10, <1>11

LEMMA ReturnTells ==
  ASSUME LineInv, NEW whole, Telling(whole), EndExpansion
  PROVE  Telling(whole)'
<1>1. PICK fr, gr, table, n, m : /\ fr = frames /\ gr = frames' /\ table = macros /\ n = Len(frames) /\ m = n - 1
  OBVIOUS
<1>2. /\ n \in Nat /\ m \in Nat \ {0} /\ m + 1 = n /\ fr \in Seq(ToSet(fr)) /\ Len(fr) = n
      /\ macros' = macros /\ Top.i > Len(Top.text) /\ Top = fr[n] /\ n <= MaxDepth + 1
  <2>1. Len(frames) > 1 /\ macros' = macros /\ Top.i > Len(Top.text)  BY DEF EndExpansion
  <2>2. Len(frames) \in Nat /\ frames \in Seq(ToSet(frames)) /\ Top = frames[Len(frames)] /\ Len(frames) <= MaxDepth + 1
    BY InnermostCall, Innermost DEF LineInv
  <2> QED  BY <1>1, <2>1, <2>2
<1>3. PICK h, R, g, s : h = fr[m] /\ R = Relabelled /\ g = [h EXCEPT !.toks = @ \o R] /\ s = Front(fr)  OBVIOUS
<1>4. s \in Seq(ToSet(fr)) /\ Len(s) = m /\ \A k \in 1..m : s[k] = fr[k]
  <2>1. s = SubSeq(fr, 1, m)  BY <1>1, <1>3 DEF Front
  <2> QED  BY <1>2, <2>1, SubSeqProperties
<1>5. gr = [s EXCEPT ![m] = g]
  <2>1. gr = [s EXCEPT ![m].toks = @ \o R]  BY <1>1, <1>3 DEF EndExpansion, Relabelled
  <2>2. s[m] = h /\ DOMAIN s = 1..m  BY <1>2, <1>3, <1>4
  <2>3. [s EXCEPT ![m].toks = @ \o R] = [s EXCEPT ![m] = [s[m] EXCEPT !.toks = @ \o R]]  OBVIOUS
  <2> QED  BY <1>3, <2>1, <2>2, <2>3
<1>6. Len(gr) = m /\ \A k \in 1..m : gr[k] = IF k = m THEN g ELSE fr[k]
  <2>1. PICK T : T = ToSet(fr) \cup {g}  OBVIOUS
  <2>2. s \in [1..m -> T] /\ g \in T
    <3>1. s \in [1..m -> ToSet(fr)]  BY <1>4
    <3> QED  BY <2>1, <3>1
  <2>3. gr \in [1..m -> T] /\ \A k \in 1..m : gr[k] = IF k = m THEN g ELSE s[k]  BY <1>5, <2>2
  <2>4. gr \in Seq(T) /\ Len(gr) = m  BY <1>2, <2>3
  <2> QED  BY <1>4, <2>3, <2>4
<1>7. SoundCalls(fr, table) /\ Tells(fr, table, whole)  BY <1>1 DEF Telling
<1>8. m \in 1..n /\ n \in 1..n  BY <1>2
<1>9. SoundCall(h) /\ SoundTokens(h.toks) /\ SoundCall(Top) /\ SoundTokens(Top.toks) /\ IsFrame(h) /\ IsFrame(Top)
  <2>1. SoundCall(h) /\ SoundCall(Top)  BY <1>2, <1>3, <1>7, <1>8 DEF SoundCalls
  <2>2. IsFrame(h) /\ IsFrame(Top)  BY <1>1, <1>3, <1>8, InnermostCall DEF LineInv
  <2> QED  BY <2>1, <2>2 DEF SoundCall
<1>10. SoundTokens(R) /\ Saying(R) = Saying(Top.toks)
  <2>1. R \in Seq(ToSet(R))  BY <1>3, RelabelledTokens
  <2>2. PICK l : l = Len(Top.toks)  OBVIOUS
  <2>3. l \in Nat  BY <1>9, <2>2, TellingsType
  <2>4. \A k \in 1..l : R[k] = [Top.toks[k] EXCEPT !.line = Top.from.line, !.at = Top.from.at]
    BY <1>3, <2>2 DEF Relabelled
  <2>5. Len(R) = l
    <3>1. DOMAIN R = 1..l  BY <1>3, <2>2 DEF Relabelled
    <3> QED  BY <2>1, <2>3, <3>1
  <2>6. ASSUME NEW k \in 1..l PROVE "text" \in DOMAIN R[k] /\ R[k].text = Top.toks[k].text
    <3>1. PICK t, r, a, b : t = Top.toks[k] /\ r = R[k] /\ a = Top.from.line /\ b = Top.from.at  OBVIOUS
    <3>2. "text" \in DOMAIN t  BY <1>9, <2>2, <3>1 DEF SoundTokens
    <3>3. r = [t EXCEPT !.line = a, !.at = b]  BY <2>4, <3>1
    <3>4. "text" \in DOMAIN r /\ r.text = t.text  BY <3>2, <3>3
    <3> QED  BY <3>1, <3>4
  <2> QED  BY <1>9, <2>1, <2>2, <2>5, <2>6, SayingSame
<1>11. PICK c : c = h.toks \o R  OBVIOUS
<1>12. g.text = h.text /\ g.i = h.i /\ g.toks = c  BY <1>3, <1>9, <1>11 DEF IsFrame
<1>13. SoundTokens(c) /\ Saying(c) = Saying(h.toks) \o Saying(Top.toks)
  <2>1. SoundTokens(c) /\ Saying(c) = Saying(h.toks) \o Saying(R)  BY <1>9, <1>10, <1>11, SayingJoins
  <2> QED  BY <1>10, <2>1
<1>14. SoundCall(g)  BY <1>9, <1>12, <1>13 DEF SoundCall
<1>15. \A k \in 1..m : SoundCall(gr[k])
  <2>1. \A k \in 1..m : k \in 1..n  BY <1>2
  <2> QED  BY <1>2, <1>6, <1>7, <1>14, <2>1 DEF SoundCalls
<1>16. SoundCalls(gr, table)
  <2>1. m <= MaxDepth + 1  BY <1>2, DepthAssumption
  <2> QED  BY <1>2, <1>6, <1>7, <1>15, <2>1 DEF SoundCalls
<1>17. \A k \in 1..(m - 1) : SameCall(fr[k], gr[k])  BY <1>2, <1>6 DEF SameCall
<1>18. gr[m] = g /\ fr[m] = h /\ m \in 1..m
  <2>1. m \in 1..m  BY <1>2
  <2> QED  BY <1>3, <1>6, <2>1
<1>19. /\ gr[Len(gr)].text = fr[Len(gr)].text /\ gr[Len(gr)].i = fr[Len(gr)].i
       /\ Saying(gr[Len(gr)].toks) = Saying(fr[Len(gr)].toks) \o Saying(fr[Len(fr)].toks)
  BY <1>2, <1>6, <1>12, <1>13, <1>18
<1>20. Len(fr) = Len(gr) + 1 /\ fr[Len(fr)].i > Len(fr[Len(fr)].text)  BY <1>2, <1>6
<1>21. Tells(gr, table, whole)  BY <1>6, <1>7, <1>16, <1>17, <1>19, <1>20, ComesOut
<1> QED  BY <1>1, <1>2, <1>16, <1>21 DEF Telling

-----------------------------------------------------------------------------
(* As long as nothing is reported, what the calls have said and are yet to *)
(* say is what the source means; there is nothing left to say in the end.  *)
Intended(text) == Meaning[Place(text, 1, <<>>, MaxDepth)]
Faithful == Plain(src) /\ errors = {} /\ status \in {"lexing", "done"} =>
              (Intended(src).apart =>
                 /\ Telling(Intended(src).says)
                 /\ status = "done" => Len(frames) = 1 /\ frames[1].i > Len(frames[1].text))
MeaningInv == LineInv /\ Faithful

LEMMA IntendedIs ==
  ASSUME NEW text \in Seq(Units)
  PROVE  Place(text, 1, <<>>, MaxDepth) \in Places /\ Intended(text) \in Meanings
<1>1. 1 \in Positions /\ <<>> \in Seq(Macro) /\ MaxDepth \in Nat  BY DepthAssumption DEF Positions
<1>2. Place(text, 1, <<>>, MaxDepth) \in Places  BY <1>1, PlaceType
<1>3. \A p \in Places : Meaning[p] \in Meanings  BY MeaningIs
<1> QED  BY <1>2, <1>3 DEF Intended

LEMMA MeaningStarts == LexInit => Faithful
<1> SUFFICES ASSUME LexInit, Plain(src), Intended(src).apart
             PROVE  Telling(Intended(src).says) /\ status # "done"
  BY DEF Faithful
<1>1. PICK f, a : f = Frame(src, 1, 1) /\ a = Intended(src)  OBVIOUS
<1>2. f.text = src /\ f.i = 1 /\ f.toks = <<>>  BY <1>1 DEF Frame
<1>3. src \in Seq(Units) /\ frames = <<f>> /\ macros = <<>> /\ status = "lexing"
  BY <1>1, TextsAssumption DEF LexInit
<1>4. src \in Seq(PlainUnits)
  <2>1. \A i \in 1..Len(src) : src[i] \in PlainUnits  BY <1>3, PlainIs
  <2> QED  BY <1>3, <2>1
<1>5. <<>> \in Seq(Units)  OBVIOUS
<1>6. SoundTokens(<<>>) /\ Saying(<<>>) = <<>>  BY <1>5, SayingOne
<1>7. SoundCall(f)  BY <1>2, <1>4, <1>6 DEF SoundCall, Positions
<1>8. PICK fr : fr = frames  OBVIOUS
<1>9. Len(fr) = 1 /\ fr[1] = f  BY <1>3, <1>8
<1>10. SoundCalls(fr, macros)
  <2>1. \A k \in 1..Len(fr) : SoundCall(fr[k])
    <3>1. \A k \in 1..1 : k = 1  OBVIOUS
    <3> QED  BY <1>7, <1>9, <3>1
  <2>2. Len(fr) \in Nat \ {0} /\ Len(fr) <= MaxDepth + 1  BY <1>9, DepthAssumption
  <2>3. macros \in Seq(MacroOver(PlainUnits))  BY <1>3
  <2> QED  BY <2>1, <2>2, <2>3 DEF SoundCalls
<1>11. a \in Meanings /\ a.says \in Seq(Units)  BY <1>1, <1>3, IntendedIs DEF Meanings
<1>12. PICK R, T : R = [k \in Positions |-> a] /\ T = [k \in Positions |-> a.says]  OBVIOUS
<1>13. R \in [Positions -> Meanings] /\ T \in [Positions -> Seq(Units)] /\ R[1] = a /\ T[1] = a.says
  <2>1. 1 \in Positions  BY DEF Positions
  <2> QED  BY <1>11, <1>12, <2>1
<1>14. a = Reads(f, macros, Depth(1))
  <2>1. Depth(1) = MaxDepth  BY DepthAssumption DEF Depth
  <2> QED  BY <1>1, <1>2, <1>3, <2>1 DEF Reads, Intended
<1>15. a.says = Saying(f.toks) \o a.says
  <2>1. <<>> \o a.says = a.says  BY <1>11
  <2> QED  BY <1>2, <1>6, <2>1
<1>16. Told(fr, macros, a.says, R, T)
  <2>1. \A k \in 1..1 : k = 1  OBVIOUS
  <2>2. 1..(1 - 1) = {}  OBVIOUS
  <2>3. R[1].apart  BY <1>1, <1>13
  <2> QED  BY <1>9, <1>13, <1>14, <1>15, <2>1, <2>2, <2>3 DEF Told
<1>17. Tells(fr, macros, a.says)  BY <1>13, <1>16 DEF Tells
<1> QED  BY <1>1, <1>3, <1>8, <1>10, <1>17 DEF Telling

(* What has been reported stays so, and nothing but lexing goes on.        *)
LEMMA StepsLex ==
  ASSUME LexNext
  PROVE  src' = src /\ status = "lexing" /\ errors \subseteq errors'
<1>1. CASE Define  BY <1>1 DEF Define, AtUnit, Lexing, Report
<1>2. CASE Hash \/ Blank \/ Symbol \/ Number \/ LexName
  BY <1>2 DEF Hash, Blank, Symbol, Number, LexName, AtUnit, Lexing, Report
<1>3. CASE LineComment \/ BlockComment \/ Section
  BY <1>3 DEF LineComment, BlockComment, Section, AtUnit, Lexing, Report
<1>4. CASE InlineC \/ StringLiteral \/ Unexpected
  BY <1>4 DEF InlineC, StringLiteral, Unexpected, AtUnit, Lexing, Report
<1>5. CASE Expand
  <2>1. PICK m, end : ExpandName(m, end) \/ ExpandCall(m, end)  BY <1>5 DEF Expand
  <2>2. CASE ExpandName(m, end)  BY <1>5, <2>2 DEF Expand, AtUnit, Lexing, ExpandName
  <2>3. CASE ExpandCall(m, end)  BY <1>5, <2>3 DEF Expand, AtUnit, Lexing, ExpandCall, Report
  <2> QED  BY <2>1, <2>2, <2>3
<1>6. CASE EndExpansion \/ Finish  BY <1>6 DEF EndExpansion, Finish
<1> QED  BY <1>1, <1>2, <1>3, <1>4, <1>5, <1>6 DEF LexNext

LEMMA MeaningKept ==
  ASSUME MeaningInv, LexNext
  PROVE  Faithful'
<1>1. src' = src /\ status = "lexing" /\ errors \subseteq errors'  BY StepsLex
<1> SUFFICES ASSUME Plain(src), errors' = {}, status' \in {"lexing", "done"}, Intended(src).apart
             PROVE  /\ Telling(Intended(src).says)'
                    /\ status' = "done" => Len(frames') = 1 /\ frames'[1].i > Len(frames'[1].text)
  BY <1>1 DEF Faithful
<1>2. PICK whole : whole = Intended(src).says  OBVIOUS
<1>3. whole = Intended(src').says  BY <1>1, <1>2
<1>4. LineInv /\ Telling(whole)
  <2>1. errors = {}  BY <1>1
  <2> QED  BY <1>1, <1>2, <2>1 DEF MeaningInv, Faithful
<1>5. SUFFICES /\ Telling(whole)'
               /\ status' = "done" => Len(frames') = 1 /\ frames'[1].i > Len(frames'[1].text)
  BY <1>2, <1>3
<1>6. Lexing => Top.text[Top.i] \in PlainUnits  BY <1>4, PlaceHereIs
<1>7. CASE Define
  <2>1. status' # "done"  BY <1>1, <1>7 DEF Define
  <2> QED  BY <1>4, <1>7, <2>1, DefineTells
<1>8. CASE Hash \/ Blank \/ Symbol
  <2>1. status' # "done"  BY <1>1, <1>8 DEF Hash, Blank, Symbol
  <2> QED  BY <1>4, <1>8, <2>1, MarkTells
<1>9. CASE Number
  <2>1. status' # "done"  BY <1>1, <1>9 DEF Number
  <2> QED  BY <1>4, <1>9, <2>1, NumberTells
<1>10. CASE LexName
  <2>1. status' # "done"  BY <1>1, <1>10 DEF LexName
  <2> QED  BY <1>4, <1>10, <2>1, NameTells
<1>11. CASE Expand
  <2>1. status' = "lexing"
    <3>1. status' # "done"  BY <1>1, <1>11 DEF Expand, ExpandName, ExpandCall
    <3> QED  BY <3>1
  <2> QED  BY <1>4, <1>11, <2>1, ExpandTells
<1>12. CASE EndExpansion
  <2>1. status' # "done"  BY <1>1, <1>12 DEF EndExpansion
  <2> QED  BY <1>4, <1>12, <2>1, ReturnTells
<1>13. CASE Finish  BY <1>4, <1>13, FinishTells
<1>14. CASE LineComment \/ BlockComment \/ Section \/ InlineC \/ StringLiteral \/ Unexpected
  <2>1. Lexing /\ Top.text[Top.i] \in {"//", "/*", ".", CodeMark, Quote, "'", "\\"}
    BY <1>14 DEF LineComment, BlockComment, Section, InlineC, StringLiteral, Unexpected, AtUnit
  <2> QED  BY <1>6, <2>1, NoSections
<1> QED  BY <1>7, <1>8, <1>9, <1>10, <1>11, <1>12, <1>13, <1>14 DEF LexNext

LEMMA MeaningStep == ASSUME MeaningInv, [LexNext]_lexvars PROVE MeaningInv'
<1>1. LineInv'  BY LexStep DEF MeaningInv
<1>2. CASE LexNext  BY <1>1, <1>2, MeaningKept DEF MeaningInv
<1>3. CASE UNCHANGED lexvars
  <2>1. src' = src /\ frames' = frames /\ macros' = macros /\ errors' = errors /\ status' = status
    BY <1>3 DEF lexvars
  <2>2. Faithful'  BY <2>1 DEF MeaningInv, Faithful, Telling
  <2> QED  BY <1>1, <2>2 DEF MeaningInv
<1> QED  BY <1>2, <1>3

LEMMA MeaningSaid == MeaningInv => SubstitutionExact
<1> SUFFICES ASSUME MeaningInv, status = "done", errors = {}, Plain(src), Intended(src).apart
             PROVE  Said = Intended(src).says
  BY DEF SubstitutionExact, Intended
<1>1. PICK fr, table, whole : fr = frames /\ table = macros /\ whole = Intended(src).says  OBVIOUS
<1>2. /\ SoundCalls(fr, table) /\ Tells(fr, table, whole)
      /\ Len(fr) = 1 /\ fr[1].i > Len(fr[1].text)
  BY <1>1 DEF MeaningInv, Faithful, Telling
<1>3. SoundCall(fr[1]) /\ table \in Seq(Macro) /\ Depth(1) \in Nat
  <2>1. 1 \in 1..Len(fr)  BY <1>2
  <2> QED  BY <1>2, <2>1, DepthType
<1>4. PICK R \in [Positions -> Meanings], T \in [Positions -> Seq(Units)] : Told(fr, table, whole, R, T)
  BY <1>2 DEF Tells
<1>5. R[1] = Reads(fr[1], table, Depth(1)) /\ whole = Saying(fr[1].toks) \o R[1].says
  BY <1>2, <1>4 DEF Told
<1>6. R[1].says = <<>>  BY <1>2, <1>3, <1>5, ReadsEnd
<1>7. Saying(fr[1].toks) \in Seq(Units)  BY <1>3, TellingsType DEF SoundCall
<1>8. whole = Saying(fr[1].toks)
  <2>1. Saying(fr[1].toks) \o <<>> = Saying(fr[1].toks)  BY <1>7
  <2> QED  BY <1>5, <1>6, <2>1
<1> QED  BY <1>1, <1>8 DEF Said, Result, Saying

(* The tokens of a text without strings, comments or inline C are those of *)
(* its substitution: every use of a macro replaced by its body and every   *)
(* parameter by its argument, all at once, whatever the macros are, how    *)
(* often they are redefined and how they nest.                             *)
THEOREM SubstitutionIsExact == LexSpec => []SubstitutionExact
<1>1. LexInit => MeaningInv  BY LexStart, MeaningStarts DEF MeaningInv
<1>2. MeaningInv /\ [LexNext]_lexvars => MeaningInv'  BY MeaningStep
<1> QED  BY <1>1, <1>2, MeaningSaid, PTL DEF LexSpec

-----------------------------------------------------------------------------
(* The runs of tigc.                                                       *)

Step(r) == \/ Start(r) \/ Translate(r) \/ FindCompiler(r) \/ Open(r) \/ Write(r)
           \/ Compile(r) \/ Link(r) \/ RemoveTemp(r) \/ Conclude(r) \/ Kill(r)

(* What a run has asked for by the time it stands at a place, and nothing  *)
(* of a run that has not begun.                                            *)
Asked ==
    \A r \in Runs :
       /\ pc[r] = "idle" => opts[r] = Unset /\ ending[r] = None
       /\ pc[r] \in {"find", "compile", "link", "remove", "done"} => opts[r].compile # None
       /\ pc[r] \in {"open", "write"} => opts[r].compile # None \/ opts[r].output # None
       /\ ending[r] = "compiled" => pc[r] = "done" /\ ~fails[r]
       /\ ending[r] = "written" => pc[r] = "write"

(* Runs that are under way together have met.                              *)
Acquainted ==
    \A r, q \in Runs : /\ r # q /\ UnderWay(r) /\ UnderWay(q) => q \in met[r]
                       /\ q \in met[r] => pc[q] # "idle"

(* From Write on, a run's C file holds its own C, and so does what was     *)
(* made of it, unless the file was shared.                                 *)
Shares(r) == \E q \in Runs : Clash(r, q)
OwnSource ==
    \A r \in Runs :
       /\ At(r, "compile") /\ Compilable(CFile(opts[r])) =>
             Shares(r) \/ \A q \in Runs : file[CFile(opts[r])] = CText(q) => q = r
       /\ pc[r] = "link" => Shares(r) \/ made[r] = r
       /\ pc[r] \in {"remove", "done"} => Shares(r) \/ fails[r] \/ made[r] = r

(* Somebody answers for the temporary file.                                *)
Owner(r) == \/ ending[r] = "killed" \/ opts[r].keep \/ TmpC \in {opts[r].output, opts[r].compile}
            \/ /\ ending[r] = None /\ pc[r] \in {"write", "compile", "link", "remove"}
               /\ opts[r].output = None
Accounted == file[TmpC] # None => \E r \in Runs : Owner(r)

(* From Write on, a file that -o has named holds C, or is being rewritten. *)
Holds(f) == \/ \E q \in Runs : file[f] = CText(q) /\ opts[q].output = f
            \/ file[f] = Empty /\ \E q \in Runs : /\ pc[q] = "write" /\ opts[q].output = f
                                                  /\ ending[q] \in {None, "killed"}
Kept ==
    \A r \in Runs, f \in Files \ {TmpC} :
       /\ pc[r] \in {"compile", "link", "remove", "done"} \/ ending[r] = "written"
       /\ opts[r].output = f
       /\ \A q \in Runs : opts[q].compile # f
       => Holds(f)

IInv == TypeOK /\ Asked /\ Acquainted /\ OwnSource /\ Accounted /\ Kept
-----------------------------------------------------------------------------
LEMMA UnsetIs == Unset.output = None /\ Unset.compile = None /\ Unset.keep = FALSE
BY DEF Unset

(* The contents of files can be told apart.                                *)
LEMMA ContentsDiffer ==
    /\ \A r \in Runs : CText(r) \in Contents /\ CText(r) # Empty /\ CText(r) # None
    /\ \A r, q \in Runs : CText(r) = CText(q) => r = q
    /\ \A r \in Runs \cup {None} : Product(r) \in Contents /\ Product(r) # Empty
    /\ \A r \in Runs, x \in Runs \cup {None} : CText(r) # Product(x)
    /\ Empty \in Contents /\ Empty # None
    /\ \A x \in Contents : x.kind = "c" => \E r \in Runs : x = CText(r)
    /\ \A r \in Runs : CText(r).kind = "c" /\ CText(r).of = r
<1>1. \A r \in Runs : CText(r).kind = "c" /\ CText(r).of = r
  BY DEF CText
<1>2. \A x \in Runs \cup {None} : Product(x).kind = "program"
  BY DEF Product
<1>3. Empty.kind = "empty"
  BY DEF Empty
<1>4. /\ \A r \in Runs : CText(r) \in Contents
      /\ \A x \in Runs \cup {None} : Product(x) \in Contents
      /\ Empty \in Contents
  BY DEF Contents
<1>5. \A x \in Contents : x # None
  BY ContentsAssumption DEF ContentsAssumption
<1>6. \A x \in Contents : \/ x = Empty \/ \E r \in Runs : x = CText(r)
                          \/ \E r \in Runs \cup {None} : x = Product(r)
  BY DEF Contents
<1>7. /\ \A r \in Runs : CText(r) # Empty
      /\ \A r, q \in Runs : CText(r) = CText(q) => r = q
      /\ \A r \in Runs \cup {None} : Product(r) # Empty
      /\ \A r \in Runs, x \in Runs \cup {None} : CText(r) # Product(x)
  BY <1>1, <1>2, <1>3, Zenon
<1>8. \A x \in Contents : x.kind = "c" => \E r \in Runs : x = CText(r)
  BY <1>2, <1>3, <1>6
<1>9. QED BY <1>1, <1>4, <1>5, <1>7, <1>8

LEMMA TypeStep == ASSUME TypeOK, [Next]_vars PROVE TypeOK'
<1> USE DEF TypeOK, Ends
<1>1. ASSUME NEW r \in Runs, Start(r) PROVE TypeOK'
  <2>1. opts' = [q \in Runs |-> opts'[q]]
    BY <1>1 DEF Start
  <2>2. pc' \in [Runs -> {"idle", "front", "find", "open", "write", "compile", "link", "remove", "done"}]
    BY <1>1 DEF Start
  <2>3. ending' \in [Runs -> Ends \cup {None}]
    BY <1>1 DEF Start
  <2>4. met' \in [Runs -> SUBSET Runs]
    BY <1>1 DEF Start, UnderWay
  <2>5. QED BY <1>1, <2>1, <2>2, <2>3, <2>4 DEF Start
<1>2. ASSUME NEW r \in Runs, Translate(r) PROVE TypeOK'
  BY <1>2 DEF Translate, Goto, End
<1>3. ASSUME NEW r \in Runs, FindCompiler(r) PROVE TypeOK'
  BY <1>3 DEF FindCompiler, Goto, End
<1>4. ASSUME NEW r \in Runs, Open(r) PROVE TypeOK'
  BY <1>4, ContentsDiffer DEF Open, Goto, End
<1>5. ASSUME NEW r \in Runs, Write(r) PROVE TypeOK'
  BY <1>5, ContentsDiffer DEF Write, Goto, End
<1>6. ASSUME NEW r \in Runs, Compile(r) PROVE TypeOK'
  <2>1. CASE made' = made
    BY <1>6, <2>1 DEF Compile, Goto, End
  <2>2. ASSUME fails' = fails, NEW f \in Files, file[f] # None, file[f].kind = "c",
               made' = [made EXCEPT ![r] = file[f].of]
        PROVE  TypeOK'
    <3>1. file[f] \in Contents
      BY <2>2
    <3>2. file[f].of \in Runs
      BY <2>2, <3>1, ContentsDiffer
    <3>3. made' \in [Runs -> Runs \cup {None}]
      BY <2>2, <3>2
    <3>4. QED BY <1>6, <2>2, <3>3 DEF Compile, Goto, End
  <2>3. QED BY <1>6, <2>1, <2>2 DEF Compile, Compilable, Files
<1>7. ASSUME NEW r \in Runs, Link(r) PROVE TypeOK'
  <2>1. Product(made[r]) \in Contents
    BY ContentsDiffer
  <2>2. file' \in [Files -> Contents \cup {None}]
    BY <1>7, <2>1 DEF Link
  <2>3. QED BY <1>7, <2>2 DEF Link, Goto
<1>8. ASSUME NEW r \in Runs, RemoveTemp(r) PROVE TypeOK'
  BY <1>8 DEF RemoveTemp, Goto, End
<1>9. ASSUME NEW r \in Runs, Conclude(r) PROVE TypeOK'
  BY <1>9 DEF Conclude, Goto, End
<1>10. ASSUME NEW r \in Runs, Kill(r) PROVE TypeOK'
  BY <1>10 DEF Kill, End
<1>11. CASE UNCHANGED vars
  BY <1>11 DEF vars
<1>12. QED
  <2> HIDE DEF TypeOK
  <2> QED BY <1>1, <1>2, <1>3, <1>4, <1>5, <1>6, <1>7, <1>8, <1>9, <1>10, <1>11 DEF Next

(* A step of one run changes nothing of the others but whom they met; a    *)
(* step after Start changes neither the command line nor whom anyone met.  *)
LEMMA Others ==
    ASSUME TypeOK, NEW r \in Runs, Step(r)
    PROVE  /\ \A q \in Runs \ {r} : /\ pc'[q] = pc[q] /\ ending'[q] = ending[q] /\ opts'[q] = opts[q]
                                    /\ fails'[q] = fails[q] /\ made'[q] = made[q]
                                    /\ met[q] \subseteq met'[q]
           /\ pc'[r] # "idle"
           /\ pc[r] # "idle" => ending[r] = None /\ UNCHANGED <<opts, met>>
<1> USE DEF TypeOK
<1>1. CASE Start(r)
  BY <1>1 DEF Start
<1>2. CASE ~Start(r)
  BY <1>2 DEF Step, Translate, FindCompiler, Open, Write, Compile, Link, RemoveTemp, Conclude,
     Kill, At, UnderWay, Goto, End
<1>3. QED BY <1>1, <1>2

LEMMA Begins == ASSUME TypeOK, NEW r \in Runs, Step(r), pc[r] = "idle"
                PROVE  Start(r) /\ pc'[r] = "front"
BY DEF Step, Start, Translate, FindCompiler, Open, Write, Compile, Link, RemoveTemp, Conclude, Kill,
   At, UnderWay, TypeOK

(* What has been shared stays so.                                          *)
LEMMA SharesStays ==
    ASSUME IInv, NEW r \in Runs, Step(r), NEW q \in Runs, pc[q] # "idle", Shares(q)
    PROVE  Shares(q)'
<1>1. PICK p \in Runs : Clash(q, p)
  BY DEF Shares
<1>2. pc[p] # "idle"
  BY <1>1 DEF IInv, Acquainted, Clash
<1>3. opts'[p] = opts[p] /\ opts'[q] = opts[q] /\ met[q] \subseteq met'[q]
  BY <1>2, Others DEF IInv
<1>4. Clash(q, p)'
  BY <1>1, <1>3 DEF Clash, CFile
<1>5. QED BY <1>4 DEF Shares

LEMMA AskedStep == ASSUME IInv, NEW r \in Runs, Step(r) PROVE Asked'
<1> DEFINE A(q) == /\ pc[q] = "idle" => opts[q] = Unset /\ ending[q] = None
                   /\ pc[q] \in {"find", "compile", "link", "remove", "done"} => opts[q].compile # None
                   /\ pc[q] \in {"open", "write"} => opts[q].compile # None \/ opts[q].output # None
                   /\ ending[q] = "compiled" => pc[q] = "done" /\ ~fails[q]
                   /\ ending[q] = "written" => pc[q] = "write"
<1> USE DEF TypeOK, Goto, End, At
<1>0. TypeOK /\ A(r) /\ None \notin {"compiled", "written"}
  BY RunsAssumption DEF IInv, Asked, RunsAssumption, Ends
<1>1. A(r)'
  <2>1. CASE Start(r)
    <3>1. pc'[r] = "front" /\ ending'[r] \in {None, "answered", "died"}
      BY <1>0, <2>1 DEF Start
    <3>2. QED BY <1>0, <3>1
  <2>2. CASE Translate(r) BY <1>0, <2>2 DEF Translate
  <2>3. CASE FindCompiler(r) BY <1>0, <2>3 DEF FindCompiler
  <2>4. CASE Open(r) BY <1>0, <2>4 DEF Open
  <2>5. CASE Write(r) BY <1>0, <2>5 DEF Write
  <2>6. CASE Compile(r) BY <1>0, <2>6 DEF Compile
  <2>7. CASE Link(r) BY <1>0, <2>7 DEF Link
  <2>8. CASE RemoveTemp(r) BY <1>0, <2>8 DEF RemoveTemp
  <2>9. CASE Conclude(r) BY <1>0, <2>9 DEF Conclude
  <2>10. CASE Kill(r) BY <1>0, <2>10 DEF Kill, UnderWay
  <2>11. QED BY <2>1, <2>2, <2>3, <2>4, <2>5, <2>6, <2>7, <2>8, <2>9, <2>10 DEF Step
<1>2. \A q \in Runs \ {r} : A(q)'
  BY <1>0, Others DEF IInv, Asked
<1>3. QED BY <1>1, <1>2 DEF Asked

LEMMA AcquaintedStep == ASSUME IInv, NEW r \in Runs, Step(r) PROVE Acquainted'
<1> USE DEF TypeOK
<1>1. CASE pc[r] = "idle"
  <2>1. Start(r)
    BY <1>1, Begins DEF IInv
  <2>2. /\ pc' = [pc EXCEPT ![r] = "front"]
        /\ \A q \in Runs \ {r} : ending'[q] = ending[q]
        /\ met' = [q \in Runs |-> IF q = r THEN {p \in Runs : UnderWay(p)}
                                  ELSE IF UnderWay(q) THEN met[q] \cup {r} ELSE met[q]]
    BY <2>1 DEF IInv, Start
  <2>3. ~UnderWay(r)
    BY <1>1 DEF UnderWay
  <2>4. \A q \in Runs \ {r} : UnderWay(q)' <=> UnderWay(q)
    BY <2>2 DEF UnderWay, IInv
  <2>5. ASSUME NEW p \in Runs, NEW q \in Runs, p # q, UnderWay(p)', UnderWay(q)' PROVE q \in met'[p]
    BY <2>2, <2>4, <2>5 DEF IInv, Acquainted
  <2>6. ASSUME NEW p \in Runs, NEW q \in Runs, q \in met'[p] PROVE pc'[q] # "idle"
    <3>1. q = r \/ pc[q] # "idle"
      BY <2>2, <2>6 DEF IInv, Acquainted, UnderWay
    <3>2. QED BY <2>2, <3>1 DEF IInv
  <2>7. QED BY <2>5, <2>6 DEF Acquainted
<1>2. CASE pc[r] # "idle"
  <2>1. met' = met /\ ending[r] = None
    BY <1>2, Others DEF IInv
  <2>2. \A q \in Runs : (UnderWay(q)' => UnderWay(q)) /\ (pc[q] # "idle" => pc'[q] # "idle")
    BY <1>2, <2>1, Others DEF UnderWay, IInv
  <2>3. QED BY <2>1, <2>2 DEF Acquainted, IInv
<1>3. QED BY <1>1, <1>2

(* Another run puts its C into the file of r only after they have met.     *)
LEMMA OwnSourceStep == ASSUME IInv, NEW r \in Runs, Step(r) PROVE OwnSource'
<1> DEFINE Compiles(q) == At(q, "compile") /\ Compilable(CFile(opts[q])) =>
                          Shares(q) \/ \A p \in Runs : file[CFile(opts[q])] = CText(p) => p = q
           Made(q)  == /\ pc[q] = "link" => Shares(q) \/ made[q] = q
                       /\ pc[q] \in {"remove", "done"} => Shares(q) \/ fails[q] \/ made[q] = q
<1>0. TypeOK /\ Asked /\ Acquainted /\ \A q \in Runs : Compiles(q) /\ Made(q)
  BY DEF IInv, OwnSource
<1>1. ASSUME NEW q \in Runs PROVE Compiles(q)'
  <2> SUFFICES ASSUME At(q, "compile")', Compilable(CFile(opts'[q])), ~Shares(q)',
                      NEW p \in Runs, file'[CFile(opts'[q])] = CText(p)
               PROVE  p = q
    BY DEF Compiles
  <2>1. pc[q] # "idle" /\ opts'[q] = opts[q]
    <3>1. CASE q = r
      BY <1>0, <3>1, Begins, Others DEF At
    <3>2. CASE q # r
      BY <1>0, <3>2, Others DEF At
    <3>3. QED BY <3>1, <3>2
  <2>2. ~Shares(q)
    BY <2>1, SharesStays
  <2>3. CFile(opts[q]) \in Files
    BY <2>1 DEF Compilable, Files
  <2>4. CASE Write(r)
    <3>1. CASE CFile(opts[r]) # CFile(opts[q])
      <4>1. file'[CFile(opts[q])] = file[CFile(opts[q])] /\ q # r
        <5>1. q # r
          BY <3>1
        <5>2. QED BY <1>0, <2>3, <2>4, <3>1, <5>1 DEF Write, TypeOK
      <4>2. At(q, "compile")
        BY <1>0, <4>1, Others DEF At
      <4>3. QED BY <1>0, <2>1, <2>2, <4>1, <4>2
    <3>2. CASE CFile(opts[r]) = CFile(opts[q]) /\ q # r
      <4>1. UnderWay(r) /\ UnderWay(q)
        <5>1. UnderWay(r)
          BY <2>4 DEF Write, At, UnderWay
        <5>2. UnderWay(q)
          BY <1>0, <3>2, Others DEF At, UnderWay
        <5>3. QED BY <5>1, <5>2
      <4>2. r \in met[q]
        BY <1>0, <3>2, <4>1 DEF Acquainted
      <4>3. opts[r].compile # None \/ opts[r].output # None
        BY <1>0, <2>4 DEF Asked, Write, At
      <4>4. QED BY <2>2, <3>2, <4>2, <4>3 DEF Shares, Clash
    <3>3. CASE q = r
      <4>1. file'[CFile(opts[q])] = CText(q)
        BY <1>0, <2>3, <2>4, <3>3 DEF Write, TypeOK
      <4>2. QED BY <2>1, <4>1, ContentsDiffer
    <3>4. QED BY <3>1, <3>2, <3>3
  <2>5. CASE ~Write(r)
    <3>1. At(q, "compile")
      <4>1. CASE q = r
        BY <1>0, <2>5, <4>1 DEF Step, Start, Translate, FindCompiler, Open, Compile, Link,
           RemoveTemp, Conclude, Kill, At, UnderWay, Goto, End, TypeOK, Ends
      <4>2. CASE q # r
        BY <1>0, <4>2, Others DEF At
      <4>3. QED BY <4>1, <4>2
    <3>2. file[CFile(opts[q])] = CText(p)
      <4>1. CText(p) # Empty /\ CText(p) # None /\ \A x \in Runs \cup {None} : CText(p) # Product(x)
        BY ContentsDiffer
      <4>2. /\ file'[CFile(opts[q])] = CText(p) /\ CFile(opts[q]) \in Files
            /\ file \in [Files -> Contents \cup {None}] /\ made[r] \in Runs \cup {None}
        BY <1>0, <2>1, <2>3 DEF TypeOK
      <4>3. CASE UNCHANGED file
        BY <4>2, <4>3
      <4>4. CASE Open(r)
        BY <4>1, <4>2, <4>4 DEF Open
      <4>5. CASE Link(r)
        BY <4>1, <4>2, <4>5 DEF Link
      <4>6. CASE RemoveTemp(r)
        BY <4>1, <4>2, <4>6 DEF RemoveTemp
      <4>7. QED BY <2>5, <4>3, <4>4, <4>5, <4>6 DEF Step, Start, Translate, FindCompiler, Compile,
               Conclude, Kill
    <3>3. QED BY <1>0, <2>2, <3>1, <3>2, <2>1
  <2>6. QED BY <2>4, <2>5
<1>2. ASSUME NEW q \in Runs \ {r} PROVE Made(q)'
  <2>1. pc'[q] = pc[q] /\ made'[q] = made[q] /\ fails'[q] = fails[q]
    BY <1>0, Others
  <2>2. pc[q] # "idle" => (Shares(q) => Shares(q)')
    BY SharesStays
  <2>3. QED BY <1>0, <2>1, <2>2
<1>3. Made(r)'
  <2>1. pc[r] # "idle" => (Shares(r) => Shares(r)')
    BY SharesStays
  <2>2. CASE Compile(r)
    <3>1. CASE pc'[r] = "remove"
      <4>1. fails'[r]
        BY <1>0, <2>2, <3>1 DEF Compile, Goto, TypeOK
      <4>2. QED BY <3>1, <4>1
    <3>2. CASE pc'[r] = "link"
      <4>1. file[CFile(opts[r])] # None /\ file[CFile(opts[r])].kind = "c"
            /\ Compilable(CFile(opts[r])) /\ made'[r] = file[CFile(opts[r])].of
        BY <1>0, <2>2, <3>2 DEF Compile, Goto, TypeOK
      <4>2. PICK p \in Runs : file[CFile(opts[r])] = CText(p)
        BY <1>0, <4>1, ContentsDiffer DEF Compilable, Files, TypeOK
      <4>3. Shares(r) \/ p = r
        BY <1>0, <2>2, <4>1, <4>2 DEF Compile
      <4>4. QED BY <2>1, <2>2, <3>2, <4>1, <4>2, <4>3, ContentsDiffer DEF Compile, At
    <3>3. QED BY <1>0, <2>2, <3>1, <3>2 DEF Compile, Goto, TypeOK
  <2>3. CASE ~Compile(r) /\ pc[r] # "idle"
    <3>1. made'[r] = made[r] /\ (fails[r] => fails'[r])
      BY <1>0, <2>3 DEF Step, Start, Translate, FindCompiler, Open, Write, Link, RemoveTemp, Conclude,
         Kill, TypeOK
    <3>2. /\ pc'[r] = "link" => pc[r] = "link"
          /\ pc'[r] \in {"remove", "done"} => pc[r] \in {"link", "remove", "done"}
      BY <1>0, <2>3 DEF Step, Start, Translate, FindCompiler, Open, Write, Link, RemoveTemp, Conclude,
         Kill, At, Goto, End, TypeOK
    <3>3. Made(r)
      BY <1>0
    <3>4. QED BY <2>1, <2>3, <3>1, <3>2, <3>3
  <2>4. CASE pc[r] = "idle"
    <3>1. pc'[r] = "front"
      BY <1>0, <2>4, Begins
    <3>2. QED BY <3>1
  <2>5. QED BY <2>2, <2>3, <2>4
<1>4. QED BY <1>1, <1>2, <1>3 DEF OwnSource

(* A step does not take its owner from the temporary file before it goes.  *)
LEMMA AccountedStep == ASSUME IInv, NEW r \in Runs, Step(r) PROVE Accounted'
<1>0. TypeOK /\ Asked /\ TmpC \in Files /\ TmpC # None /\ None # "killed"
  BY RunsAssumption DEF IInv, RunsAssumption, ArgWords, Files, Ends
<1>1. ASSUME NEW q \in Runs \ {r}, Owner(q) PROVE Owner(q)'
  BY <1>0, <1>1, Others DEF Owner
<1>2. ASSUME Owner(r), ~Owner(r)' PROVE file'[TmpC] = None
  <2>1. pc[r] # "idle"
    BY <1>0, <1>2, UnsetIs DEF Asked, Owner
  <2>2. opts'[r] = opts[r] /\ ending[r] = None
    BY <1>0, <2>1, Others
  <2>3. /\ pc[r] \in {"write", "compile", "link", "remove"} /\ opts[r].output = None
        /\ ~opts[r].keep
    BY <1>0, <1>2, <2>2 DEF Owner
  <2>4. pc'[r] \notin {"write", "compile", "link", "remove"} \/ ending'[r] # None
    BY <1>2, <2>2, <2>3 DEF Owner
  <2>5. ending'[r] # "killed"
    BY <1>2 DEF Owner
  <2>6. RemoveTemp(r)
    BY <1>0, <2>3, <2>4, <2>5 DEF Step, Start, Translate, FindCompiler, Open, Write, Compile, Link,
       Conclude, Kill, At, Goto, End, Asked, TypeOK
  <2>7. QED BY <1>0, <2>3, <2>6 DEF RemoveTemp, TypeOK
<1>3. ASSUME file[TmpC] = None, file'[TmpC] # None PROVE Owner(r)'
  <2>1. CASE Open(r)
    BY <1>0, <1>3, <2>1 DEF Open, Goto, CFile, Owner, At, TypeOK
  <2>2. CASE Write(r)
    <3>1. CFile(opts[r]) = TmpC
      BY <1>0, <1>3, <2>2 DEF Write, TypeOK
    <3>2. CASE opts[r].output = None
      BY <1>0, <2>2, <3>2 DEF Write, Goto, Owner, At, TypeOK, Asked
    <3>3. CASE opts[r].output = TmpC
      BY <2>2, <3>3 DEF Write, Owner
    <3>4. QED BY <3>1, <3>2, <3>3 DEF CFile
  <2>3. CASE Link(r)
    BY <1>0, <1>3, <2>3 DEF Link, Owner, TypeOK
  <2>4. CASE RemoveTemp(r)
    BY <1>0, <1>3, <2>4 DEF RemoveTemp, TypeOK
  <2>5. CASE UNCHANGED file
    BY <1>3, <2>5
  <2>6. QED BY <2>1, <2>2, <2>3, <2>4, <2>5 DEF Step, Start, Translate, FindCompiler, Compile,
           Conclude, Kill
<1>4. QED BY <1>1, <1>2, <1>3 DEF Accounted, IInv

(* A named file that holds what it should goes on to.                      *)
LEMMA HoldsStep ==
    ASSUME IInv, NEW r \in Runs, Step(r), NEW f \in Files \ {TmpC}, Holds(f),
           \A q \in Runs : opts'[q].compile # f
    PROVE  Holds(f)'
<1>0. TypeOK /\ Asked /\ f # None
  BY RunsAssumption DEF IInv, RunsAssumption, ArgWords
<1>1. CASE Write(r) /\ CFile(opts[r]) = f
  BY <1>0, <1>1 DEF Write, TypeOK, Holds, CFile
<1>2. CASE Open(r) /\ file' # file /\ CFile(opts[r]) = f
  BY <1>0, <1>2 DEF Open, At, Goto, TypeOK, Holds, CFile
<1>3. CASE ~(Write(r) /\ CFile(opts[r]) = f) /\ ~(Open(r) /\ file' # file /\ CFile(opts[r]) = f)
  <2>1. file'[f] = file[f]
    BY <1>0, <1>3 DEF Step, Start, Translate, FindCompiler, Open, Write, Compile, Link, RemoveTemp,
       Conclude, Kill, TypeOK
  <2>2. ASSUME NEW q \in Runs, opts[q].output = f PROVE opts'[q] = opts[q] /\ pc[q] # "idle"
    <3>1. pc[q] # "idle"
      BY <1>0, <2>2, UnsetIs DEF Asked
    <3>2. QED BY <1>0, <3>1, Others
  <2>3. ASSUME NEW q \in Runs, opts[q].output = f, pc[q] = "write", ending[q] \in {None, "killed"}
        PROVE  pc'[q] = "write" /\ ending'[q] \in {None, "killed"}
    <3>1. CASE q = r
      <4>1. CFile(opts[r]) = f
        BY <1>0, <2>3, <3>1 DEF CFile
      <4>2. QED BY <1>0, <1>3, <2>3, <3>1, <4>1 DEF Step, Start, Translate, FindCompiler, Open,
               Compile, Link, RemoveTemp, Conclude, Kill, At, End, TypeOK
    <3>2. CASE q # r
      BY <1>0, <2>3, <3>2, Others
    <3>3. QED BY <3>1, <3>2
  <2>4. QED BY <2>1, <2>2, <2>3 DEF Holds
<1>4. QED BY <1>1, <1>2, <1>3

LEMMA KeptStep == ASSUME IInv, NEW r \in Runs, Step(r) PROVE Kept'
<1> SUFFICES ASSUME NEW q \in Runs, NEW f \in Files \ {TmpC},
                    pc'[q] \in {"compile", "link", "remove", "done"} \/ ending'[q] = "written",
                    opts'[q].output = f, \A p \in Runs : opts'[p].compile # f
             PROVE  Holds(f)'
  BY DEF Kept, Holds
<1>0. TypeOK /\ Asked /\ Kept /\ f # None /\ None \notin Ends
  BY RunsAssumption DEF IInv, RunsAssumption, ArgWords
<1>1. CASE q = r /\ Write(r)
  BY <1>0, <1>1 DEF Write, TypeOK, Holds, CFile
<1>2. CASE ~(q = r /\ Write(r))
  <2>1. /\ pc[q] \in {"compile", "link", "remove", "done"} \/ ending[q] = "written"
        /\ pc[q] # "idle"
    <3>1. CASE q # r
      BY <1>0, <3>1, Others DEF Asked, Ends
    <3>2. CASE q = r /\ pc[r] = "idle"
      <4>1. Start(r) /\ pc'[r] = "front"
        BY <1>0, <3>2, Begins
      <4>2. ending'[r] \in {"answered", "died", None}
        BY <1>0, <4>1 DEF Start, TypeOK
      <4>3. QED BY <1>0, <3>2, <4>1, <4>2 DEF Ends
    <3>3. CASE q = r /\ pc[r] # "idle"
      <4>1. ending[r] = None
        BY <1>0, <3>3, Others
      <4>2. QED BY <1>0, <1>2, <3>3, <4>1 DEF Step, Start, Translate, FindCompiler, Open, Compile,
               Link, RemoveTemp, Conclude, Kill, At, Goto, End, TypeOK, Ends
    <3>4. QED BY <3>1, <3>2, <3>3
  <2>2. opts'[q] = opts[q]
    BY <1>0, <2>1, Others
  <2>3. ASSUME NEW p \in Runs PROVE opts[p].compile # f
    <3>1. CASE pc[p] = "idle"
      BY <1>0, <3>1, UnsetIs DEF Asked
    <3>2. CASE pc[p] # "idle"
      BY <1>0, <3>2, Others
    <3>3. QED BY <3>1, <3>2
  <2>4. Holds(f)
    BY <1>0, <2>1, <2>2, <2>3 DEF Kept
  <2>5. QED BY <2>4, HoldsStep
<1>3. QED BY <1>1, <1>2

LEMMA Starting == Init => IInv
<1> SUFFICES ASSUME Init PROVE IInv
  OBVIOUS
<1>0. TmpC \in Files /\ None \notin Files \cup Ends
  BY RunsAssumption DEF RunsAssumption, ArgWords, Files
<1>1. TypeOK
  BY DEF Init, TypeOK
<1>2. Asked
  BY <1>0 DEF Init, Asked, Ends
<1>3. Acquainted /\ OwnSource /\ Accounted
  BY <1>0 DEF Init, Acquainted, OwnSource, Accounted, UnderWay, At
<1>4. Kept
  BY <1>0 DEF Init, Kept, Ends
<1>5. QED BY <1>1, <1>2, <1>3, <1>4 DEF IInv

LEMMA Stepping == IInv /\ [Next]_vars => IInv'
<1> SUFFICES ASSUME IInv, [Next]_vars PROVE IInv'
  OBVIOUS
<1>1. CASE Next
  <2>1. PICK r \in Runs : Step(r)
    BY <1>1 DEF Next, Step
  <2>2. TypeOK'
    BY TypeStep DEF IInv
  <2>3. QED BY <2>1, <2>2, AskedStep, AcquaintedStep, OwnSourceStep, AccountedStep, KeptStep DEF IInv
<1>2. CASE UNCHANGED vars
  BY <1>2 DEF vars, IInv, TypeOK, Asked, Acquainted, OwnSource, Accounted, Kept, At, UnderWay,
     Shares, Clash, CFile, Owner, Holds
<1>3. QED BY <1>1, <1>2

LEMMA Always == Spec => []IInv
BY Starting, Stepping, PTL DEF Spec
-----------------------------------------------------------------------------
\* However many runs of tigc share a directory, and wherever they fail or are
\* killed: one that reports success has made a program of its own C, unless
\* another that was under way at the same time went through the same C file.
THEOREM OwnProgramAlways == Spec => []OwnProgram
<1>1. IInv => OwnProgram
  <2> SUFFICES ASSUME IInv, NEW r \in Runs, ending[r] = "compiled", made[r] # r
               PROVE  \E q \in Runs : Clash(r, q)
    BY DEF OwnProgram
  <2>1. pc[r] = "done" /\ ~fails[r]
    BY DEF IInv, Asked
  <2>2. QED BY <2>1 DEF IInv, OwnSource, Shares
<1>2. QED BY <1>1, Always, PTL

\* When no run is under way, a temporary C file in the directory was left by a
\* run that was killed, that kept it with -t or that named it itself: no path
\* through a failed build leaves one.
THEOREM NothingLeftAlways == Spec => []NothingLeft
<1>1. IInv => NothingLeft
  <2> SUFFICES ASSUME IInv, \A r \in Runs : ~UnderWay(r), file[TmpC] # None,
                      \A r \in Runs : /\ ending[r] # "killed" /\ ~opts[r].keep
                                      /\ TmpC \notin {opts[r].output, opts[r].compile}
               PROVE  FALSE
    BY DEF NothingLeft
  <2>1. PICK r \in Runs : Owner(r)
    BY DEF IInv, Accounted
  <2>2. ending[r] = None /\ pc[r] # "idle"
    BY <2>1 DEF Owner
  <2>3. QED BY <2>2 DEF UnderWay
<1>2. QED BY <1>1, Always, PTL

\* A file that a run has written under the name -o gives is neither removed nor
\* left empty, but while a run with the same name rewrites it or after one was
\* killed over it, or when a run gives the name to its program.
THEOREM OutputStays == Spec => []OutputKept
<1>1. IInv => OutputKept
  <2> SUFFICES ASSUME IInv, NEW r \in Runs, NEW f \in Files \ {TmpC},
                      ending[r] \in {"written", "compiled"}, opts[r].output = f,
                      \A q \in Runs : opts[q].compile # f
               PROVE  Holds(f)
    BY DEF OutputKept, Holds
  <2>1. pc[r] = "done" \/ ending[r] = "written"
    BY DEF IInv, Asked
  <2>2. QED BY <2>1 DEF IInv, Kept
<1>2. QED BY <1>1, Always, PTL
=============================================================================
