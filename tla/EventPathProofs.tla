--------------------------- MODULE EventPathProofs --------------------------
(***************************************************************************)
(* Proofs about EventPath, for every set of clients, every size of their   *)
(* buffers, every line that a client may send and everything the radio may *)
(* say: what Dispatch tells is what the radio said, and what CSirServer    *)
(* keeps of it is what the clients were told; a command is made of the     *)
(* words of its line, and a SET sets what it says; a client whose buffer   *)
(* was never used by both threads at once is sent what Send and Broadcast  *)
(* accepted for it, whole and in order.                                    *)
(***************************************************************************)
EXTENDS MessageProofs

-----------------------------------------------------------------------------
(* The tokens of a line.                                                   *)

\* The characters of a line, as a client may send it
Chars == (STRING \X Int) \cup {Space}

\* Every line of a client is made of them.
LEMMA LineOfChars ==
    ASSUME NEW line, line \in ClientLines
    PROVE  line \in Seq(Chars)
<1>1. PICK A : A = STRING \X Int
  OBVIOUS
<1>2. line \in Seq(A)
  BY ONLY <1>1, line \in ClientLines, ClientLinesAssumption
<1>3. A \subseteq Chars
  BY ONLY <1>1 DEF Chars
<1> QED
  BY ONLY <1>2, <1>3

\* Tokens; while the loop of StrTokenize goes, those it has and the one it is
\* at
Tokens == Seq(Seq(Chars))

Splits == [tokens : Tokens, sub : Seq(Chars)]

SplitStep(acc, c) ==
    IF c = Space THEN [tokens |-> Append(acc.tokens, acc.sub), sub |-> <<>>]
                 ELSE [tokens |-> acc.tokens, sub |-> Append(acc.sub, c)]

NoSplit == [tokens |-> <<>>, sub |-> <<>>]

\* What the loop has after each character
SplitSteps(g, chars) ==
    /\ g \in [0 .. Len(chars) -> Splits] /\ g[0] = NoSplit
    /\ \A k \in 1 .. Len(chars) : g[k] = SplitStep(g[k - 1], chars[k])

\* What the loop has, in its parts
LEMMA SplitParts ==
    ASSUME NEW acc, acc \in Splits
    PROVE  /\ acc.tokens \in Tokens /\ acc.sub \in Seq(Chars)
           /\ acc = [tokens |-> acc.tokens, sub |-> acc.sub]
BY DEF Splits

LEMMA SplitMade ==
    ASSUME NEW t, t \in Tokens, NEW s, s \in Seq(Chars)
    PROVE  [tokens |-> t, sub |-> s] \in Splits
BY DEF Splits

LEMMA SplitTyped ==
    ASSUME NEW acc, acc \in Splits, NEW c, c \in Chars
    PROVE  SplitStep(acc, c) \in Splits
<1>1. acc.tokens \in Tokens /\ acc.sub \in Seq(Chars)
  BY ONLY acc \in Splits, SplitParts
<1>2. Append(acc.tokens, acc.sub) \in Tokens /\ <<>> \in Seq(Chars) /\ Append(acc.sub, c) \in Seq(Chars)
  BY ONLY <1>1, c \in Chars DEF Tokens
<1>3. [tokens |-> Append(acc.tokens, acc.sub), sub |-> <<>>] \in Splits
  BY ONLY <1>2, SplitMade
<1>4. [tokens |-> acc.tokens, sub |-> Append(acc.sub, c)] \in Splits
  BY ONLY <1>1, <1>2, SplitMade
<1> QED
  BY ONLY <1>3, <1>4 DEF SplitStep

\* Split is one step of the loop for every character.
LEMMA SplitChain ==
    ASSUME NEW chars, chars \in Seq(Chars)
    PROVE  \E g : SplitSteps(g, chars) /\ Split(chars) = g[Len(chars)]
<1>1. PICK n \in Nat : n = Len(chars) /\ DOMAIN chars = 1 .. n /\ \A k \in 1 .. n : chars[k] \in Chars
  OBVIOUS
<1> DEFINE step == [p \in Splits \X (1 .. n) |-> SplitStep(p[1], chars[p[2]])]
           eq(it) == it = [i \in SUBSET DOMAIN chars |->
                             IF i = {} THEN NoSplit
                             ELSE IF chars[Max(i)] = Space
                                    THEN [tokens |-> Append(it[i \ {Max(i)}].tokens, it[i \ {Max(i)}].sub),
                                          sub |-> <<>>]
                                    ELSE [it[i \ {Max(i)}] EXCEPT !.sub = Append(@, chars[Max(i)])]]
           it0 == CHOOSE it : eq(it)
<1>2. step \in [Splits \X (1 .. n) -> Splits] /\ NoSplit \in Splits
  <2>1. \A p \in Splits \X (1 .. n) : SplitStep(p[1], chars[p[2]]) \in Splits
    BY ONLY <1>1, SplitTyped
  <2>2. NoSplit \in Splits
    BY ONLY DEF NoSplit, Splits, Tokens
  <2> QED
    BY <2>1, <2>2
<1>3. \A a \in Splits, k \in 1 .. n : step[<<a, k>>] = SplitStep(a, chars[k])
  OBVIOUS
<1>4. \A a \in Splits : \A c :
         SplitStep(a, c) = IF c = Space THEN [tokens |-> Append(a.tokens, a.sub), sub |-> <<>>]
                                        ELSE [a EXCEPT !.sub = Append(@, c)]
  BY ONLY DEF SplitStep, Splits
<1>5. \E it : eq(it)
  <2>1. PICK it \in [SUBSET (1 .. n) -> Splits] : Recursion(it, n, NoSplit, step)
    <3> HIDE DEF step
    <3> QED
      BY <1>2, RecursionExists
  <2>2. ASSUME NEW i \in SUBSET DOMAIN chars, i # {}
        PROVE  it[i] = SplitStep(it[i \ {Max(i)}], chars[Max(i)]) /\ it[i \ {Max(i)}] \in Splits
    <3> HIDE DEF step
    <3>1. Max(i) \in i /\ it[i] = step[<<it[i \ {Max(i)}], Max(i)>>]
      BY <1>1, <2>1, <2>2 DEF Recursion
    <3>2. it[i \ {Max(i)}] \in Splits /\ Max(i) \in 1 .. n
      BY <1>1, <2>1, <3>1
    <3> QED
      BY <1>3, <3>1, <3>2
  <2>3. it[{}] = NoSplit
    BY <2>1 DEF Recursion
  <2>4. ASSUME NEW i \in SUBSET DOMAIN chars
        PROVE  it[i] = IF i = {} THEN NoSplit
                             ELSE IF chars[Max(i)] = Space
                                    THEN [tokens |-> Append(it[i \ {Max(i)}].tokens, it[i \ {Max(i)}].sub),
                                          sub |-> <<>>]
                                    ELSE [it[i \ {Max(i)}] EXCEPT !.sub = Append(@, chars[Max(i)])]
    BY <1>4, <2>2, <2>3
  <2>5. it \in [SUBSET DOMAIN chars -> Splits]
    BY <1>1, <2>1
  <2>6. eq(it)
    BY <2>4, <2>5
  <2> QED
    BY <2>6
<1>6. eq(it0)
  BY <1>5
<1>7. Split(chars) = it0[DOMAIN chars]
  BY DEF Split, FoldLeft, MapThenFoldSet, NoSplit
<1>8. /\ it0[{}] = NoSplit
      /\ \A i \in SUBSET DOMAIN chars : i # {} =>
           it0[i] = IF chars[Max(i)] = Space
                      THEN [tokens |-> Append(it0[i \ {Max(i)}].tokens, it0[i \ {Max(i)}].sub),
                            sub |-> <<>>]
                      ELSE [it0[i \ {Max(i)}] EXCEPT !.sub = Append(@, chars[Max(i)])]
  BY <1>6
<1> HIDE DEF it0, eq, step
<1>9. ASSUME NEW i \in SUBSET (1 .. n), i # {}, it0[i \ {Max(i)}] \in Splits
      PROVE  it0[i] = step[<<it0[i \ {Max(i)}], Max(i)>>]
  <2>1. Max(i) \in 1 .. n
    BY <1>1, <1>2, <1>9, RecursionExists DEF Recursion
  <2>2. it0[i] = SplitStep(it0[i \ {Max(i)}], chars[Max(i)])
    <3>1. PICK x, c : x = it0[i \ {Max(i)}] /\ c = chars[Max(i)]
      OBVIOUS
    <3>2. i \in SUBSET DOMAIN chars /\ i # {}
      BY <1>1, <1>9
    <3>3. it0[i] = IF c = Space THEN [tokens |-> Append(x.tokens, x.sub), sub |-> <<>>]
                                ELSE [x EXCEPT !.sub = Append(@, c)]
      BY ONLY <1>8, <3>1, <3>2
    <3>5. x \in Splits
      BY <1>9, <3>1
    <3>4. it0[i] = SplitStep(x, c)
      BY ONLY <1>4, <3>3, <3>5
    <3> QED
      BY ONLY <3>1, <3>4
  <2> QED
    BY <1>3, <1>9, <2>1, <2>2
<1>10. Follows(it0, Splits, n, NoSplit, step)
  BY <1>2, <1>8, <1>9 DEF Follows
<1>11. PICK g : Chain(g, Splits, n, NoSplit, step) /\ it0[1 .. n] = g[n]
  BY <1>10, FoldChain
<1>12. g \in [0 .. n -> Splits] /\ g[0] = NoSplit /\ \A k \in 1 .. n : g[k] = step[<<g[k - 1], k>>]
  BY ONLY <1>11 DEF Chain
<1>13. ASSUME NEW k \in 1 .. n PROVE g[k] = SplitStep(g[k - 1], chars[k])
  <2>1. k - 1 \in 0 .. n
    BY ONLY n \in Nat, k \in 1 .. n
  <2> QED
    BY ONLY <1>3, <1>12, <2>1, k \in 1 .. n
<1>14. SplitSteps(g, chars)
  BY ONLY <1>1, <1>12, <1>13 DEF SplitSteps
<1> QED
  BY ONLY <1>1, <1>7, <1>11, <1>14

\* StrTokenize returns tokens.
LEMMA TokensTyped ==
    ASSUME NEW chars, chars \in Seq(Chars)
    PROVE  StrTokenize(chars) \in Tokens
<1>1. PICK g : SplitSteps(g, chars) /\ Split(chars) = g[Len(chars)]
  BY SplitChain
<1>2. Len(chars) \in 0 .. Len(chars)
  BY ONLY chars \in Seq(Chars)
<1>3. Split(chars) \in Splits
  BY ONLY <1>1, <1>2 DEF SplitSteps
<1>4. PICK s : s = Split(chars)
  OBVIOUS
<1>5. s.tokens \in Tokens /\ s.sub \in Seq(Chars)
  BY ONLY <1>3, <1>4, SplitParts
<1>6. Append(s.tokens, s.sub) \in Tokens
  BY ONLY <1>5 DEF Tokens
<1> QED
  BY ONLY <1>4, <1>5, <1>6 DEF StrTokenize

-----------------------------------------------------------------------------
(* The tokens, joined by spaces, are the line.                             *)

\* A space is a character.
LEMMA SpaceTyped == Space \in Chars /\ <<Space>> \in Seq(Chars)
<1>1. Space \in Chars
  BY ONLY DEF Chars
<1> QED
  BY ONLY <1>1

\* A token as Joined has it: after the first, each follows a space.
Padding(tokens, t) == IF tokens = <<>> THEN t ELSE <<Space>> \o t

Padded(tokens) == [k \in DOMAIN tokens |-> IF k = 1 THEN tokens[k] ELSE <<Space>> \o tokens[k]]

\* A token with its space
LEMMA PaddingTyped ==
    ASSUME NEW tokens, NEW t, t \in Seq(Chars)
    PROVE  Padding(tokens, t) \in Seq(Chars)
<1>1. PICK u : u = <<Space>>
  OBVIOUS
<1>2. u \o t \in Seq(Chars)
  BY ONLY <1>1, SpaceTyped, t \in Seq(Chars)
<1> QED
  BY ONLY <1>1, <1>2, t \in Seq(Chars) DEF Padding

LEMMA PaddedTyped ==
    ASSUME NEW tokens, tokens \in Tokens
    PROVE  Padded(tokens) \in Tokens
<1>1. PICK T : T = Seq(Chars)
  OBVIOUS
<1>2. tokens \in Seq(T)
  BY ONLY <1>1, tokens \in Tokens DEF Tokens
<1>3. PICK p : p = Padded(tokens)
  OBVIOUS
<1>4. PICK u : u = <<Space>>
  OBVIOUS
<1>5. ASSUME NEW k \in DOMAIN tokens PROVE p[k] \in T
  <2>1. tokens[k] \in T
    BY ONLY <1>2, <1>5
  <2>2. u \o tokens[k] \in T
    BY ONLY <1>1, <1>4, <2>1, SpaceTyped
  <2>3. p[k] = IF k = 1 THEN tokens[k] ELSE u \o tokens[k]
    BY ONLY <1>3, <1>4, <1>5 DEF Padded
  <2> QED
    BY ONLY <2>1, <2>2, <2>3
<1>6. p = [k \in 1 .. Len(tokens) |-> p[k]] /\ DOMAIN tokens = 1 .. Len(tokens) /\ Len(tokens) \in Nat
  BY ONLY <1>2, <1>3 DEF Padded
<1>7. p \in Seq(T)
  BY ONLY <1>5, <1>6
<1> QED
  BY ONLY <1>1, <1>3, <1>7 DEF Tokens

\* One more token
LEMMA PaddedAppend ==
    ASSUME NEW tokens, tokens \in Tokens, NEW t, t \in Seq(Chars)
    PROVE  Padded(Append(tokens, t)) = Append(Padded(tokens), Padding(tokens, t))
<1>1. PICK T : T = Seq(Chars)
  OBVIOUS
<1>2. tokens \in Seq(T) /\ t \in T
  BY ONLY <1>1, tokens \in Tokens, t \in Seq(Chars) DEF Tokens
<1>3. PICK p : p = Padded(tokens)
  OBVIOUS
<1>4. p \in Seq(T)
  BY ONLY <1>1, <1>3, tokens \in Tokens, PaddedTyped DEF Tokens
<1>5. PICK y : y = Padding(tokens, t)
  OBVIOUS
<1>6. PICK a : a = Append(tokens, t)
  OBVIOUS
<1>7. PICK n \in Nat : n = Len(tokens)
  BY ONLY <1>2
<1>8. a \in Seq(T) /\ Len(a) = n + 1 /\ a[n + 1] = t /\ \A k \in 1 .. n : a[k] = tokens[k]
  BY ONLY <1>2, <1>6, <1>7
<1>9. PICK q : q = Padded(a)
  OBVIOUS
<1>10. q \in Seq(T)
  <2>1. a \in Tokens
    BY ONLY <1>1, <1>8 DEF Tokens
  <2> QED
    BY ONLY <1>1, <1>9, <2>1, PaddedTyped DEF Tokens
<1>11. DOMAIN q = 1 .. n + 1 /\ DOMAIN p = 1 .. n
  BY ONLY <1>2, <1>3, <1>7, <1>8, <1>9 DEF Padded
<1>12. Len(q) = n + 1 /\ Len(p) = n
  BY ONLY <1>4, <1>7, <1>10, <1>11
<1>13. PICK v : v = <<Space>>
  OBVIOUS
<1>14. ASSUME NEW k \in 1 .. n PROVE q[k] = p[k]
  <2>1. k \in DOMAIN a /\ k \in DOMAIN tokens /\ a[k] = tokens[k]
    BY ONLY <1>2, <1>7, <1>8, <1>14
  <2>2. q[k] = IF k = 1 THEN a[k] ELSE v \o a[k]
    BY ONLY <1>9, <1>13, <2>1 DEF Padded
  <2>3. p[k] = IF k = 1 THEN tokens[k] ELSE v \o tokens[k]
    BY ONLY <1>3, <1>13, <2>1 DEF Padded
  <2> QED
    BY ONLY <2>1, <2>2, <2>3
<1>15. q[n + 1] = y
  <2>1. n + 1 \in DOMAIN a
    BY ONLY <1>8
  <2>2. q[n + 1] = IF n + 1 = 1 THEN a[n + 1] ELSE v \o a[n + 1]
    BY ONLY <1>9, <1>13, <2>1 DEF Padded
  <2>3. y = IF tokens = <<>> THEN t ELSE v \o t
    BY ONLY <1>5, <1>13 DEF Padding
  <2>4. tokens = <<>> <=> n + 1 = 1
    BY ONLY <1>2, <1>7
  <2> QED
    BY ONLY <1>8, <2>2, <2>3, <2>4
<1>16. y \in T
  BY ONLY <1>1, <1>5, t \in Seq(Chars), PaddingTyped
<1>17. PICK r : r = Append(p, y)
  OBVIOUS
<1>18. r \in Seq(T) /\ Len(r) = n + 1 /\ r[n + 1] = y /\ \A k \in 1 .. n : r[k] = p[k]
  BY ONLY <1>4, <1>12, <1>16, <1>17
<1>19. \A k \in 1 .. n + 1 : q[k] = r[k]
  BY ONLY <1>14, <1>15, <1>18
<1>20. q = r
  BY ONLY <1>10, <1>12, <1>18, <1>19
<1> QED
  BY ONLY <1>3, <1>5, <1>6, <1>9, <1>17, <1>20

\* One more token, in the line
LEMMA JoinedAppend ==
    ASSUME NEW tokens, tokens \in Tokens, NEW t, t \in Seq(Chars)
    PROVE  /\ Joined(tokens) \in Seq(Chars)
           /\ Joined(Append(tokens, t)) = Joined(tokens) \o Padding(tokens, t)
<1>1. Padded(tokens) \in Seq(Seq(Chars))
  BY ONLY tokens \in Tokens, PaddedTyped DEF Tokens
<1>2. PICK y : y = Padding(tokens, t)
  OBVIOUS
<1>3. y \in Seq(Chars)
  BY ONLY <1>2, t \in Seq(Chars), PaddingTyped
<1>4. PICK p : p = Padded(tokens)
  OBVIOUS
<1>5. p \in Seq(Seq(Chars))
  BY ONLY <1>1, <1>4
<1>6. FlattenSeq(p) \in Seq(Chars) /\ FlattenSeq(Append(p, y)) = FlattenSeq(p) \o y
  BY ONLY <1>3, <1>5, FlattenAppend
<1>7. Padded(Append(tokens, t)) = Append(p, y)
  BY ONLY <1>2, <1>4, tokens \in Tokens, t \in Seq(Chars), PaddedAppend
<1>8. \A u : Joined(u) = FlattenSeq(Padded(u))
  BY ONLY DEF Joined, Padded
<1> QED
  BY ONLY <1>2, <1>4, <1>6, <1>7, <1>8

\* No tokens are an empty line.
LEMMA JoinedNothing == Joined(<<>>) = <<>>
<1>1. <<>> \in Seq(Seq(Chars))
  OBVIOUS
<1>2. PICK ss : ss = <<>>
  OBVIOUS
<1>3. PICK g : g = [k \in 0 .. 0 |-> <<>>]
  OBVIOUS
<1>4. ss \in Seq(Seq(Chars)) /\ Len(ss) = 0
  BY ONLY <1>1, <1>2
<1>5. Flattens(g, ss) /\ g[0] = <<>>
  BY ONLY <1>3, <1>4 DEF Flattens
<1>6. FlattenSeq(ss) = <<>>
  BY ONLY <1>4, <1>5, FlattenIs
<1>7. Padded(<<>>) = <<>>
  BY ONLY DEF Padded
<1>8. Joined(<<>>) = FlattenSeq(Padded(<<>>))
  BY ONLY DEF Joined, Padded
<1> QED
  BY ONLY <1>2, <1>6, <1>7, <1>8

\* What the loop has after the first k characters: tokens without a space that,
\* with what it is at, are those k characters.
Splitting(s, chars, k) ==
    /\ s \in Splits
    /\ \A j \in DOMAIN s.tokens : ~ Contains(s.tokens[j], Space)
    /\ ~ Contains(s.sub, Space)
    /\ Joined(Append(s.tokens, s.sub)) = SubSeq(chars, 1, k)
    /\ k = 0 => s = NoSplit
    /\ k > 0 => ((s.sub = <<>>) <=> (chars[k] = Space))
    /\ k > 0 /\ s.sub = <<>> => s.tokens # <<>>

\* A token without a space, with one more character
LEMMA AppendContains ==
    ASSUME NEW s, s \in Seq(Chars), NEW c, c \in Chars, c # Space, ~ Contains(s, Space)
    PROVE  ~ Contains(Append(s, c), Space)
<1>1. PICK r : r = Append(s, c)
  OBVIOUS
<1>2. /\ Len(s) \in Nat /\ Len(r) = Len(s) + 1 /\ r[Len(s) + 1] = c
      /\ \A j \in 1 .. Len(s) : r[j] = s[j]
  BY ONLY <1>1, s \in Seq(Chars), c \in Chars
<1>3. \A j \in 1 .. Len(s) : s[j] # Space
  BY ONLY ~ Contains(s, Space) DEF Contains
<1>4. \A j \in 1 .. Len(r) : r[j] # Space
  BY ONLY <1>2, <1>3, c # Space
<1> QED
  BY ONLY <1>1, <1>4 DEF Contains

\* A character at the end
LEMMA ConcatOne ==
    ASSUME NEW s, s \in Seq(Chars), NEW t, t \in Seq(Chars), NEW c, c \in Chars
    PROVE  s \o Append(t, c) = Append(s \o t, c)
OBVIOUS

\* The first k characters are the first k - 1, and the k-th.
LEMMA PrefixAppend ==
    ASSUME NEW chars, chars \in Seq(Chars), NEW k, k \in 1 .. Len(chars)
    PROVE  SubSeq(chars, 1, k) = Append(SubSeq(chars, 1, k - 1), chars[k])
<1>1. k - 1 \in 0 .. Len(chars) /\ k \in 0 .. Len(chars) /\ Len(chars) \in Nat
  BY ONLY chars \in Seq(Chars), k \in 1 .. Len(chars)
<1>2. PICK p : p = SubSeq(chars, 1, k - 1)
  OBVIOUS
<1>3. p \in Seq(Chars) /\ Len(p) = k - 1 /\ \A j \in 1 .. k - 1 : p[j] = chars[j]
  BY ONLY <1>1, <1>2, chars \in Seq(Chars), PrefixFacts
<1>4. PICK q : q = SubSeq(chars, 1, k)
  OBVIOUS
<1>5. q \in Seq(Chars) /\ Len(q) = k /\ \A j \in 1 .. k : q[j] = chars[j]
  BY ONLY <1>1, <1>4, chars \in Seq(Chars), PrefixFacts
<1>6. chars[k] \in Chars
  BY ONLY chars \in Seq(Chars), k \in 1 .. Len(chars)
<1>7. PICK r : r = Append(p, chars[k])
  OBVIOUS
<1>8. r \in Seq(Chars) /\ Len(r) = k /\ r[k] = chars[k] /\ \A j \in 1 .. k - 1 : r[j] = p[j]
  BY ONLY <1>1, <1>3, <1>6, <1>7
<1>9. \A j \in 1 .. k : q[j] = r[j]
  BY ONLY <1>1, <1>3, <1>5, <1>8
<1>10. q = r
  BY ONLY <1>5, <1>8, <1>9
<1> QED
  BY ONLY <1>2, <1>4, <1>7, <1>10

\* One more character
LEMMA SplittingStep ==
    ASSUME NEW chars, chars \in Seq(Chars), NEW k, k \in 1 .. Len(chars),
           NEW s, Splitting(s, chars, k - 1)
    PROVE  Splitting(SplitStep(s, chars[k]), chars, k)
<1>1. PICK c : c = chars[k]
  OBVIOUS
<1>2. c \in Chars /\ k > 0
  BY ONLY <1>1, chars \in Seq(Chars), k \in 1 .. Len(chars)
<1>3. PICK t, b : t = s.tokens /\ b = s.sub
  OBVIOUS
<1>4. t \in Tokens /\ b \in Seq(Chars)
  BY ONLY <1>3, Splitting(s, chars, k - 1), SplitParts DEF Splitting
<1>5. /\ \A j \in DOMAIN t : ~ Contains(t[j], Space)
      /\ ~ Contains(b, Space)
      /\ Joined(Append(t, b)) = SubSeq(chars, 1, k - 1)
      /\ s \in Splits
  BY ONLY <1>3, Splitting(s, chars, k - 1) DEF Splitting
<1>6. PICK u : u = Append(t, b)
  OBVIOUS
<1>7. u \in Tokens /\ u # <<>> /\ \A j \in DOMAIN u : ~ Contains(u[j], Space)
  <2>1. PICK T : T = Seq(Chars)
    OBVIOUS
  <2>2. t \in Seq(T) /\ b \in T
    BY ONLY <1>4, <2>1 DEF Tokens
  <2>3. /\ u \in Seq(T) /\ u # <<>> /\ DOMAIN u = 1 .. Len(t) + 1 /\ u[Len(t) + 1] = b
        /\ Len(t) \in Nat /\ \A j \in 1 .. Len(t) : j \in DOMAIN t /\ u[j] = t[j]
    <3>1. t \in Seq(T)
      BY ONLY <2>2
    <3>2. b \in T
      BY ONLY <2>2
    <3>3. /\ u \in Seq(T) /\ u # <<>> /\ Len(u) = Len(t) + 1 /\ u[Len(t) + 1] = b
          /\ \A j \in 1 .. Len(t) : u[j] = t[j]
      BY ONLY <1>6, <3>1, <3>2, AppendProperties
    <3>4. Len(t) \in Nat /\ DOMAIN t = 1 .. Len(t) /\ DOMAIN u = 1 .. Len(u)
      BY ONLY <3>1, <3>3
    <3> QED
      BY ONLY <3>3, <3>4
  <2> QED
    <3>1. u \in Tokens
      BY ONLY <2>1, <2>3 DEF Tokens
    <3>2. \A j \in DOMAIN u : ~ Contains(u[j], Space)
      <4> SUFFICES ASSUME NEW j \in DOMAIN u PROVE ~ Contains(u[j], Space)
        OBVIOUS
      <4>1. CASE j = Len(t) + 1
        BY ONLY <1>5, <2>3, <4>1
      <4>2. CASE j # Len(t) + 1
        <5>1. j \in 1 .. Len(t)
          BY ONLY <2>3, <4>2, j \in DOMAIN u
        <5>2. j \in DOMAIN t /\ u[j] = t[j]
          BY ONLY <2>3, <5>1
        <5> QED
          BY ONLY <1>5, <5>2
      <4> QED
        BY ONLY <4>1, <4>2
    <3> QED
      BY ONLY <2>3, <3>1, <3>2
<1>8. PICK n : n = SplitStep(s, c)
  OBVIOUS
<1>9. n \in Splits
  BY ONLY <1>2, <1>5, <1>8, SplitTyped
<1>10. PICK w : w = SubSeq(chars, 1, k)
  OBVIOUS
<1>11. w = Append(SubSeq(chars, 1, k - 1), c)
  BY ONLY <1>1, <1>10, chars \in Seq(Chars), k \in 1 .. Len(chars), PrefixAppend
<1>12. CASE c = Space
  <2>1. n.tokens = u /\ n.sub = <<>>
    BY ONLY <1>3, <1>6, <1>8, <1>12 DEF SplitStep
  <2>2. <<>> \in Seq(Chars)
    OBVIOUS
  <2>3. PICK v : v = <<Space>>
    OBVIOUS
  <2>4. v \in Seq(Chars)
    BY ONLY <2>3, SpaceTyped
  <2>5. Padding(u, <<>>) = v \o <<>>
    BY ONLY <1>7, <2>3 DEF Padding
  <2>6. v \o <<>> = v
    BY ONLY <2>4
  <2>7. PICK j : j = Joined(u)
    OBVIOUS
  <2>8. j \in Seq(Chars) /\ Joined(Append(u, <<>>)) = j \o v
    BY ONLY <1>7, <2>2, <2>5, <2>6, <2>7, JoinedAppend
  <2>9. w = Append(j, Space)
    BY ONLY <1>5, <1>6, <1>11, <1>12, <2>7
  <2>10. j \o v = Append(j, Space)
    <3>1. PICK x : x = Space
      OBVIOUS
    <3>2. x \in Chars /\ v = <<x>>
      BY ONLY <2>3, <3>1, SpaceTyped
    <3>3. j \o v = Append(j, x)
      BY ONLY <2>8, <3>2
    <3> QED
      BY ONLY <3>1, <3>3
  <2>11. Joined(Append(n.tokens, n.sub)) = w
    BY ONLY <2>1, <2>8, <2>9, <2>10
  <2>12. ~ Contains(n.sub, Space)
    BY ONLY <2>1, NothingContained
  <2> QED
    BY ONLY <1>1, <1>2, <1>7, <1>8, <1>9, <1>10, <1>12, <2>1, <2>11, <2>12 DEF Splitting
<1>13. CASE c # Space
  <2>1. n.tokens = t /\ n.sub = Append(b, c)
    BY ONLY <1>3, <1>8, <1>13 DEF SplitStep
  <2>2. PICK e : e = Append(b, c)
    OBVIOUS
  <2>3. e \in Seq(Chars) /\ e # <<>>
    BY ONLY <1>2, <1>4, <2>2
  <2>4. ~ Contains(e, Space)
    BY ONLY <1>2, <1>4, <1>5, <1>13, <2>2, AppendContains
  <2>5. PICK j : j = Joined(t)
    OBVIOUS
  <2>6. PICK x, y : x = Padding(t, b) /\ y = Padding(t, e)
    OBVIOUS
  <2>7. /\ j \in Seq(Chars) /\ Joined(Append(t, b)) = j \o x
        /\ Joined(Append(t, e)) = j \o y
    BY ONLY <1>4, <2>3, <2>5, <2>6, JoinedAppend
  <2>8. x \in Seq(Chars) /\ y = Append(x, c)
    <3>1. x \in Seq(Chars)
      BY ONLY <1>4, <2>6, PaddingTyped
    <3>2. CASE t = <<>>
      BY ONLY <2>2, <2>6, <3>1, <3>2 DEF Padding
    <3>3. CASE t # <<>>
      <4>1. PICK v : v = <<Space>>
        OBVIOUS
      <4>2. v \in Seq(Chars)
        BY ONLY <4>1, SpaceTyped
      <4>3. x = v \o b /\ y = v \o e
        BY ONLY <2>6, <3>3, <4>1 DEF Padding
      <4>4. v \o Append(b, c) = Append(v \o b, c)
        BY ONLY <1>2, <1>4, <4>2, ConcatOne
      <4> QED
        BY ONLY <2>2, <3>1, <4>3, <4>4
    <3> QED
      BY ONLY <3>2, <3>3
  <2>9. j \o Append(x, c) = Append(j \o x, c)
    BY ONLY <1>2, <2>7, <2>8, ConcatOne
  <2>10. Joined(Append(n.tokens, n.sub)) = w
    BY ONLY <1>5, <1>11, <2>1, <2>2, <2>7, <2>8, <2>9
  <2>11. (n.sub = <<>>) = FALSE /\ (chars[k] = Space) = FALSE /\ ~ Contains(n.sub, Space)
    BY ONLY <1>1, <1>13, <2>1, <2>2, <2>3, <2>4
  <2>12. \A i \in DOMAIN n.tokens : ~ Contains(n.tokens[i], Space)
    BY ONLY <1>5, <2>1
  <2> QED
    BY ONLY <1>1, <1>2, <1>8, <1>9, <1>10, <2>10, <2>11, <2>12 DEF Splitting
<1> QED
  BY ONLY <1>12, <1>13

\* After the last character, that is so of the whole line.
LEMMA SplittingAll ==
    ASSUME NEW chars, chars \in Seq(Chars)
    PROVE  Splitting(Split(chars), chars, Len(chars))
<1>1. PICK g : SplitSteps(g, chars) /\ Split(chars) = g[Len(chars)]
  BY ONLY chars \in Seq(Chars), SplitChain
<1>2. PICK n \in Nat : n = Len(chars)
  BY ONLY chars \in Seq(Chars)
<1>3. PICK S : S = {k \in Nat : k <= n => Splitting(g[k], chars, k)}
  OBVIOUS
<1>4. 0 \in S
  <2>1. g[0] = NoSplit /\ g[0] \in Splits
    BY ONLY <1>1, <1>2 DEF SplitSteps
  <2>2. g[0].tokens = <<>> /\ g[0].sub = <<>>
    BY ONLY <2>1 DEF NoSplit
  <2>3. PICK e : e = <<>>
    OBVIOUS
  <2>4. e \in Tokens /\ e \in Seq(Chars) /\ Padding(e, e) = e /\ Joined(e) = e
    BY ONLY <2>3, JoinedNothing DEF Tokens, Padding
  <2>5. Joined(Append(e, e)) = e \o e
    BY ONLY <2>4, JoinedAppend
  <2>6. e \o e = e
    BY ONLY <2>3
  <2>7. SubSeq(chars, 1, 0) = e
    <3>1. PICK p : p = SubSeq(chars, 1, 0)
      OBVIOUS
    <3>2. 0 \in 0 .. Len(chars)
      BY ONLY <1>2
    <3>3. p \in Seq(Chars) /\ Len(p) = 0
      BY ONLY <3>1, <3>2, chars \in Seq(Chars), PrefixFacts
    <3> QED
      BY ONLY <2>3, <3>1, <3>3
  <2>8. Joined(Append(g[0].tokens, g[0].sub)) = SubSeq(chars, 1, 0)
    BY ONLY <2>2, <2>3, <2>5, <2>6, <2>7
  <2>9. \A j \in DOMAIN g[0].tokens : ~ Contains(g[0].tokens[j], Space)
    BY ONLY <2>2
  <2>10. ~ Contains(g[0].sub, Space)
    BY ONLY <2>2, NothingContained
  <2>11. Splitting(g[0], chars, 0)
    BY ONLY <2>1, <2>8, <2>9, <2>10 DEF Splitting
  <2> QED
    BY ONLY <1>3, <2>11
<1>5. ASSUME NEW k \in Nat, k \in S PROVE k + 1 \in S
  <2>1. ASSUME k + 1 <= n PROVE Splitting(g[k + 1], chars, k + 1)
    <3>1. k + 1 \in 1 .. Len(chars) /\ (k + 1) - 1 = k
      BY ONLY <1>2, <1>5, <2>1
    <3>2. Splitting(g[k], chars, k)
      BY ONLY <1>2, <1>3, <1>5, <2>1
    <3>3. g[k + 1] = SplitStep(g[k], chars[k + 1])
      BY ONLY <1>1, <3>1 DEF SplitSteps
    <3>4. PICK i : i = k + 1
      OBVIOUS
    <3>5. Splitting(SplitStep(g[k], chars[i]), chars, i)
      BY ONLY <3>1, <3>2, <3>4, chars \in Seq(Chars), SplittingStep
    <3> QED
      BY ONLY <3>3, <3>4, <3>5
  <2> QED
    BY ONLY <1>3, <1>5, <2>1
<1>6. n \in S
  BY ONLY <1>2, <1>4, <1>5, NatSetInduction
<1> QED
  BY ONLY <1>1, <1>2, <1>3, <1>6

\* What LinesTokenized says of one line
LEMMA LineTokenized ==
    ASSUME NEW line, line \in Seq(Chars), NEW tokens, tokens = StrTokenize(line),
           NEW ended, ended = (line # <<>> /\ Last(line) = Space)
    PROVE  /\ \A k \in DOMAIN tokens : ~ Contains(tokens[k], Space)
           /\ Joined(tokens) \o (IF ended THEN <<Space>> ELSE <<>>) = line
           /\ ~ ended /\ tokens # <<>> => Last(tokens) # <<>>
<1>1. PICK s : s = Split(line)
  OBVIOUS
<1>2. PICK n \in Nat : n = Len(line)
  BY ONLY line \in Seq(Chars)
<1>3. Splitting(s, line, n)
  BY ONLY <1>1, <1>2, line \in Seq(Chars), SplittingAll
<1>4. PICK t, b : t = s.tokens /\ b = s.sub
  OBVIOUS
<1>5. t \in Tokens /\ b \in Seq(Chars)
  BY ONLY <1>3, <1>4, SplitParts DEF Splitting
<1>6. PICK T : T = Seq(Chars)
  OBVIOUS
<1>7. t \in Seq(T) /\ b \in T
  BY ONLY <1>5, <1>6 DEF Tokens
<1>8. tokens = IF b = <<>> THEN t ELSE Append(t, b)
  BY ONLY <1>1, <1>4, tokens = StrTokenize(line) DEF StrTokenize
<1>9. PICK u : u = Append(t, b)
  OBVIOUS
<1>10. /\ u # <<>> /\ DOMAIN u = 1 .. Len(t) + 1 /\ u[Len(t) + 1] = b /\ Last(u) = b
       /\ Len(t) \in Nat /\ DOMAIN t = 1 .. Len(t) /\ \A j \in 1 .. Len(t) : u[j] = t[j]
  BY ONLY <1>7, <1>9 DEF Last
<1>11. Joined(u) = line
  <2>1. PICK p : p = SubSeq(line, 1, n)
    OBVIOUS
  <2>2. n \in 0 .. Len(line)
    BY ONLY <1>2
  <2>3. p \in Seq(Chars) /\ Len(p) = n /\ \A k \in 1 .. n : p[k] = line[k]
    BY ONLY <2>1, <2>2, line \in Seq(Chars), PrefixFacts
  <2>4. p = line
    BY ONLY <1>2, <2>3, line \in Seq(Chars)
  <2> QED
    BY ONLY <1>3, <1>4, <1>9, <2>1, <2>4 DEF Splitting
<1>12. /\ \A j \in DOMAIN t : ~ Contains(t[j], Space)
       /\ ~ Contains(b, Space)
       /\ n = 0 => s = NoSplit
       /\ n > 0 => ((b = <<>>) <=> (line[n] = Space))
       /\ n > 0 /\ b = <<>> => t # <<>>
  BY ONLY <1>3, <1>4 DEF Splitting
<1>13. \A j \in DOMAIN tokens : ~ Contains(tokens[j], Space)
  BY ONLY <1>8, <1>9, <1>10, <1>12
<1>14. n > 0 => (ended <=> b = <<>>)
  <2>1. ASSUME n > 0 PROVE line # <<>> /\ Last(line) = line[n]
    BY ONLY <1>2, <2>1, line \in Seq(Chars) DEF Last
  <2> QED
    BY ONLY <1>12, <2>1, ended = (line # <<>> /\ Last(line) = Space)
<1>15. PICK o : o = <<>>
  OBVIOUS
<1>16. n = 0 => ~ ended /\ b = o /\ t = o
  <2>1. ASSUME n = 0 PROVE line = <<>>
    <3>1. Len(line) = 0
      BY ONLY <1>2, <2>1
    <3> QED
      BY ONLY <3>1, line \in Seq(Chars)
  <2>2. ASSUME n = 0 PROVE ended = FALSE
    BY ONLY <2>1, <2>2, ended = (line # <<>> /\ Last(line) = Space)
  <2>3. ASSUME n = 0 PROVE s.tokens = <<>> /\ s.sub = <<>>
    BY ONLY <1>12, <2>3 DEF NoSplit
  <2> QED
    BY ONLY <1>4, <1>15, <2>2, <2>3
<1>17. PICK v : v = <<Space>>
  OBVIOUS
<1>18. v \in Seq(Chars) /\ o \in Seq(Chars)
  BY ONLY <1>15, <1>17, SpaceTyped
<1>19. PICK x : x = IF ended THEN v ELSE o
  OBVIOUS
<1>20. Joined(tokens) \o x = line
  <2>1. CASE n = 0
    <3>1. tokens = o /\ x = o /\ line = o
      <4>1. b = <<>> /\ t = o /\ ~ ended
        BY ONLY <1>15, <1>16, <2>1
      <4>2. line = <<>>
        <5>1. Len(line) = 0
          BY ONLY <1>2, <2>1
        <5> QED
          BY ONLY <5>1, line \in Seq(Chars)
      <4> QED
        BY ONLY <1>8, <1>15, <1>19, <4>1, <4>2
    <3>2. Joined(o) = o /\ o \o o = o
      BY ONLY <1>15, JoinedNothing
    <3> QED
      BY ONLY <3>1, <3>2
  <2>2. CASE n > 0 /\ b = o
    <3>1. tokens = t /\ x = v /\ t # <<>>
      BY ONLY <1>8, <1>12, <1>14, <1>15, <1>19, <2>2
    <3>2. Padding(t, b) = v \o b
      BY ONLY <1>17, <3>1 DEF Padding
    <3>3. v \o o = v
      BY ONLY <1>15, <1>18
    <3>4. Joined(u) = Joined(t) \o v
      BY ONLY <1>5, <1>9, <2>2, <3>2, <3>3, JoinedAppend
    <3> QED
      BY ONLY <1>11, <3>1, <3>4
  <2>3. CASE n > 0 /\ b # o
    <3>1. tokens = u /\ x = o
      BY ONLY <1>8, <1>9, <1>14, <1>15, <1>19, <2>3
    <3>2. line \o o = line
      BY ONLY <1>15, line \in Seq(Chars)
    <3> QED
      BY ONLY <1>11, <3>1, <3>2
  <2> QED
    BY ONLY <1>2, <2>1, <2>2, <2>3
<1>21. ~ ended /\ tokens # <<>> => Last(tokens) # <<>>
  <2>1. CASE n = 0
    BY ONLY <1>8, <1>15, <1>16, <2>1
  <2>2. CASE n > 0
    BY ONLY <1>8, <1>9, <1>10, <1>14, <2>2
  <2> QED
    BY ONLY <1>2, <2>1, <2>2
<1>22. x = IF ended THEN <<Space>> ELSE <<>>
  BY ONLY <1>15, <1>17, <1>19
<1> QED
  BY ONLY <1>13, <1>20, <1>21, <1>22

\* Every line of a client is its tokens.
LEMMA AllLinesTokenized == LinesTokenized
<1>1. ASSUME NEW line, line \in ClientLines, NEW tokens, tokens = StrTokenize(line),
             NEW ended, ended = (line # <<>> /\ Last(line) = Space)
      PROVE  /\ \A k \in DOMAIN tokens : ~ Contains(tokens[k], Space)
             /\ Joined(tokens) \o (IF ended THEN <<Space>> ELSE <<>>) = line
             /\ ~ ended /\ tokens # <<>> => Last(tokens) # <<>>
  <2>1. line \in Seq(Chars)
    BY ONLY line \in ClientLines, LineOfChars
  <2> QED
    BY ONLY <2>1, tokens = StrTokenize(line), ended = (line # <<>> /\ Last(line) = Space), LineTokenized
<1> QED
  BY ONLY <1>1, Zenon DEF LinesTokenized

\* The tokens that StrTokenize makes of a line have no space in them and,
\* joined by spaces, are the line again, but for a space at its end; the last
\* token is empty only if the line ends so.
THEOREM LinesMadeOfTokens == Spec => []TokensMakeTheLine
<1>1. TokensMakeTheLine
  BY ONLY AllLinesTokenized DEF TokensMakeTheLine
<1> QED
  BY <1>1, PTL

-----------------------------------------------------------------------------
(* What CSirCon asks for is what the radio has an answer to.               *)

\* Two octets in front
LEMMA ConsTwo ==
    ASSUME NEW S, NEW a, a \in S, NEW b, b \in S, NEW s, s \in Seq(S), NEW r, r = <<a, b>> \o s
    PROVE  r[1] = a /\ r[2] = b /\ (Len(s) > 0 => r[3] = s[1])
<1>1. PICK h : h = <<a, b>>
  OBVIOUS
<1>2. h \in Seq(S) /\ Len(h) = 2 /\ h[1] = a /\ h[2] = b
  BY ONLY <1>1, a \in S, b \in S
<1>3. r = h \o s
  BY ONLY <1>1, r = <<a, b>> \o s
<1>4. \A j \in 1 .. Len(h) + Len(s) : r[j] = IF j <= Len(h) THEN h[j] ELSE s[j - Len(h)]
  <2>1. \A j \in 1 .. Len(h) + Len(s) : (h \o s)[j] = IF j <= Len(h) THEN h[j] ELSE s[j - Len(h)]
    BY ONLY <1>2, s \in Seq(S), ConcatFacts
  <2> QED
    BY ONLY <2>1, <1>3
<1>5. Len(s) \in Nat
  BY ONLY s \in Seq(S)
<1> QED
  BY ONLY <1>2, <1>4, <1>5

\* ComposeGet asks for what the radio answers.
LEMMA GetAsked ==
    ASSUME NEW name, name \in DOMAIN SCP_GET, NEW arg, name \in {"CHANNELINFO", "SONGINFO"} => arg \in Octets
    PROVE  Asked(GetRequest(name, arg))
<1>1. PICK s : s = CASE name = "CHANNELINFO" -> <<arg, 0, 0, 0>>
                     [] name = "SONGINFO"    -> <<arg, 0>>
                     [] name = "STATUS"      -> <<arg % 256>>
                     [] name = "CHANNELMAP"  -> <<0>>
                     [] OTHER -> <<>>
  OBVIOUS
<1>2. PICK x : x = arg % 256
  OBVIOUS
<1>3. PICK S : S = {arg, 0, x, 64, SCP_GET[name]}
  OBVIOUS
<1>4. /\ s \in Seq(S)
      /\ name \in {"CHANNELINFO", "SONGINFO"} => Len(s) > 0 /\ s[1] = arg
  <2>1. CASE name = "CHANNELINFO"
    <3>1. s = <<arg, 0, 0, 0>>
      BY ONLY <1>1, <2>1
    <3> QED
      BY ONLY <3>1, <1>3
  <2>2. CASE name = "SONGINFO"
    <3>1. s = <<arg, 0>>
      BY ONLY <1>1, <2>2
    <3> QED
      BY ONLY <3>1, <1>3
  <2>3. CASE name = "STATUS"
    <3>1. s = <<x>>
      BY ONLY <1>1, <1>2, <2>3
    <3> QED
      BY ONLY <3>1, <1>3, <2>3
  <2>4. CASE name = "CHANNELMAP"
    <3>1. s = <<0>>
      BY ONLY <1>1, <2>4
    <3> QED
      BY ONLY <3>1, <1>3, <2>4
  <2>5. CASE name \notin {"CHANNELINFO", "SONGINFO", "STATUS", "CHANNELMAP"}
    <3>1. s = <<>>
      BY ONLY <1>1, <2>5
    <3> QED
      BY ONLY <3>1, <2>5
  <2> QED
    BY ONLY <2>1, <2>2, <2>3, <2>4, <2>5
<1>5. PICK r : r = GetRequest(name, arg)
  OBVIOUS
<1>6. r = <<64, SCP_GET[name]>> \o s
  BY ONLY <1>1, <1>5 DEF GetRequest, MSG_GET
<1>7. r[1] = 64 /\ r[2] = SCP_GET[name] /\ (Len(s) > 0 => r[3] = s[1])
  <2>1. PICK a, b : a = 64 /\ b = SCP_GET[name]
    OBVIOUS
  <2>2. a \in S /\ b \in S /\ r = <<a, b>> \o s
    BY ONLY <2>1, <1>3, <1>6
  <2>3. r[1] = a /\ r[2] = b /\ (Len(s) > 0 => r[3] = s[1])
    BY ONLY <2>2, <1>4, ConsTwo
  <2> QED
    BY ONLY <2>1, <2>3
<1>8. Asks(r)
  BY ONLY <1>4, <1>7, name \in DOMAIN SCP_GET, name \in {"CHANNELINFO", "SONGINFO"} => arg \in Octets DEF Asks
<1> QED
  BY ONLY <1>5, <1>8 DEF Asked

\* The codes of the SETs
LEMMA SetCodes ==
    /\ DOMAIN SCP_SET = {"GAIN", "MUTE", "POWER", "RESET", "CHANNEL", "TZINFO", "ASYNC"}
    /\ \A n \in DOMAIN SCP_SET : SCP_SET[n] \in Octets /\ (SCP_SET[n] = 10 => n = "CHANNEL")
<1>1. DOMAIN SCP_SET = {"GAIN", "MUTE", "POWER", "RESET", "CHANNEL", "TZINFO", "ASYNC"}
  BY ONLY DEF SCP_SET
<1>2. /\ SCP_SET["GAIN"] = 2 /\ SCP_SET["MUTE"] = 3 /\ SCP_SET["POWER"] = 8 /\ SCP_SET["RESET"] = 9
      /\ SCP_SET["CHANNEL"] = 10 /\ SCP_SET["TZINFO"] = 12 /\ SCP_SET["ASYNC"] = 13
  BY ONLY DEF SCP_SET
<1> QED
  BY ONLY <1>1, <1>2 DEF Octets

\* So does ComposeSet.
LEMMA SetAsked ==
    ASSUME NEW name, name \in DOMAIN SCP_SET, NEW v, name = "CHANNEL" => v[1] \in Int
    PROVE  Asked(SetRequest(name, v))
<1>1. PICK x1, x2, x3, x4, x5 :
          /\ x1 = IF v[1] > 0 THEN 1 ELSE 0
          /\ x2 = v[1] % 4
          /\ x3 = v[1] % 256
          /\ x4 = (v[1] \div 256) % 256
          /\ x5 = IF v[2] > 0 THEN 1 ELSE 0
  OBVIOUS
<1>2. PICK s : s = CASE name = "RESET"   -> <<>>
                     [] name = "MUTE"    -> <<x1>>
                     [] name = "POWER"   -> <<x2>>
                     [] name = "CHANNEL" -> <<x3, 0, 0, 11>>
                     [] name = "TZINFO"  -> <<x4, x3, x5>>
                     [] name = "ASYNC"   -> <<0, 0, 0, x3, 0>>
                     [] OTHER -> <<x3>>
  OBVIOUS
<1>3. PICK S : S = {x1, x2, x3, x4, x5, 0, 11, SCP_SET[name]}
  OBVIOUS
<1>4. s \in Seq(S) /\ (name = "CHANNEL" => Len(s) > 0 /\ s[1] = x3)
  <2>1. CASE name = "RESET"
    <3>1. s = <<>>
      BY ONLY <1>2, <2>1
    <3> QED
      BY ONLY <3>1, <2>1
  <2>2. CASE name = "MUTE"
    <3>1. s = <<x1>>
      BY ONLY <1>2, <2>2
    <3> QED
      BY ONLY <3>1, <1>3, <2>2
  <2>3. CASE name = "POWER"
    <3>1. s = <<x2>>
      BY ONLY <1>2, <2>3
    <3> QED
      BY ONLY <3>1, <1>3, <2>3
  <2>4. CASE name = "CHANNEL"
    <3>1. s = <<x3, 0, 0, 11>>
      BY ONLY <1>2, <2>4
    <3> QED
      BY ONLY <3>1, <1>3
  <2>5. CASE name = "TZINFO"
    <3>1. s = <<x4, x3, x5>>
      BY ONLY <1>2, <2>5
    <3> QED
      BY ONLY <3>1, <1>3, <2>5
  <2>6. CASE name = "ASYNC"
    <3>1. s = <<0, 0, 0, x3, 0>>
      BY ONLY <1>2, <2>6
    <3> QED
      BY ONLY <3>1, <1>3, <2>6
  <2>7. CASE name = "GAIN"
    <3>1. s = <<x3>>
      BY ONLY <1>2, <2>7
    <3> QED
      BY ONLY <3>1, <1>3, <2>7
  <2> QED
    BY ONLY <2>1, <2>2, <2>3, <2>4, <2>5, <2>6, <2>7, name \in DOMAIN SCP_SET, SetCodes
<1>5. PICK r : r = SetRequest(name, v)
  OBVIOUS
<1>6. r = <<0, SCP_SET[name]>> \o s
  BY ONLY <1>1, <1>2, <1>5 DEF SetRequest, MSG_SET
<1>7. r[1] = 0 /\ r[2] = SCP_SET[name] /\ (Len(s) > 0 => r[3] = s[1])
  <2>1. PICK a, b : a = 0 /\ b = SCP_SET[name]
    OBVIOUS
  <2>2. a \in S /\ b \in S /\ r = <<a, b>> \o s
    BY ONLY <2>1, <1>3, <1>6
  <2>3. r[1] = a /\ r[2] = b /\ (Len(s) > 0 => r[3] = s[1])
    BY ONLY <2>2, <1>4, ConsTwo
  <2> QED
    BY ONLY <2>1, <2>3
<1>8. Sets(r)
  <2>1. r[2] \in Octets
    BY ONLY <1>7, name \in DOMAIN SCP_SET, SetCodes
  <2>2. ASSUME r[2] = 10 PROVE r[3] \in Octets
    <3>1. name = "CHANNEL"
      BY ONLY <1>7, <2>2, name \in DOMAIN SCP_SET, SetCodes
    <3>2. PICK i : i = v[1]
      OBVIOUS
    <3>3. i \in Int /\ x3 = i % 256
      BY ONLY <3>1, <3>2, <1>1, name = "CHANNEL" => v[1] \in Int
    <3>4. x3 \in Octets
      BY ONLY <3>3, WordLow
    <3> QED
      BY ONLY <3>1, <3>4, <1>4, <1>7
  <2> QED
    BY ONLY <1>7, <2>1, <2>2 DEF Sets
<1> QED
  BY ONLY <1>5, <1>8 DEF Asked

\* atoi returns a number.
LEMMA NumberTyped ==
    ASSUME NEW t, t \in Seq(Chars)
    PROVE  Number(t) \in Int
<1>1. CASE t # <<>>
  <2>1. t[1] \in Chars
    BY ONLY <1>1, t \in Seq(Chars)
  <2>2. PICK c : c = t[1]
    OBVIOUS
  <2>3. c \in STRING \X Int \/ c = Space
    BY ONLY <2>1, <2>2 DEF Chars
  <2>4. c[2] \in Int
    <3>1. CASE c \in STRING \X Int
      BY ONLY <3>1
    <3>2. CASE c = Space
      <4>1. PICK x : x = " "
        OBVIOUS
      <4>2. c = <<x, 0>>
        BY ONLY <3>2, <4>1 DEF Space
      <4> QED
        BY ONLY <4>2
    <3> QED
      BY ONLY <2>3, <3>1, <3>2
  <2> QED
    BY ONLY <2>2, <2>4 DEF Number
<1>2. CASE t = <<>>
  BY ONLY <1>2 DEF Number
<1> QED
  BY ONLY <1>1, <1>2

\* An error is no request.
LEMMA NotRequests == Error.do # "request" /\ Nothing.do # "request" /\ \A m : Request(m).msg = m
BY DEF Error, Nothing, Request

\* What ProcessGet, ProcessSet and ProcessCommand compose is asked for so.
LEMMA ProcessGetAsked ==
    ASSUME NEW tokens, NEW channel, channel \in Octets, ProcessGet(tokens, channel).do = "request"
    PROVE  Asked(ProcessGet(tokens, channel).msg)
<1>1. PICK known : known = {n \in GetNames : Is(tokens[2], n) /\ Len(tokens) = GetSize(n)}
  OBVIOUS
<1>2. PICK name : name = CHOOSE n \in known : TRUE
  OBVIOUS
<1>3. PICK arg : arg = IF name = "STATUS" THEN Number(tokens[3]) ELSE channel
  OBVIOUS
<1>4. PICK p : p = ProcessGet(tokens, channel)
  OBVIOUS
<1>5. p = IF known = {} THEN Nothing ELSE Request(GetRequest(name, arg))
  BY ONLY <1>1, <1>2, <1>3, <1>4 DEF ProcessGet
<1>6. known # {} /\ p = Request(GetRequest(name, arg))
  BY ONLY <1>4, <1>5, ProcessGet(tokens, channel).do = "request", NotRequests
<1>7. name \in known
  BY ONLY <1>2, <1>6
<1>8. name \in DOMAIN SCP_GET
  BY ONLY <1>1, <1>7 DEF GetNames
<1>9. Asked(GetRequest(name, arg))
  BY ONLY <1>3, <1>8, channel \in Octets, GetAsked
<1> QED
  BY ONLY <1>4, <1>6, <1>9, NotRequests

LEMMA ProcessSetAsked ==
    ASSUME NEW tokens, tokens \in Tokens, ProcessSet(tokens).do = "request"
    PROVE  Asked(ProcessSet(tokens).msg)
<1>1. PICK known : known = {n \in SetNames : Is(tokens[2], n) /\ Len(tokens) = SetSize(n)}
  OBVIOUS
<1>2. PICK name : name = CHOOSE n \in known : TRUE
  OBVIOUS
<1>3. PICK v : v = [k \in 1 .. Len(tokens) - 2 |-> Number(tokens[k + 2])]
  OBVIOUS
<1>4. PICK w : w = CASE name = "MUTE"   -> <<Flag(v[1])>>
                     [] name = "TZINFO" -> <<v[1], Flag(v[2])>>
                     [] OTHER -> v
  OBVIOUS
<1>5. PICK p : p = ProcessSet(tokens)
  OBVIOUS
<1>6. p = IF known = {} THEN Nothing ELSE Request(SetRequest(name, w))
  BY ONLY <1>1, <1>2, <1>3, <1>4, <1>5 DEF ProcessSet
<1>7. known # {} /\ p = Request(SetRequest(name, w))
  BY ONLY <1>5, <1>6, ProcessSet(tokens).do = "request", NotRequests
<1>8. name \in known
  BY ONLY <1>2, <1>7
<1>9. name \in DOMAIN SCP_SET
  BY ONLY <1>1, <1>8 DEF SetNames
<1>10. ASSUME name = "CHANNEL" PROVE w[1] \in Int
  <2>1. Len(tokens) = 3
    BY ONLY <1>1, <1>8, <1>10 DEF SetSize
  <2>2. tokens[3] \in Seq(Chars)
    <3>1. PICK T : T = Seq(Chars)
      OBVIOUS
    <3>2. tokens \in Seq(T)
      BY ONLY <3>1, tokens \in Tokens DEF Tokens
    <3>3. tokens[3] \in T
      BY ONLY <2>1, <3>2, SMTT(20), ZenonT(40)
    <3> QED
      BY ONLY <3>1, <3>3
  <2>3. v[1] = Number(tokens[3])
    BY ONLY <1>3, <2>1
  <2>4. w = v
    BY ONLY <1>4, <1>10
  <2> QED
    BY ONLY <2>2, <2>3, <2>4, NumberTyped
<1>11. Asked(SetRequest(name, w))
  BY ONLY <1>9, <1>10, SetAsked
<1> QED
  BY ONLY <1>5, <1>7, <1>11, NotRequests

LEMMA CommandAsked ==
    ASSUME NEW line, line \in Seq(Chars), NEW h, NEW channel, channel \in Octets,
           ProcessCommand(StrTokenize(line), h, channel).do = "request"
    PROVE  Asked(ProcessCommand(StrTokenize(line), h, channel).msg)
<1>1. PICK tokens : tokens = StrTokenize(line)
  OBVIOUS
<1>2. tokens \in Tokens
  BY ONLY <1>1, line \in Seq(Chars), TokensTyped
<1>3. PICK p : p = ProcessCommand(tokens, h, channel)
  OBVIOUS
<1>4. p.do = "request"
  BY ONLY <1>1, <1>3, ProcessCommand(StrTokenize(line), h, channel).do = "request"
<1>5. PICK nd, nc : nd = [Nothing EXCEPT !.do = "drop"] /\ nc = [Nothing EXCEPT !.do = "control"]
  OBVIOUS
<1>6. nd.do # "request" /\ nc.do # "request"
  BY ONLY <1>5 DEF Nothing
<1>7. p \in {ProcessGet(tokens, channel), ProcessSet(tokens), Error, Nothing, nd, nc}
  BY ONLY <1>3, <1>5 DEF ProcessCommand
<1>8. p = ProcessGet(tokens, channel) \/ p = ProcessSet(tokens)
  BY ONLY <1>4, <1>6, <1>7, NotRequests
<1>9. Asked(p.msg)
  <2>1. CASE p = ProcessGet(tokens, channel)
    BY ONLY <2>1, <1>4, channel \in Octets, ProcessGetAsked
  <2>2. CASE p = ProcessSet(tokens)
    BY ONLY <2>2, <1>2, <1>4, ProcessSetAsked
  <2> QED
    BY ONLY <1>8, <2>1, <2>2
<1> QED
  BY ONLY <1>1, <1>3, <1>9

-----------------------------------------------------------------------------
(* What a SET says to the radio.                                           *)

\* What the loop of StrTokenize has, in its parts: after a character and
\* after a space
HasSplit(s, t, b) == s.tokens = t /\ s.sub = b

LEMMA SplitWord ==
    ASSUME NEW s, NEW t, NEW b, HasSplit(s, t, b), NEW c, c # Space
    PROVE  HasSplit(SplitStep(s, c), t, Append(b, c))
BY DEF HasSplit, SplitStep

LEMMA SplitSpace ==
    ASSUME NEW s, NEW t, NEW b, HasSplit(s, t, b)
    PROVE  HasSplit(SplitStep(s, Space), Append(t, b), <<>>)
BY DEF HasSplit, SplitStep

\* Words of one character, each behind a space
LEMMA TwoWords ==
    ASSUME NEW chars, NEW g, SplitSteps(g, chars), Len(chars) \in Nat, Len(chars) >= 4,
           chars[1] # Space, chars[2] = Space, chars[3] # Space, chars[4] = Space
    PROVE  HasSplit(g[4], <<<<chars[1]>>, <<chars[3]>>>>, <<>>)
<1>1. \A k \in 1 .. 4 : g[k] = SplitStep(g[k - 1], chars[k])
  BY ONLY SplitSteps(g, chars), Len(chars) \in Nat, Len(chars) >= 4 DEF SplitSteps
<1>2. /\ g[1] = SplitStep(g[0], chars[1]) /\ g[2] = SplitStep(g[1], chars[2])
      /\ g[3] = SplitStep(g[2], chars[3]) /\ g[4] = SplitStep(g[3], chars[4])
  BY ONLY <1>1
<1>3. PICK a, b, e : a = <<chars[1]>> /\ b = <<chars[3]>> /\ e = <<>>
  OBVIOUS
<1>4. HasSplit(g[0], e, e)
  BY ONLY <1>3, SplitSteps(g, chars) DEF SplitSteps, HasSplit, NoSplit
<1>5. HasSplit(g[1], e, a)
  BY ONLY <1>2, <1>3, <1>4, chars[1] # Space, SplitWord, AppendOne
<1>6. HasSplit(g[2], Append(e, a), e)
  BY ONLY <1>2, <1>3, <1>5, chars[2] = Space, SplitSpace
<1>7. HasSplit(g[3], Append(e, a), b)
  BY ONLY <1>2, <1>3, <1>6, chars[3] # Space, SplitWord, AppendOne
<1>8. HasSplit(g[4], Append(Append(e, a), b), e)
  BY ONLY <1>2, <1>3, <1>7, chars[4] = Space, SplitSpace
<1>9. Append(Append(e, a), b) = <<a, b>>
  BY ONLY <1>3, AppendOne, AppendTwo
<1> QED
  BY ONLY <1>3, <1>8, <1>9

\* Three and four such words
LEMMA ThreeWords ==
    ASSUME NEW chars, chars \in Seq(Chars), Len(chars) = 5,
           chars[1] # Space, chars[2] = Space, chars[3] # Space, chars[4] = Space, chars[5] # Space
    PROVE  StrTokenize(chars) = <<<<chars[1]>>, <<chars[3]>>, <<chars[5]>>>>
<1>1. PICK g : SplitSteps(g, chars) /\ Split(chars) = g[Len(chars)]
  BY ONLY chars \in Seq(Chars), SplitChain
<1>2. PICK a, b, c : a = <<chars[1]>> /\ b = <<chars[3]>> /\ c = <<chars[5]>>
  OBVIOUS
<1>3. HasSplit(g[4], <<a, b>>, <<>>)
  <2>1. Len(chars) \in Nat /\ Len(chars) >= 4
    BY ONLY Len(chars) = 5
  <2> QED
    BY ONLY <1>1, <1>2, <2>1, chars[1] # Space, chars[2] = Space, chars[3] # Space, chars[4] = Space, TwoWords
<1>4. g[5] = SplitStep(g[4], chars[5])
  BY ONLY <1>1, Len(chars) = 5 DEF SplitSteps
<1>5. HasSplit(g[5], <<a, b>>, c)
  BY ONLY <1>2, <1>3, <1>4, chars[5] # Space, SplitWord, AppendOne
<1>6. PICK s : s = Split(chars)
  OBVIOUS
<1>7. s.tokens = <<a, b>> /\ s.sub = c
  BY ONLY <1>1, <1>5, <1>6, Len(chars) = 5 DEF HasSplit
<1>8. c # <<>>
  BY ONLY <1>2
<1>9. StrTokenize(chars) = Append(<<a, b>>, c)
  BY ONLY <1>6, <1>7, <1>8 DEF StrTokenize
<1>10. Append(<<a, b>>, c) = <<a, b, c>>
  BY ONLY AppendThree
<1> QED
  BY ONLY <1>2, <1>9, <1>10

LEMMA FourWords ==
    ASSUME NEW chars, chars \in Seq(Chars), Len(chars) = 7,
           chars[1] # Space, chars[2] = Space, chars[3] # Space, chars[4] = Space,
           chars[5] # Space, chars[6] = Space, chars[7] # Space
    PROVE  StrTokenize(chars) = <<<<chars[1]>>, <<chars[3]>>, <<chars[5]>>, <<chars[7]>>>>
<1>1. PICK g : SplitSteps(g, chars) /\ Split(chars) = g[Len(chars)]
  BY ONLY chars \in Seq(Chars), SplitChain
<1>2. PICK a, b, c, d : a = <<chars[1]>> /\ b = <<chars[3]>> /\ c = <<chars[5]>> /\ d = <<chars[7]>>
  OBVIOUS
<1>3. HasSplit(g[4], <<a, b>>, <<>>)
  <2>1. Len(chars) \in Nat /\ Len(chars) >= 4
    BY ONLY Len(chars) = 7
  <2> QED
    BY ONLY <1>1, <1>2, <2>1, chars[1] # Space, chars[2] = Space, chars[3] # Space, chars[4] = Space, TwoWords
<1>4. /\ g[5] = SplitStep(g[4], chars[5]) /\ g[6] = SplitStep(g[5], chars[6])
      /\ g[7] = SplitStep(g[6], chars[7])
  BY ONLY <1>1, Len(chars) = 7 DEF SplitSteps
<1>5. HasSplit(g[5], <<a, b>>, c)
  BY ONLY <1>2, <1>3, <1>4, chars[5] # Space, SplitWord, AppendOne
<1>6. HasSplit(g[6], Append(<<a, b>>, c), <<>>)
  BY ONLY <1>4, <1>5, chars[6] = Space, SplitSpace
<1>7. HasSplit(g[7], Append(<<a, b>>, c), d)
  BY ONLY <1>2, <1>4, <1>6, chars[7] # Space, SplitWord, AppendOne
<1>8. Append(Append(<<a, b>>, c), d) = <<a, b, c, d>>
  <2>1. PICK r : r = <<a, b, c>>
    OBVIOUS
  <2>2. Append(<<a, b>>, c) = r
    BY ONLY <2>1, AppendThree
  <2>3. Append(r, d) = <<a, b, c, d>>
    BY ONLY <2>1, AppendFour
  <2> QED
    BY ONLY <2>2, <2>3
<1>9. PICK s, t : s = Split(chars) /\ t = Append(<<a, b>>, c)
  OBVIOUS
<1>10. s.tokens = t /\ s.sub = d
  BY ONLY <1>1, <1>7, <1>9, Len(chars) = 7 DEF HasSplit
<1>11. d # <<>>
  BY ONLY <1>2
<1>12. StrTokenize(chars) = Append(t, d)
  BY ONLY <1>9, <1>10, <1>11 DEF StrTokenize
<1> QED
  BY ONLY <1>2, <1>8, <1>9, <1>12

\* The words of a SET

\* What a client may set to a value, and how it says so
Settable == {"GAIN", "MUTE", "POWER", "CHANNEL", "TZINFO"}

\* Its words have no space.
LEMMA NotSpaces ==
    /\ <<"SET", 0>> # Space /\ \A n : <<"#", n>> # Space
    /\ \A name \in Settable : <<name, 0>> # Space
<1>1. "SET" # " " /\ "#" # " " /\ \A name \in Settable : name # " "
  BY ONLY DEF Settable
<1>2. PICK x, y, z : x = " " /\ y = "SET" /\ z = "#"
  OBVIOUS
<1>3. x # y /\ x # z /\ \A name \in Settable : name # x
  BY ONLY <1>1, <1>2
<1>4. Space = <<x, 0>>
  BY ONLY <1>2 DEF Space
<1>5. /\ <<y, 0>> # Space /\ \A n : <<z, n>> # Space
      /\ \A name \in Settable : <<name, 0>> # Space
  BY ONLY <1>3, <1>4
<1> QED
  BY ONLY <1>2, <1>5

\* Setting, character by character
LEMMA SettingShort ==
    ASSUME NEW name, NEW n, NEW dst, name # "TZINFO", NEW line, line = Setting(name, n, dst), line \in Seq(Chars)
    PROVE  /\ Len(line) = 5 /\ line[1] = <<"SET", 0>> /\ line[2] = Space /\ line[3] = <<name, 0>>
           /\ line[4] = Space /\ line[5] = <<"#", n>>
<1>1. PICK a, b, c, d : a = <<"SET", 0>> /\ b = Space /\ c = <<name, 0>> /\ d = <<"#", n>>
  OBVIOUS
<1>2. PICK S : S = {a, b, c, d}
  OBVIOUS
<1>3. PICK h, e : h = <<a, b, c, b, d>> /\ e = <<>>
  OBVIOUS
<1>4. h \in Seq(S) /\ Len(h) = 5 /\ h[1] = a /\ h[2] = b /\ h[3] = c /\ h[4] = b /\ h[5] = d
  BY ONLY <1>2, <1>3
<1>5. line = h \o e
  BY ONLY <1>1, <1>3, name # "TZINFO", line = Setting(name, n, dst) DEF Setting
<1>6. h \o e = h
  BY ONLY <1>3, <1>4
<1> QED
  BY ONLY <1>1, <1>4, <1>5, <1>6

LEMMA SettingLong ==
    ASSUME NEW n, NEW dst, NEW line, line = Setting("TZINFO", n, dst), line \in Seq(Chars)
    PROVE  /\ Len(line) = 7 /\ line[1] = <<"SET", 0>> /\ line[2] = Space /\ line[3] = <<"TZINFO", 0>>
           /\ line[4] = Space /\ line[5] = <<"#", n>> /\ line[6] = Space /\ line[7] = <<"#", dst>>
<1>1. PICK a, b, c, d, f : a = <<"SET", 0>> /\ b = Space /\ c = <<"TZINFO", 0>> /\ d = <<"#", n>> /\ f = <<"#", dst>>
  OBVIOUS
<1>2. PICK S : S = {a, b, c, d, f}
  OBVIOUS
<1>3. PICK h, e : h = <<a, b, c, b, d>> /\ e = <<b, f>>
  OBVIOUS
<1>4. h \in Seq(S) /\ Len(h) = 5 /\ h[1] = a /\ h[2] = b /\ h[3] = c /\ h[4] = b /\ h[5] = d
  BY ONLY <1>2, <1>3
<1>5. e \in Seq(S) /\ Len(e) = 2 /\ e[1] = b /\ e[2] = f
  BY ONLY <1>2, <1>3
<1>6. line = h \o e
  BY ONLY <1>1, <1>3, line = Setting("TZINFO", n, dst) DEF Setting
<1>7. /\ Len(h \o e) = 7
      /\ \A j \in 1 .. 7 : (h \o e)[j] = IF j <= 5 THEN h[j] ELSE e[j - 5]
  <2>1. /\ Len(h \o e) = Len(h) + Len(e)
        /\ \A j \in 1 .. Len(h) + Len(e) : (h \o e)[j] = IF j <= Len(h) THEN h[j] ELSE e[j - Len(h)]
    BY ONLY <1>4, <1>5, ConcatFacts
  <2>2. Len(h) = 5 /\ Len(e) = 2
    BY ONLY <1>4, <1>5
  <2> QED
    BY ONLY <2>1, <2>2
<1>8. \A j \in 1 .. 7 : line[j] = IF j <= 5 THEN h[j] ELSE e[j - 5]
  BY ONLY <1>6, <1>7
<1>9. line[1] = h[1] /\ line[2] = h[2] /\ line[3] = h[3] /\ line[4] = h[4] /\ line[5] = h[5]
  BY ONLY <1>8
<1>10. line[6] = e[1] /\ line[7] = e[2]
  BY ONLY <1>8
<1> QED
  BY ONLY <1>1, <1>4, <1>5, <1>6, <1>7, <1>9, <1>10

\* The number of a numeral, and the name of a word
LEMMA NumeralIs == \A n : Number(<<<<"#", n>>>>) = n
BY ONLY DEF Number

LEMMA NameIs == \A m, n : Is(<<<<m, 0>>>>, n) <=> m = n
BY ONLY DEF Is

\* The tokens of the SET of a value
IsSetting(tokens, name, n, dst) ==
    /\ Len(tokens) = SetSize(name) /\ tokens[1] = <<<<"SET", 0>>>>
    /\ tokens[2] = <<<<name, 0>>>> /\ tokens[3] = <<<<"#", n>>>>
    /\ name = "TZINFO" => tokens[4] = <<<<"#", dst>>>>

\* The numbers in them, and what ProcessSet makes of these
Reads(name, n, dst, v) == v[1] = n /\ (name = "TZINFO" => v[2] = dst)

Composed(name, v) ==
    CASE name = "MUTE"   -> <<Flag(v[1])>>
      [] name = "TZINFO" -> <<v[1], Flag(v[2])>>
      [] OTHER -> v

\* ProcessSet finds the name in its table, and the numbers behind it.
LEMMA SettingProcessed ==
    ASSUME NEW name, name \in Settable, NEW tokens, NEW n, NEW dst, IsSetting(tokens, name, n, dst)
    PROVE  \E v : /\ Reads(name, n, dst, v)
                  /\ ProcessCommand(tokens, TRUE, 0) = Request(SetRequest(name, Composed(name, v)))
<1>0. /\ Len(tokens) = SetSize(name) /\ tokens[1] = <<<<"SET", 0>>>>
      /\ tokens[2] = <<<<name, 0>>>> /\ tokens[3] = <<<<"#", n>>>>
      /\ name = "TZINFO" => tokens[4] = <<<<"#", dst>>>>
  BY ONLY IsSetting(tokens, name, n, dst) DEF IsSetting
<1>1. Len(tokens) = IF name = "TZINFO" THEN 4 ELSE 3
  BY ONLY <1>0, name \in Settable DEF Settable, SetSize
<1>2. PICK known : known = {m \in SetNames : Is(tokens[2], m) /\ Len(tokens) = SetSize(m)}
  OBVIOUS
<1>3. name \in SetNames
  BY ONLY name \in Settable, SetCodes DEF Settable, SetNames
<1>4. \A m : Is(tokens[2], m) <=> name = m
  BY ONLY <1>0, NameIs
<1>5. known = {name}
  BY ONLY <1>0, <1>2, <1>3, <1>4
<1>6. (CHOOSE m \in known : TRUE) = name /\ known # {}
  BY ONLY <1>5
<1>7. PICK v : v = [k \in 1 .. Len(tokens) - 2 |-> Number(tokens[k + 2])]
  OBVIOUS
<1>8. Reads(name, n, dst, v)
  <2>1. v[1] = Number(tokens[3])
    BY ONLY <1>1, <1>7
  <2>2. name = "TZINFO" => v[2] = Number(tokens[4])
    BY ONLY <1>1, <1>7
  <2> QED
    BY ONLY <1>0, <2>1, <2>2, NumeralIs DEF Reads
<1>9. PICK w : w = Composed(name, v)
  OBVIOUS
<1>10. w = CASE name = "MUTE"   -> <<Flag(v[1])>>
             [] name = "TZINFO" -> <<v[1], Flag(v[2])>>
             [] OTHER -> v
  BY ONLY <1>9 DEF Composed
<1>11. ProcessSet(tokens) = Request(SetRequest(name, w))
  BY ONLY <1>2, <1>6, <1>7, <1>10 DEF ProcessSet
<1>12. ProcessCommand(tokens, TRUE, 0) = ProcessSet(tokens)
  <2>1. /\ ~ Is(tokens[1], "GET") /\ Is(tokens[1], "SET")
        /\ ~ Is(tokens[1], "QUIT") /\ ~ Is(tokens[1], "CONTROL")
    BY ONLY <1>0, NameIs
  <2>2. Len(tokens) # 0 /\ Len(tokens) >= 2
    BY ONLY <1>1
  <2> QED
    BY ONLY <2>1, <2>2 DEF ProcessCommand
<1> QED
  BY ONLY <1>8, <1>9, <1>11, <1>12

\* Octets and words, as the provers use them
LEMMA OctetOf == ASSUME NEW x, x \in Octets PROVE x \in Int /\ x >= 0 /\ x <= 255
BY ONLY x \in Octets DEF Octets

LEMMA ZoneRange == \A n : InRange("TZINFO", n) <=> n \in Shorts
BY SMTT(30) DEF InRange, Shorts, ShortMin, ShortMax

\* A value that fits is not cut.
LEMMA SmallMods ==
    /\ \A x \in Int : x >= 0 /\ x <= 3 => x % 4 = x
    /\ \A x \in Int : x >= 0 /\ x <= 255 => x % 256 = x
OBVIOUS

\* The octets of a time zone are those of the signed word.
LEMMA ZoneOctets ==
    ASSUME NEW x, x \in Shorts
    PROVE  /\ (x \div 256) % 256 \in Octets /\ x % 256 \in Octets
           /\ Signed(((x \div 256) % 256) * 256 + (x % 256), 65536) = x
<1>1. PICK h : h = (x \div 256) % 256
  OBVIOUS
<1>2. x \in Int /\ x >= -32768 /\ x <= 32767
  BY ONLY x \in Shorts, ShortIs
<1>3. PICK y : y = x % 65536
  OBVIOUS
<1>4. y = IF x < 0 THEN x + 65536 ELSE x
  BY ONLY <1>2, <1>3, WordBelow, WordAbove
<1>5. h = y \div 256
  <2>1. CASE x < 0
    <3>1. y \div 256 = (x \div 256) + 256
      BY ONLY <1>2, <1>4, <2>1
    <3>2. x \div 256 \in Int /\ x \div 256 < 0 /\ x \div 256 >= -128
      BY ONLY <1>2, <2>1
    <3>3. \A i \in Int : i < 0 /\ i >= -128 => i % 256 = i + 256
      OBVIOUS
    <3> QED
      BY ONLY <1>1, <3>1, <3>2, <3>3
  <2>2. CASE ~ (x < 0)
    <3>1. x \div 256 \in Int /\ x \div 256 >= 0 /\ x \div 256 <= 255
      BY ONLY <1>2, <2>2
    <3>2. (x \div 256) % 256 = x \div 256
      BY ONLY <3>1, SmallMods
    <3> QED
      BY ONLY <1>1, <1>4, <2>2, <3>2
  <2> QED
    BY ONLY <2>1, <2>2
<1>6. (x % 65536) \div 256 = h
  BY ONLY <1>3, <1>5
<1> QED
  BY ONLY <1>1, <1>6, x \in Shorts, SignedWord

\* A request in memory, behind its two octets of header
LEMMA RequestOctets ==
    ASSUME NEW c, c \in Octets, NEW s, s \in Seq(Octets), NEW r, r = <<MSG_SET, c>> \o s
    PROVE  /\ r \in Seq(Octets)
           /\ Len(s) > 0 => Octet(r, 2) = s[1]
           /\ Len(s) > 1 => Octet(r, 3) = s[2]
           /\ Len(s) > 2 => Octet(r, 4) = s[3]
<1>1. MSG_SET \in Octets
  BY ONLY DEF MSG_SET, Octets
<1>2. PICK h : h = <<MSG_SET, c>>
  OBVIOUS
<1>3. h \in Seq(Octets) /\ Len(h) = 2
  BY ONLY <1>1, <1>2, c \in Octets
<1>4. /\ r \in Seq(Octets) /\ Len(r) = Len(h) + Len(s)
      /\ \A j \in 1 .. Len(h) + Len(s) : r[j] = IF j <= Len(h) THEN h[j] ELSE s[j - Len(h)]
  <2>1. /\ h \o s \in Seq(Octets) /\ Len(h \o s) = Len(h) + Len(s)
        /\ \A j \in 1 .. Len(h) + Len(s) : (h \o s)[j] = IF j <= Len(h) THEN h[j] ELSE s[j - Len(h)]
    BY ONLY <1>3, s \in Seq(Octets), ConcatFacts
  <2> QED
    BY ONLY <1>2, <2>1, r = <<MSG_SET, c>> \o s
<1>5. Len(s) \in Nat /\ Len(h) = 2
  BY ONLY <1>3, s \in Seq(Octets)
<1>6. Len(r) = 2 + Len(s) /\ \A j \in 3 .. 2 + Len(s) : r[j] = s[j - 2]
  BY ONLY <1>4, <1>5
<1>7. ASSUME Len(s) > 0 PROVE Octet(r, 2) = s[1]
  BY ONLY <1>5, <1>6, <1>7 DEF Octet
<1>8. ASSUME Len(s) > 1 PROVE Octet(r, 3) = s[2]
  BY ONLY <1>5, <1>6, <1>8 DEF Octet
<1>9. ASSUME Len(s) > 2 PROVE Octet(r, 4) = s[3]
  BY ONLY <1>5, <1>6, <1>9 DEF Octet
<1> QED
  BY ONLY <1>4, <1>7, <1>8, <1>9

\* The requests of the SETs with a value, and what an event would report of them
LEMMA GainSet ==
    ASSUME NEW v, v[1] \in -128 .. 127, NEW r, r = SetRequest("GAIN", v)
    PROVE  r \in Seq(Octets) /\ Deserialize("GAIN", r, 2).fields = <<<<v[1]>>>>
<1>1. PICK n : n = v[1]
  OBVIOUS
<1>2. PICK x : x = n % 256
  OBVIOUS
<1>3. x \in Octets /\ Signed(x, 256) = n
  BY ONLY <1>1, <1>2, v[1] \in -128 .. 127, SignedOctet, SMTT(20), ZenonT(40)
<1>4. r = <<MSG_SET, SCP_SET["GAIN"]>> \o <<x>>
  BY ONLY <1>1, <1>2, r = SetRequest("GAIN", v) DEF SetRequest
<1>5. PICK s : s = <<x>>
  OBVIOUS
<1>6. s \in Seq(Octets) /\ Len(s) = 1 /\ s[1] = x
  BY ONLY <1>3, <1>5
<1>7. SCP_SET["GAIN"] \in Octets
  BY ONLY SetCodes
<1>8. r \in Seq(Octets) /\ Octet(r, 2) = x
  <2>1. PICK c : c = SCP_SET["GAIN"]
    OBVIOUS
  <2>2. c \in Octets /\ r = <<MSG_SET, c>> \o s
    BY ONLY <1>4, <1>5, <1>7, <2>1
  <2>3. s \in Seq(Octets) /\ Len(s) > 0
    BY ONLY <1>6
  <2>4. r \in Seq(Octets) /\ Octet(r, 2) = s[1]
    BY ONLY <2>2, <2>3, RequestOctets
  <2> QED
    BY ONLY <1>6, <2>4
<1>9. Deserialize("GAIN", r, 2).fields = <<<<Signed(Octet(r, 2 + 0), 256)>>>>
  BY ONLY DEF Deserialize, Event
<1>10. 2 + 0 = 2
  OBVIOUS
<1> QED
  BY ONLY <1>1, <1>3, <1>8, <1>9, <1>10

\* A SET of one octet
OneOctetSet(name, n, v) ==
    /\ name \in {"MUTE", "POWER", "CHANNEL"}
    /\ name = "POWER" => n <= 3
    /\ name = "MUTE" => n \in {0, 1} /\ v[1] = Flag(n)
    /\ name # "MUTE" => v[1] = n

\* It has the value in its octet.
LEMMA OctetSet ==
    ASSUME NEW name, NEW v, NEW n, n \in Octets,
           OneOctetSet(name, n, v), NEW r, r = SetRequest(name, v)
    PROVE  r \in Seq(Octets) /\ Deserialize(name, r, 2).fields = <<<<n>>>>
<1>. /\ name \in {"MUTE", "POWER", "CHANNEL"}
     /\ name = "POWER" => n <= 3
     /\ name = "MUTE" => n \in {0, 1} /\ v[1] = Flag(n)
     /\ name # "MUTE" => v[1] = n
  BY ONLY OneOctetSet(name, n, v) DEF OneOctetSet
<1>0. n \in Int /\ n >= 0 /\ n <= 255
  BY ONLY n \in Octets, OctetOf
<1>1. PICK s : s = CASE name = "MUTE" -> <<n>> [] name = "POWER" -> <<n>> [] OTHER -> <<n, 0, 0, 11>>
  OBVIOUS
<1>2. r = <<MSG_SET, SCP_SET[name]>> \o s
  <2>1. CASE name = "MUTE"
    <3>1. (IF v[1] > 0 THEN 1 ELSE 0) = n
      BY ONLY <2>1, name = "MUTE" => n \in {0, 1} /\ v[1] = Flag(n) DEF Flag
    <3> QED
      BY ONLY <1>1, <2>1, <3>1, r = SetRequest(name, v) DEF SetRequest
  <2>2. CASE name = "POWER"
    <3>1. v[1] % 4 = n
      BY ONLY <1>0, <2>2, name = "POWER" => n <= 3, name # "MUTE" => v[1] = n, SmallMods
    <3> QED
      BY ONLY <1>1, <2>2, <3>1, r = SetRequest(name, v) DEF SetRequest
  <2>3. CASE name = "CHANNEL"
    <3>1. v[1] % 256 = n
      BY ONLY <1>0, <2>3, name # "MUTE" => v[1] = n, SmallMods
    <3> QED
      BY ONLY <1>1, <2>3, <3>1, r = SetRequest(name, v) DEF SetRequest
  <2> QED
    BY ONLY <2>1, <2>2, <2>3, name \in {"MUTE", "POWER", "CHANNEL"}
<1>3. s \in Seq(Octets) /\ Len(s) > 0 /\ s[1] = n
  <2>1. PICK a, b : a = 0 /\ b = 11
    OBVIOUS
  <2>2. a \in Octets /\ b \in Octets
    BY ONLY <2>1 DEF Octets
  <2>3. s = <<n>> \/ s = <<n, a, a, b>>
    BY ONLY <1>1, <2>1
  <2>4. CASE s = <<n>>
    BY ONLY <2>4, n \in Octets
  <2>5. CASE s = <<n, a, a, b>>
    BY ONLY <2>2, <2>5, n \in Octets
  <2> QED
    BY ONLY <2>3, <2>4, <2>5
<1>4. SCP_SET[name] \in Octets
  BY ONLY SetCodes, name \in {"MUTE", "POWER", "CHANNEL"}
<1>5. r \in Seq(Octets) /\ Octet(r, 2) = n
  BY ONLY <1>2, <1>3, <1>4, RequestOctets
<1>6. Deserialize(name, r, 2).fields = <<<<Octet(r, 2 + 0)>>>>
  BY ONLY name \in {"MUTE", "POWER", "CHANNEL"} DEF Deserialize, Event
<1>7. 2 + 0 = 2
  OBVIOUS
<1> QED
  BY ONLY <1>5, <1>6, <1>7

\* The SET of a time zone has it in two, and the flag behind them.
LEMMA ZoneSet ==
    ASSUME NEW v, v[1] \in Shorts, NEW dst, v[2] = Flag(dst), NEW r, r = SetRequest("TZINFO", v)
    PROVE  r \in Seq(Octets) /\ Deserialize("TZINFO", r, 2).fields = <<<<v[1]>>, <<Flag(dst)>>>>
<1>1. PICK n : n = v[1]
  OBVIOUS
<1>2. PICK h, l, f : h = (n \div 256) % 256 /\ l = n % 256 /\ f = Flag(dst)
  OBVIOUS
<1>3. h \in Octets /\ l \in Octets /\ Signed(h * 256 + l, 65536) = n
  BY ONLY <1>1, <1>2, v[1] \in Shorts, ZoneOctets
<1>4. f \in {0, 1} /\ f \in Octets
  BY ONLY <1>2 DEF Flag, Octets
<1>5. (IF v[2] > 0 THEN 1 ELSE 0) = f
  BY ONLY <1>2, <1>4, v[2] = Flag(dst)
<1>6. r = <<MSG_SET, SCP_SET["TZINFO"]>> \o <<h, l, f>>
  BY ONLY <1>1, <1>2, <1>5, r = SetRequest("TZINFO", v) DEF SetRequest
<1>7. PICK s : s = <<h, l, f>>
  OBVIOUS
<1>8. s \in Seq(Octets) /\ Len(s) = 3 /\ s[1] = h /\ s[2] = l /\ s[3] = f
  BY ONLY <1>3, <1>4, <1>7
<1>9. SCP_SET["TZINFO"] \in Octets
  BY ONLY SetCodes
<1>10. r \in Seq(Octets) /\ Octet(r, 2) = h /\ Octet(r, 3) = l /\ Octet(r, 4) = f
  <2>1. PICK c : c = SCP_SET["TZINFO"]
    OBVIOUS
  <2>2. c \in Octets /\ r = <<MSG_SET, c>> \o s
    BY ONLY <1>6, <1>7, <1>9, <2>1
  <2>3. s \in Seq(Octets) /\ Len(s) > 0 /\ Len(s) > 1 /\ Len(s) > 2
    BY ONLY <1>8
  <2>4. r \in Seq(Octets) /\ Octet(r, 2) = s[1] /\ Octet(r, 3) = s[2] /\ Octet(r, 4) = s[3]
    BY ONLY <2>2, <2>3, RequestOctets
  <2> QED
    BY ONLY <1>8, <2>4
<1>11. Deserialize("TZINFO", r, 2).fields =
          <<<<Signed(Octet(r, 2 + 0) * 256 + Octet(r, 2 + 1), 65536)>>, <<Octet(r, 2 + 2)>>>>
  BY ONLY DEF Deserialize, Event
<1>12. 2 + 0 = 2 /\ 2 + 1 = 3 /\ 2 + 2 = 4
  OBVIOUS
<1>13. Deserialize("TZINFO", r, 2).fields = <<<<Signed(h * 256 + l, 65536)>>, <<f>>>>
  BY ONLY <1>10, <1>11, <1>12
<1> QED
  BY ONLY <1>1, <1>2, <1>3, <1>10, <1>13

\* What SettingsKept says of one command
Kept(name, n, dst, outcome) ==
    /\ outcome.do = "request" /\ outcome.msg \in Seq(Octets)
    /\ Deserialize(name, outcome.msg, 2).fields =
          IF name = "TZINFO" THEN <<<<n>>, <<Flag(dst)>>>> ELSE <<<<n>>>>

\* The words of a SET
LEMMA SettingTokens ==
    ASSUME NEW line, line \in Seq(Chars), NEW name, name \in Settable, NEW n, NEW dst,
           line = Setting(name, n, dst)
    PROVE  IsSetting(StrTokenize(line), name, n, dst)
<1>1. PICK a, b, c, d : a = <<"SET", 0>> /\ b = <<name, 0>> /\ c = <<"#", n>> /\ d = <<"#", dst>>
  OBVIOUS
<1>2. a # Space /\ b # Space /\ c # Space /\ d # Space
  BY ONLY <1>1, name \in Settable, NotSpaces
<1>3. CASE name # "TZINFO"
  <2>1. Len(line) = 5 /\ line[1] = a /\ line[2] = Space /\ line[3] = b /\ line[4] = Space /\ line[5] = c
    BY ONLY <1>1, <1>3, line \in Seq(Chars), line = Setting(name, n, dst), SettingShort
  <2>2. StrTokenize(line) = <<<<a>>, <<b>>, <<c>>>>
    BY ONLY <1>2, <2>1, line \in Seq(Chars), ThreeWords
  <2>3. SetSize(name) = 3
    BY ONLY <1>3, name \in Settable DEF Settable, SetSize
  <2>4. PICK t, x, y, z : t = StrTokenize(line) /\ x = <<a>> /\ y = <<b>> /\ z = <<c>>
    OBVIOUS
  <2>5. t = <<x, y, z>>
    BY ONLY <2>2, <2>4
  <2>6. Len(t) = 3 /\ t[1] = x /\ t[2] = y /\ t[3] = z
    BY ONLY <2>5
  <2> QED
    BY ONLY <1>1, <1>3, <2>3, <2>4, <2>6 DEF IsSetting
<1>4. CASE name = "TZINFO"
  <2>1. line = Setting("TZINFO", n, dst) /\ b = <<"TZINFO", 0>>
    BY ONLY <1>1, <1>4, line = Setting(name, n, dst)
  <2>2. /\ Len(line) = 7 /\ line[1] = a /\ line[2] = Space /\ line[3] = b /\ line[4] = Space
        /\ line[5] = c /\ line[6] = Space /\ line[7] = d
    BY ONLY <1>1, <2>1, line \in Seq(Chars), SettingLong
  <2>3. StrTokenize(line) = <<<<a>>, <<b>>, <<c>>, <<d>>>>
    BY ONLY <1>2, <2>2, line \in Seq(Chars), FourWords
  <2>4. SetSize(name) = 4
    BY ONLY <1>4 DEF SetSize
  <2>5. PICK t, x, y, z, w : t = StrTokenize(line) /\ x = <<a>> /\ y = <<b>> /\ z = <<c>> /\ w = <<d>>
    OBVIOUS
  <2>6. t = <<x, y, z, w>>
    BY ONLY <2>3, <2>5
  <2>7. Len(t) = 4 /\ t[1] = x /\ t[2] = y /\ t[3] = z /\ t[4] = w
    BY ONLY <2>6
  <2> QED
    BY ONLY <1>1, <1>4, <2>4, <2>5, <2>7 DEF IsSetting
<1> QED
  BY ONLY <1>3, <1>4

\* The request made of them has the value that the client gave.
LEMMA SettingKept ==
    ASSUME NEW line, line \in Seq(Chars), NEW name, name \in Settable, NEW n, NEW dst,
           line = Setting(name, n, dst), InRange(name, n)
    PROVE  Kept(name, n, dst, ProcessCommand(StrTokenize(line), TRUE, 0))
<1>1. PICK tokens : tokens = StrTokenize(line)
  OBVIOUS
<1>2. IsSetting(tokens, name, n, dst)
  BY ONLY <1>1, line \in Seq(Chars), name \in Settable, line = Setting(name, n, dst), SettingTokens
<1>3. PICK v : /\ Reads(name, n, dst, v)
               /\ ProcessCommand(tokens, TRUE, 0) = Request(SetRequest(name, Composed(name, v)))
  BY ONLY <1>2, name \in Settable, SettingProcessed
<1>4. PICK w : w = Composed(name, v)
  OBVIOUS
<1>5. PICK r : r = SetRequest(name, w)
  OBVIOUS
<1>6. PICK q : q = ProcessCommand(tokens, TRUE, 0)
  OBVIOUS
<1>7. q = Request(r)
  BY ONLY <1>3, <1>4, <1>5, <1>6
<1>8. q.do = "request" /\ q.msg = r
  BY ONLY <1>7 DEF Request
<1>9. r \in Seq(Octets) /\ Deserialize(name, r, 2).fields =
          IF name = "TZINFO" THEN <<<<n>>, <<Flag(dst)>>>> ELSE <<<<n>>>>
  <2>1. CASE name = "GAIN"
    <3>1. w[1] = n /\ n \in -128 .. 127
      <4>1. w = v
        BY ONLY <1>4, <2>1 DEF Composed
      <4>2. n \in -128 .. 127
        BY ONLY <2>1, InRange(name, n) DEF InRange
      <4> QED
        BY ONLY <1>3, <4>1, <4>2 DEF Reads
    <3>2. r = SetRequest("GAIN", w)
      BY ONLY <1>5, <2>1
    <3>3. r \in Seq(Octets) /\ Deserialize("GAIN", r, 2).fields = <<<<n>>>>
      BY ONLY <3>1, <3>2, GainSet
    <3> QED
      BY ONLY <2>1, <3>3
  <2>2. CASE name \in {"MUTE", "POWER", "CHANNEL"}
    <3>1. /\ name = "MUTE" => n \in {0, 1}
          /\ name = "POWER" => n \in 0 .. 3
          /\ name = "CHANNEL" => n \in Octets
      <4>1. CASE name = "MUTE"
        BY ONLY <4>1, InRange(name, n) DEF InRange
      <4>2. CASE name = "POWER"
        BY ONLY <4>2, InRange(name, n) DEF InRange
      <4>3. CASE name = "CHANNEL"
        BY ONLY <4>3, InRange(name, n) DEF InRange
      <4> QED
        BY ONLY <2>2, <4>1, <4>2, <4>3
    <3>2. n \in Octets /\ (name = "POWER" => n <= 3)
      BY ONLY <2>2, <3>1 DEF Octets
    <3>3. /\ name = "MUTE" => n \in {0, 1} /\ w[1] = Flag(n)
          /\ name # "MUTE" => w[1] = n
      <4>1. v[1] = n
        BY ONLY <1>3 DEF Reads
      <4>2. CASE name = "MUTE"
        <5>1. w = <<Flag(n)>>
          BY ONLY <1>4, <4>1, <4>2 DEF Composed
        <5> QED
          BY ONLY <3>1, <4>2, <5>1
      <4>3. CASE name # "MUTE"
        <5>1. w = v
          BY ONLY <1>4, <2>2, <4>3 DEF Composed
        <5> QED
          BY ONLY <4>1, <4>3, <5>1
      <4> QED
        BY ONLY <4>2, <4>3
    <3>4. r \in Seq(Octets) /\ Deserialize(name, r, 2).fields = <<<<n>>>>
      <4>1. OneOctetSet(name, n, w)
        BY ONLY <2>2, <3>2, <3>3 DEF OneOctetSet
      <4>2. n \in Octets
        BY ONLY <3>2
      <4> QED
        BY ONLY <1>5, <4>1, <4>2, OctetSet
    <3> QED
      BY ONLY <2>2, <3>4
  <2>3. CASE name = "TZINFO"
    <3>1. w[1] = n /\ w[2] = Flag(dst)
      <4>1. v[1] = n /\ v[2] = dst
        BY ONLY <1>3, <2>3 DEF Reads
      <4>2. w = <<n, Flag(dst)>>
        BY ONLY <1>4, <2>3, <4>1 DEF Composed
      <4> QED
        BY ONLY <4>2
    <3>2. n \in Shorts
      <4>1. InRange("TZINFO", n)
        BY ONLY <2>3, InRange(name, n)
      <4> QED
        BY ONLY <4>1, ZoneRange
    <3>3. r = SetRequest("TZINFO", w)
      BY ONLY <1>5, <2>3
    <3>4. r \in Seq(Octets) /\ Deserialize("TZINFO", r, 2).fields = <<<<n>>, <<Flag(dst)>>>>
      BY ONLY <3>1, <3>2, <3>3, ZoneSet
    <3> QED
      BY ONLY <2>3, <3>4
  <2> QED
    BY ONLY <2>1, <2>2, <2>3, name \in Settable DEF Settable
<1> QED
  BY ONLY <1>1, <1>6, <1>8, <1>9 DEF Kept

\* What SettingsKept says of one line and name
AllKept(line, name) ==
    \A n \in {c[2] : c \in ToSet(line)}, dst \in {c[2] : c \in ToSet(line)} :
        line = Setting(name, n, dst) /\ InRange(name, n) =>
            Kept(name, n, dst, ProcessCommand(StrTokenize(line), TRUE, 0))

\* That is so of every line of a client.
LEMMA AllSettingsKept == SettingsKept
<1>1. ASSUME NEW line, line \in ClientLines, NEW name, name \in Settable, NEW n, NEW dst,
             line = Setting(name, n, dst), InRange(name, n)
      PROVE  Kept(name, n, dst, ProcessCommand(StrTokenize(line), TRUE, 0))
  <2>1. line \in Seq(Chars)
    BY ONLY line \in ClientLines, LineOfChars
  <2> QED
    BY ONLY <2>1, name \in Settable, line = Setting(name, n, dst), InRange(name, n), SettingKept
<1>2. \A line \in ClientLines, name \in Settable : AllKept(line, name)
  BY ONLY <1>1 DEF AllKept
<1>3. SettingsKept <=> \A line \in ClientLines, name \in Settable : AllKept(line, name)
  BY ONLY Zenon DEF SettingsKept, AllKept, Kept, Settable
<1> QED
  BY ONLY <1>2, <1>3

\* A SET of a value in its range asks the radio for that value: read as the
\* event that reports it, the request has the number, and the flag of a time
\* zone, that the client gave.
THEOREM SettingsComeBack == Spec => []SetIsReported
<1>1. SetIsReported
  BY ONLY AllSettingsKept DEF SetIsReported
<1> QED
  BY <1>1, PTL

-----------------------------------------------------------------------------
(* What is under way: what is left of Dispatch, with the events it stands  *)
(* for, and what the clients were told of the channel.                     *)

\* The clients were told of the channel that CSirCon keeps, or of none.
Known(ann, cur) == ann \in {NoChannel, cur}

\* In a message that is being dispatched: nothing of a channel is to be told,
\* or the channel was stored and is to be told first, or it is yet to be
\* stored.
Underway(p, evs, k, cur, ann) ==
    \E E : /\ evs \in Seq(E)
           /\ \/ Silent(p, evs, k) /\ Known(ann, cur)
              \/ p = Tells(evs) /\ Announces(evs, k, cur)
              \/ /\ Known(ann, cur)
                 /\ \E c \in Octets : Tuning(p, evs, k, c) \/ Answering(E, p, evs, k, c)

\* What is left of Dispatch are the events left.
LEMMA UnderwayTold ==
    ASSUME NEW p, NEW evs, NEW k, NEW cur, NEW ann, Underway(p, evs, k, cur, ann)
    PROVE  Notified(p) = evs
<1>1. PICK E : /\ evs \in Seq(E)
               /\ \/ Silent(p, evs, k) /\ Known(ann, cur)
                  \/ p = Tells(evs) /\ Announces(evs, k, cur)
                  \/ /\ Known(ann, cur)
                     /\ \E c \in Octets : Tuning(p, evs, k, c) \/ Answering(E, p, evs, k, c)
  BY ONLY Underway(p, evs, k, cur, ann) DEF Underway
<1>2. CASE p = Tells(evs)
  BY ONLY <1>1, <1>2, TellsAreSteps
<1>3. CASE p # Tells(evs)
  <2>1. Shaped(p, evs, k)
    BY ONLY <1>1, <1>3 DEF Shaped
  <2> QED
    BY ONLY <2>1, ShapedNotified
<1> QED
  BY ONLY <1>2, <1>3

\* A message that Dispatch just took, whatever its shape
LEMMA ShapedUnderway ==
    ASSUME NEW p, NEW evs, NEW k, Shaped(p, evs, k), NEW cur, NEW ann, Known(ann, cur)
    PROVE  Underway(p, evs, k, cur, ann)
BY ONLY Shaped(p, evs, k), Known(ann, cur) DEF Shaped, Underway

\* No message
LEMMA NothingUnderway == ASSUME NEW k, NEW cur PROVE Underway(<<>>, <<>>, k, cur, NoChannel)
<1>1. <<>> \in Seq({}) /\ Tells(<<>>) = <<>> /\ AllQuiet(<<>>, k)
  BY ONLY DEF Tells, AllQuiet
<1> QED
  BY ONLY <1>1 DEF Underway, Silent, Known

\* Nothing is left: the clients know of the channel.
LEMMA AllTold ==
    ASSUME NEW evs, NEW k, NEW cur, NEW ann, Underway(<<>>, evs, k, cur, ann)
    PROVE  Known(ann, cur)
<1>1. PICK p : p = <<>>
  OBVIOUS
<1>2. PICK E : /\ evs \in Seq(E)
               /\ \/ Silent(p, evs, k) /\ Known(ann, cur)
                  \/ p = Tells(evs) /\ Announces(evs, k, cur)
                  \/ /\ Known(ann, cur)
                     /\ \E c \in Octets : Tuning(p, evs, k, c) \/ Answering(E, p, evs, k, c)
  BY ONLY <1>1, Underway(<<>>, evs, k, cur, ann) DEF Underway
<1>3. CASE p = Tells(evs) /\ Announces(evs, k, cur)
  <2>1. evs # <<>>
    BY ONLY <1>3 DEF Announces
  <2>2. Tells(evs) # <<>>
    BY ONLY <1>2, <2>1, TellsHead
  <2> QED
    BY ONLY <2>2, <1>1, <1>3
<1> QED
  BY ONLY <1>2, <1>3

\* Behind the first event, none is of a channel.
LEMMA QuietTail ==
    ASSUME NEW E, NEW evs, evs \in Seq(E), evs # <<>>, NEW k, \A j \in 2 .. Len(evs) : Quiet(evs[j], k)
    PROVE  AllQuiet(Tail(evs), k) /\ (Len(evs) = 1 => \A m : AllQuiet(Tail(evs), m))
<1>1. PICK t : t = Tail(evs)
  OBVIOUS
<1>2. t \in Seq(E) /\ Len(t) = Len(evs) - 1 /\ Len(evs) \in Nat /\ Len(evs) >= 1
      /\ \A j \in 1 .. Len(evs) - 1 : t[j] = evs[j + 1]
  BY ONLY <1>1, evs \in Seq(E), evs # <<>>
<1>3. ASSUME NEW j \in 1 .. Len(t) PROVE Quiet(t[j], k)
  <2>1. j + 1 \in 2 .. Len(evs) /\ t[j] = evs[j + 1]
    BY ONLY <1>2, j \in 1 .. Len(t)
  <2> QED
    BY ONLY <2>1, \A i \in 2 .. Len(evs) : Quiet(evs[i], k)
<1>4. ASSUME Len(evs) = 1, NEW m, NEW j \in 1 .. Len(t) PROVE Quiet(t[j], m)
  BY ONLY <1>2, <1>4, j \in 1 .. Len(t)
<1> QED
  BY ONLY <1>1, <1>3, <1>4 DEF AllQuiet

\* The next event is notified.
LEMMA TellUnderway ==
    ASSUME NEW p, NEW evs, NEW k, NEW cur, NEW ann, Underway(p, evs, k, cur, ann),
           p # <<>>, Head(p).do = "notify",
           NEW k2, k2 = IF Len(p) = 1 THEN MSG_ASYNC ELSE k,
           NEW evs2, evs2 = IF evs = <<>> THEN evs ELSE Tail(evs),
           NEW ann2, ann2 = IF Quiet(Head(p).event, k) THEN ann ELSE Head(p).event.fields[1][1]
    PROVE  Underway(Tail(p), evs2, k2, cur, ann2)
<1>1. PICK E : /\ evs \in Seq(E)
               /\ \/ Silent(p, evs, k) /\ Known(ann, cur)
                  \/ p = Tells(evs) /\ Announces(evs, k, cur)
                  \/ /\ Known(ann, cur)
                     /\ \E c \in Octets : Tuning(p, evs, k, c) \/ Answering(E, p, evs, k, c)
  BY ONLY Underway(p, evs, k, cur, ann) DEF Underway
<1>2. ASSUME p = Tells(evs)
      PROVE  /\ evs # <<>> /\ Head(p) = Tell(evs[1]) /\ Head(p).event = evs[1]
             /\ evs2 = Tail(evs) /\ evs2 \in Seq(E) /\ Tail(p) = Tells(evs2) /\ Len(p) = Len(evs)
  <2>1. CASE evs = <<>>
    <3>1. Tells(<<>>) = <<>>
      BY ONLY DEF Tells
    <3> QED
      BY ONLY <2>1, <3>1, <1>2, p # <<>>
  <2>2. CASE evs # <<>>
    <3>1. /\ Head(Tells(evs)) = Tell(evs[1]) /\ Tail(Tells(evs)) = Tells(Tail(evs))
          /\ Tail(evs) \in Seq(E) /\ Len(Tells(evs)) = Len(evs)
      BY ONLY <1>1, <2>2, TellsHead
    <3>2. evs2 = Tail(evs)
      BY ONLY <2>2, evs2 = IF evs = <<>> THEN evs ELSE Tail(evs)
    <3>3. Tell(evs[1]).event = evs[1]
      BY ONLY TellIs
    <3> QED
      BY ONLY <1>2, <2>2, <3>1, <3>2, <3>3
  <2> QED
    BY ONLY <2>1, <2>2
<1>3. ASSUME p = Tells(evs), \A j \in 2 .. Len(evs) : Quiet(evs[j], k)
      PROVE  Silent(Tail(p), evs2, k2)
  <2>1. evs # <<>> /\ evs2 = Tail(evs) /\ Tail(p) = Tells(evs2) /\ Len(p) = Len(evs)
    BY ONLY <1>2, <1>3
  <2>2. AllQuiet(Tail(evs), k) /\ (Len(evs) = 1 => \A m : AllQuiet(Tail(evs), m))
    BY ONLY <1>1, <1>3, <2>1, QuietTail
  <2>3. AllQuiet(evs2, k2)
    BY ONLY <2>1, <2>2, k2 = IF Len(p) = 1 THEN MSG_ASYNC ELSE k
  <2> QED
    BY ONLY <2>1, <2>3 DEF Silent
<1>4. CASE Silent(p, evs, k) /\ Known(ann, cur)
  <2>1. p = Tells(evs) /\ AllQuiet(evs, k)
    BY ONLY <1>4 DEF Silent
  <2>2. evs # <<>> /\ Head(p).event = evs[1] /\ evs2 \in Seq(E)
    BY ONLY <1>2, <2>1
  <2>3. Len(evs) \in Nat /\ Len(evs) >= 1
    BY ONLY <1>1, <2>2
  <2>4. Quiet(evs[1], k) /\ \A j \in 2 .. Len(evs) : Quiet(evs[j], k)
    BY ONLY <2>1, <2>3 DEF AllQuiet
  <2>5. ann2 = ann
    BY ONLY <2>2, <2>4, ann2 = IF Quiet(Head(p).event, k) THEN ann ELSE Head(p).event.fields[1][1]
  <2>6. Silent(Tail(p), evs2, k2)
    BY ONLY <1>3, <2>1, <2>4
  <2> QED
    BY ONLY <1>4, <2>2, <2>5, <2>6 DEF Underway
<1>5. CASE p = Tells(evs) /\ Announces(evs, k, cur)
  <2>1. ~ Quiet(evs[1], k) /\ evs[1].fields[1] = <<cur>> /\ \A j \in 2 .. Len(evs) : Quiet(evs[j], k)
    BY ONLY <1>5 DEF Announces
  <2>2. Head(p).event = evs[1] /\ evs2 \in Seq(E)
    BY ONLY <1>2, <1>5
  <2>3. ann2 = cur
    <3>1. <<cur>>[1] = cur
      OBVIOUS
    <3> QED
      BY ONLY <2>1, <2>2, <3>1, ann2 = IF Quiet(Head(p).event, k) THEN ann ELSE Head(p).event.fields[1][1]
  <2>4. Silent(Tail(p), evs2, k2)
    BY ONLY <1>3, <1>5, <2>1
  <2> QED
    BY ONLY <2>2, <2>3, <2>4 DEF Underway, Known
<1>6. ASSUME NEW c \in Octets PROVE ~ Tuning(p, evs, k, c)
  <2>0. SUFFICES ASSUME Tuning(p, evs, k, c) PROVE FALSE
    OBVIOUS
  <2>1. p = TuneAndTell(c, evs)
    BY ONLY <2>0 DEF Tuning
  <2>2. Head(p) = Tune(c)
    BY ONLY <1>1, <2>1, c \in Octets, TuneAndTellFacts
  <2> QED
    BY ONLY <2>2, TuneIs, Head(p).do = "notify"
<1>7. ASSUME NEW c \in Octets, Answering(E, p, evs, k, c), Known(ann, cur)
      PROVE  Underway(Tail(p), evs2, k2, cur, ann2)
  <2>1. PICK e \in E, rest \in Seq(E) :
          evs = <<e>> \o rest /\ Quiet(e, k) /\ p = <<Tell(e)>> \o TuneAndTell(c, rest) /\ Announces(rest, k, c)
    BY ONLY <1>7 DEF Answering
  <2>2. PICK t : t = TuneAndTell(c, rest)
    OBVIOUS
  <2>3. t \in Seq(Steps(E)) /\ t # <<>>
    BY ONLY <2>2, c \in Octets, rest \in Seq(E), TuneAndTellFacts
  <2>4. PICK x : x = Tell(e)
    OBVIOUS
  <2>5. p = <<x>> \o t
    BY ONLY <2>1, <2>2, <2>4
  <2>6. Head(p) = x /\ Tail(p) = t /\ Len(p) = Len(t) + 1
    BY ONLY <2>3, <2>5, ConsFacts
  <2>7. evs # <<>> /\ Tail(evs) = rest
    BY ONLY <2>1, rest \in Seq(E), ConsFacts
  <2>8. evs2 = rest
    BY ONLY <2>7, evs2 = IF evs = <<>> THEN evs ELSE Tail(evs)
  <2>9. k2 = k
    <3>1. Len(t) \in Nat /\ Len(t) # 0
      BY ONLY <2>3
    <3>2. Len(p) # 1
      BY ONLY <2>6, <3>1
    <3> QED
      BY ONLY <3>2, k2 = IF Len(p) = 1 THEN MSG_ASYNC ELSE k
  <2>10. ann2 = ann
    <3>1. Head(p).event = e
      BY ONLY <2>4, <2>6, TellIs
    <3> QED
      BY ONLY <3>1, <2>1, ann2 = IF Quiet(Head(p).event, k) THEN ann ELSE Head(p).event.fields[1][1]
  <2>11. Tuning(Tail(p), evs2, k2, c)
    BY ONLY <2>1, <2>2, <2>6, <2>8, <2>9 DEF Tuning
  <2>12. evs2 \in Seq(E)
    BY ONLY <2>8, rest \in Seq(E)
  <2> QED
    BY ONLY <1>7, <2>10, <2>11, <2>12, c \in Octets DEF Underway
<1> QED
  BY ONLY <1>1, <1>4, <1>5, <1>6, <1>7

\* The channel is stored.
LEMMA TuneUnderway ==
    ASSUME NEW p, NEW evs, NEW k, NEW cur, NEW ann, Underway(p, evs, k, cur, ann),
           p # <<>>, Head(p).do = "tune"
    PROVE  Head(p).channel \in Octets /\ Underway(Tail(p), evs, k, Head(p).channel, ann)
<1>1. PICK E : /\ evs \in Seq(E)
               /\ \/ Silent(p, evs, k) /\ Known(ann, cur)
                  \/ p = Tells(evs) /\ Announces(evs, k, cur)
                  \/ /\ Known(ann, cur)
                     /\ \E c \in Octets : Tuning(p, evs, k, c) \/ Answering(E, p, evs, k, c)
  BY ONLY Underway(p, evs, k, cur, ann) DEF Underway
<1>2. p # Tells(evs)
  <2>1. SUFFICES ASSUME p = Tells(evs) PROVE FALSE
    OBVIOUS
  <2>2. evs # <<>>
    <3>1. Tells(<<>>) = <<>>
      BY ONLY DEF Tells
    <3> QED
      BY ONLY <3>1, <2>1, p # <<>>
  <2>3. Head(Tells(evs)) = Tell(evs[1])
    BY ONLY <1>1, <2>2, TellsHead
  <2>4. Head(p).do = "notify"
    BY ONLY <2>1, <2>3, TellIs
  <2> QED
    BY ONLY <2>4, Head(p).do = "tune"
<1>3. ASSUME NEW c \in Octets PROVE ~ Answering(E, p, evs, k, c)
  <2>1. SUFFICES ASSUME Answering(E, p, evs, k, c) PROVE FALSE
    OBVIOUS
  <2>2. PICK e \in E, rest \in Seq(E) : p = <<Tell(e)>> \o TuneAndTell(c, rest)
    BY ONLY <2>1 DEF Answering
  <2>3. PICK t : t = TuneAndTell(c, rest)
    OBVIOUS
  <2>4. t \in Seq(Steps(E))
    BY ONLY <2>3, c \in Octets, rest \in Seq(E), TuneAndTellFacts
  <2>5. Head(p) = Tell(e)
    BY ONLY <2>2, <2>3, <2>4, ConsFacts
  <2>6. Head(p).do = "notify"
    BY ONLY <2>5, TellIs
  <2> QED
    BY ONLY <2>6, Head(p).do = "tune"
<1>4. PICK c \in Octets : Tuning(p, evs, k, c)
  BY ONLY <1>1, <1>2, <1>3 DEF Silent
<1>5. p = TuneAndTell(c, evs) /\ Announces(evs, k, c)
  BY ONLY <1>4 DEF Tuning
<1>6. Head(p) = Tune(c) /\ Tail(p) = Tells(evs)
  BY ONLY <1>1, <1>5, c \in Octets, TuneAndTellFacts
<1>7. Head(p).channel = c
  BY ONLY <1>6, TuneIs
<1> QED
  BY ONLY <1>1, <1>5, <1>6, <1>7, c \in Octets DEF Underway

-----------------------------------------------------------------------------
(* The invariant of the radio thread.                                      *)

\* Every request is one that the radio has an answer to.
AskedOK == \E R : asked \in Seq(R) /\ \A r \in R : Asked(r)

\* What is left of the message at hand, as Underway says
TellOK == Underway(program, due, kind, m_curr_channel, announced)

\* The invariant
TellInv == AskedOK /\ TellOK /\ m_curr_channel \in Octets

\* One more request, and the requests that are answered or lost
LEMMA AskedAppend ==
    ASSUME AskedOK, NEW r, Asked(r), asked' = Append(asked, r)
    PROVE  AskedOK'
<1>1. PICK R : asked \in Seq(R) /\ \A x \in R : Asked(x)
  BY ONLY AskedOK DEF AskedOK
<1>2. PICK Q : Q = R \cup {r}
  OBVIOUS
<1>3. asked' \in Seq(Q) /\ \A x \in Q : Asked(x)
  BY ONLY <1>1, <1>2, Asked(r), asked' = Append(asked, r)
<1> QED
  BY ONLY <1>3 DEF AskedOK

LEMMA AskedDrop ==
    ASSUME AskedOK, NEW k, k \in 0 .. Len(asked), asked' = SubSeq(asked, k + 1, Len(asked))
    PROVE  AskedOK' /\ (k # 0 => Asked(asked[k]))
<1>1. PICK R : asked \in Seq(R) /\ \A x \in R : Asked(x)
  BY ONLY AskedOK DEF AskedOK
<1>2. asked' \in Seq(R)
  <2>1. PICK a : a = asked
    OBVIOUS
  <2>2. SubSeq(a, k + 1, Len(a)) \in Seq(R)
    BY ONLY <1>1, <2>1, k \in 0 .. Len(asked), SuffixFacts
  <2> QED
    BY ONLY <2>1, <2>2, asked' = SubSeq(asked, k + 1, Len(asked))
<1>3. k # 0 => asked[k] \in R
  BY ONLY <1>1, k \in 0 .. Len(asked)
<1> QED
  BY ONLY <1>1, <1>2, <1>3 DEF AskedOK

LEMMA AskedSame == ASSUME AskedOK, UNCHANGED asked PROVE AskedOK'
BY ONLY AskedOK, UNCHANGED asked DEF AskedOK

LEMMA TellSame == ASSUME TellOK, UNCHANGED radioVars PROVE TellOK'
BY ONLY TellOK, UNCHANGED radioVars DEF TellOK, radioVars

\* The radio says something, or answers a request: Dispatch takes it.
LEMMA ReceiveKeeps == ASSUME TellInv, Receive PROVE TellInv'
<1>1. PICK k \in 0 .. Len(asked) :
      \E m \in IF k = 0 THEN {Async(r) : r \in AsyncReports} ELSE AnswersTo(asked[k]) :
        /\ program = <<>> /\ program' = Dispatch(m.data) /\ due' = m.events /\ kind' = m.data[1]
        /\ asked' = SubSeq(asked, k + 1, Len(asked)) /\ UNCHANGED <<m_curr_channel, announced>>
  BY ONLY Receive DEF Receive
<1>2. PICK m \in IF k = 0 THEN {Async(r) : r \in AsyncReports} ELSE AnswersTo(asked[k]) :
        /\ program = <<>> /\ program' = Dispatch(m.data) /\ due' = m.events /\ kind' = m.data[1]
        /\ asked' = SubSeq(asked, k + 1, Len(asked)) /\ UNCHANGED <<m_curr_channel, announced>>
  BY ONLY <1>1
<1>3. AskedOK' /\ (k # 0 => Asked(asked[k]))
  BY ONLY <1>2, k \in 0 .. Len(asked), TellInv, AskedDrop DEF TellInv
<1>4. Shaped(Dispatch(m.data), m.events, m.data[1])
  <2>1. CASE k = 0
    <3>1. PICK r \in AsyncReports : m = Async(r)
      BY ONLY <2>1, <1>2
    <3>2. r.type \in AsyncTypes /\ r.fields \in Fields(r.type)
      BY ONLY <3>1, EventPathAssumption
    <3> QED
      BY ONLY <3>1, <3>2, AsyncShaped
  <2>2. CASE k # 0
    <3>1. PICK q : q = asked[k]
      OBVIOUS
    <3>2. m \in AnswersTo(q) /\ Asked(q)
      BY ONLY <3>1, <2>2, <1>2, <1>3
    <3> QED
      BY ONLY <3>2, AnswerShaped
  <2> QED
    BY ONLY <2>1, <2>2
<1>5. Known(announced, m_curr_channel)
  <2>1. Underway(<<>>, due, kind, m_curr_channel, announced)
    BY ONLY <1>2, TellInv DEF TellInv, TellOK
  <2> QED
    BY ONLY <2>1, AllTold
<1>6. Underway(Dispatch(m.data), m.events, m.data[1], m_curr_channel, announced)
  BY ONLY <1>4, <1>5, ShapedUnderway
<1>7. TellOK'
  BY ONLY <1>2, <1>6 DEF TellOK
<1> QED
  BY ONLY <1>2, <1>3, <1>7, TellInv DEF TellInv

\* The handler stores the channel.
LEMMA StoreChannelKeeps == ASSUME TellInv, StoreChannel PROVE TellInv'
<1>1. /\ program # <<>> /\ Head(program).do = "tune" /\ m_curr_channel' = Head(program).channel
      /\ program' = Tail(program) /\ UNCHANGED <<due, kind, announced, asked>>
  BY ONLY StoreChannel DEF StoreChannel
<1>2. PICK p : p = program
  OBVIOUS
<1>3. Underway(p, due, kind, m_curr_channel, announced)
  BY ONLY <1>2, TellInv DEF TellInv, TellOK
<1>4. Head(p).channel \in Octets /\ Underway(Tail(p), due, kind, Head(p).channel, announced)
  BY ONLY <1>1, <1>2, <1>3, TuneUnderway
<1>5. TellOK'
  BY ONLY <1>1, <1>2, <1>4 DEF TellOK
<1>6. AskedOK'
  BY ONLY <1>1, TellInv, AskedSame DEF TellInv
<1> QED
  BY ONLY <1>1, <1>2, <1>4, <1>5, <1>6 DEF TellInv

\* Any event is notified.
LEMMA NotifyTells ==
    ASSUME TellInv, NEW types, Notify(types),
           announced' = IF Quiet(Head(program).event, kind) THEN announced
                                                            ELSE Head(program).event.fields[1][1]
    PROVE  TellOK' /\ m_curr_channel' \in Octets
<1>1. /\ program # <<>> /\ Head(program).do = "notify" /\ program' = Tail(program)
      /\ due' = (IF due = <<>> THEN due ELSE Tail(due))
      /\ kind' = (IF Len(program) = 1 THEN MSG_ASYNC ELSE kind) /\ UNCHANGED m_curr_channel
  BY ONLY Notify(types) DEF Notify
<1>2. PICK p, evs, k, cur, ann, k2, evs2, ann2 :
        /\ p = program /\ evs = due /\ k = kind /\ cur = m_curr_channel /\ ann = announced
        /\ k2 = kind' /\ evs2 = due' /\ ann2 = announced'
  OBVIOUS
<1>3. Underway(p, evs, k, cur, ann)
  BY ONLY <1>2, TellInv DEF TellInv, TellOK
<1>4. /\ p # <<>> /\ Head(p).do = "notify" /\ k2 = (IF Len(p) = 1 THEN MSG_ASYNC ELSE k)
      /\ evs2 = (IF evs = <<>> THEN evs ELSE Tail(evs))
      /\ ann2 = (IF Quiet(Head(p).event, k) THEN ann ELSE Head(p).event.fields[1][1])
  BY ONLY <1>1, <1>2, announced' = IF Quiet(Head(program).event, kind) THEN announced
                                                            ELSE Head(program).event.fields[1][1]
<1>5. Underway(Tail(p), evs2, k2, cur, ann2)
  BY ONLY <1>3, <1>4, TellUnderway
<1>6. TellOK'
  BY ONLY <1>1, <1>2, <1>5 DEF TellOK
<1> QED
  BY ONLY <1>1, <1>6, TellInv DEF TellInv

\* CSirServer is notified of an event that goes to every client,
LEMMA NotifyAllKeeps == ASSUME TellInv, NotifyAll PROVE TellInv'
<1>1. /\ Notify(ToAll) /\ asked' = asked
      /\ LET e == Head(program).event
         IN  announced' = IF \/ e.type = "CHANNEL"
                             \/ e.type = "CHANNELINFO" /\ kind = MSG_SET_RESP
                            THEN e.fields[1][1] ELSE announced
  BY ONLY NotifyAll DEF NotifyAll
<1>2. announced' = IF Quiet(Head(program).event, kind) THEN announced
                                                      ELSE Head(program).event.fields[1][1]
  BY ONLY <1>1 DEF Quiet
<1>3. TellOK' /\ m_curr_channel' \in Octets
  BY ONLY <1>1, <1>2, TellInv, NotifyTells
<1>4. AskedOK'
  BY ONLY <1>1, TellInv, AskedSame DEF TellInv
<1> QED
  BY ONLY <1>3, <1>4 DEF TellInv

\* Where the event is of no channel, the clients are not told of one.
LEMMA NotifyOther ==
    ASSUME TellInv, NEW types, Notify(types), types \cap {"CHANNEL", "CHANNELINFO"} = {}, UNCHANGED announced
    PROVE  TellOK' /\ m_curr_channel' \in Octets
<1>1. Head(program).event.type \in types
  BY ONLY Notify(types) DEF Notify
<1>2. Quiet(Head(program).event, kind)
  BY ONLY <1>1, types \cap {"CHANNEL", "CHANNELINFO"} = {} DEF Quiet
<1>3. announced' = IF Quiet(Head(program).event, kind) THEN announced
                                                      ELSE Head(program).event.fields[1][1]
  BY ONLY <1>2, UNCHANGED announced
<1> QED
  BY ONLY <1>3, TellInv, Notify(types), NotifyTells

\* of one that goes to the controller,
LEMMA NotifyControllerKeeps == ASSUME TellInv, NotifyController PROVE TellInv'
<1>1. Notify(ToController) /\ UNCHANGED <<announced, asked>>
  BY ONLY NotifyController DEF NotifyController
<1>2. ToController \cap {"CHANNEL", "CHANNELINFO"} = {}
  BY ONLY DEF ToController
<1>3. TellOK' /\ m_curr_channel' \in Octets
  BY ONLY <1>1, <1>2, TellInv, NotifyOther
<1>4. AskedOK'
  BY ONLY <1>1, TellInv, AskedSame DEF TellInv
<1> QED
  BY ONLY <1>3, <1>4 DEF TellInv

\* of a reset,
LEMMA OnSCEResetKeeps == ASSUME TellInv, OnSCEReset PROVE TellInv'
<1>1. Notify({"RESET"}) /\ UNCHANGED announced /\ asked' = Append(asked, SetRequest("POWER", <<3>>))
  BY ONLY OnSCEReset DEF OnSCEReset
<1>2. {"RESET"} \cap {"CHANNEL", "CHANNELINFO"} = {}
  OBVIOUS
<1>3. TellOK' /\ m_curr_channel' \in Octets
  BY ONLY <1>1, <1>2, TellInv, NotifyOther
<1>4. Asked(SetRequest("POWER", <<3>>))
  <2>1. PICK v, n : v = <<3>> /\ n = "POWER"
    OBVIOUS
  <2>2. n \in DOMAIN SCP_SET /\ n # "CHANNEL"
    BY ONLY <2>1, SetCodes
  <2>3. Asked(SetRequest(n, v))
    BY ONLY <2>2, SetAsked
  <2> QED
    BY ONLY <2>1, <2>3
<1>5. AskedOK'
  BY ONLY <1>1, <1>4, TellInv, AskedAppend DEF TellInv
<1> QED
  BY ONLY <1>3, <1>5 DEF TellInv

\* of one that goes to nobody.
LEMMA UnhandledKeeps == ASSUME TellInv, Unhandled PROVE TellInv'
<1>1. Notify(NoHandler) /\ UNCHANGED <<announced, asked>>
  BY ONLY Unhandled DEF Unhandled
<1>2. NoHandler \cap {"CHANNEL", "CHANNELINFO"} = {}
  BY ONLY DEF NoHandler
<1>3. TellOK' /\ m_curr_channel' \in Octets
  BY ONLY <1>1, <1>2, TellInv, NotifyOther
<1>4. AskedOK'
  BY ONLY <1>1, TellInv, AskedSame DEF TellInv
<1> QED
  BY ONLY <1>3, <1>4 DEF TellInv

\* What is no business of the radio thread
LEMMA OthersKeep == ASSUME TellInv, UNCHANGED radioVars, UNCHANGED asked PROVE TellInv'
<1>1. AskedOK' /\ TellOK'
  BY ONLY TellInv, UNCHANGED radioVars, UNCHANGED asked, AskedSame, TellSame DEF TellInv
<1> QED
  BY ONLY <1>1, TellInv, UNCHANGED radioVars DEF TellInv, radioVars

\* A client gives a command, which may ask the radio for something.
LEMMA CommandKeeps == ASSUME TellInv, NEW line \in Commands, Command(line) PROVE TellInv'
<1>1. line \in Seq(Chars)
  BY ONLY line \in Commands, EventPathAssumption, LineOfChars
<1>2. PICK h : h = (m_controller = server.client)
  OBVIOUS
<1>3. PICK q : q = ProcessCommand(StrTokenize(line), h, m_curr_channel)
  OBVIOUS
<1>4. /\ UNCHANGED radioVars
      /\ (q.do = "request" /\ asked' = Append(asked, q.msg)) \/ UNCHANGED asked
  BY ONLY <1>2, <1>3, Command(line) DEF Command
<1>5. CASE q.do = "request" /\ asked' = Append(asked, q.msg)
  <2>1. Asked(q.msg)
    BY ONLY <1>1, <1>3, <1>5, TellInv, CommandAsked DEF TellInv
  <2>2. AskedOK'
    BY ONLY <1>5, <2>1, TellInv, AskedAppend DEF TellInv
  <2>3. TellOK'
    BY ONLY <1>4, TellInv, TellSame DEF TellInv
  <2> QED
    BY ONLY <1>4, <2>2, <2>3, TellInv DEF TellInv, radioVars
<1>6. CASE UNCHANGED asked
  BY ONLY <1>4, <1>6, TellInv, OthersKeep
<1> QED
  BY ONLY <1>4, <1>5, <1>6

\* Nothing is under way at the beginning.
LEMMA TellInit == ASSUME Init PROVE TellInv
<1>1. program = <<>> /\ due = <<>> /\ kind = MSG_ASYNC /\ m_curr_channel = NoChannel
      /\ asked = <<>> /\ announced = NoChannel
  BY ONLY Init DEF Init
<1>2. Underway(<<>>, <<>>, kind, m_curr_channel, NoChannel)
  BY ONLY NothingUnderway
<1>3. TellOK
  BY ONLY <1>1, <1>2 DEF TellOK
<1>4. AskedOK
  <2>1. asked \in Seq({})
    BY ONLY <1>1
  <2> QED
    BY ONLY <2>1 DEF AskedOK
<1>5. m_curr_channel \in Octets
  BY ONLY <1>1 DEF NoChannel, Octets
<1> QED
  BY ONLY <1>3, <1>4, <1>5 DEF TellInv

\* Every step keeps the invariant.
LEMMA TellNext == TellInv /\ [Next]_vars => TellInv'
<1> SUFFICES ASSUME TellInv, [Next]_vars PROVE TellInv'
  OBVIOUS
<1>1. CASE Receive
  BY ONLY <1>1, TellInv, ReceiveKeeps
<1>2. CASE RadioThread
  BY ONLY <1>2, TellInv, StoreChannelKeeps, NotifyAllKeeps, NotifyControllerKeeps, OnSCEResetKeeps,
          UnhandledKeeps DEF RadioThread
<1>3. ASSUME NEW t \in Threads, SendStep(t) PROVE TellInv'
  <2>1. UNCHANGED radioVars /\ UNCHANGED asked
    BY ONLY <1>3 DEF SendStep
  <2> QED
    BY ONLY <2>1, TellInv, OthersKeep
<1>4. CASE ServerThread
  <2>1. UNCHANGED radioVars /\ UNCHANGED asked
    BY ONLY <1>4 DEF ServerThread, BeginPass, Visit, EndPass, Verdict, TransmitBegin, TransmitSend,
                     TransmitMark, Leave
  <2> QED
    BY ONLY <2>1, TellInv, OthersKeep
<1>5. ASSUME NEW line \in Commands, Command(line) PROVE TellInv'
  BY ONLY <1>5, TellInv, CommandKeeps
<1>6. CASE DropClient \/ ClientStops
  <2>1. UNCHANGED radioVars /\ UNCHANGED asked
    BY ONLY <1>6 DEF DropClient, ClientStops
  <2> QED
    BY ONLY <2>1, TellInv, OthersKeep
<1>7. CASE UNCHANGED vars
  <2>1. UNCHANGED radioVars /\ UNCHANGED asked
    BY ONLY <1>7 DEF vars
  <2> QED
    BY ONLY <2>1, TellInv, OthersKeep
<1> QED
  BY ONLY <1>1, <1>2, <1>3, <1>4, <1>5, <1>6, <1>7, [Next]_vars DEF Next

\* What the invariant says of the properties
LEMMA TellInvReports == TellInv => EventsAsReported
<1> SUFFICES ASSUME TellInv PROVE EventsAsReported
  OBVIOUS
<1>1. Notified(program) = due
  BY ONLY TellInv, UnderwayTold DEF TellInv, TellOK
<1>2. ASSUME NEW name, name \in DOMAIN Answers, NEW m, m \in AnswersTo(GetRequest(name, NoChannel))
      PROVE  Notified(Dispatch(m.data)) = m.events
  <2>1. name \in DOMAIN SCP_GET
    BY ONLY <1>2, EventPathAssumption
  <2>2. NoChannel \in Octets
    BY ONLY DEF NoChannel, Octets
  <2>3. Asked(GetRequest(name, NoChannel))
    BY ONLY <2>1, <2>2, GetAsked
  <2>4. Shaped(Dispatch(m.data), m.events, m.data[1])
    BY ONLY <1>2, <2>3, AnswerShaped
  <2> QED
    BY ONLY <2>4, ShapedNotified
<1> QED
  BY ONLY <1>1, <1>2 DEF EventsAsReported

LEMMA TellInvCached == TellInv => AnnouncedIsCached
<1> SUFFICES ASSUME TellInv
             PROVE  AnnouncedIsCached
  OBVIOUS
<1>1. CASE announced \in {NoChannel, m_curr_channel}
  BY ONLY <1>1 DEF AnnouncedIsCached
<1>2. CASE announced \notin {NoChannel, m_curr_channel}
  <2>1. PICK E : due \in Seq(E) /\ program = Tells(due) /\ Announces(due, kind, m_curr_channel)
    BY ONLY TellInv, <1>2 DEF TellInv, TellOK, Underway, Known
  <2>2. due # <<>> /\ ~ Quiet(due[1], kind) /\ due[1].fields[1] = <<m_curr_channel>>
    BY ONLY <2>1 DEF Announces
  <2>3. program # <<>> /\ Head(program) = Tell(due[1])
    BY ONLY <2>1, <2>2, TellsHead
  <2>4. 1 \in DOMAIN due
    BY ONLY <2>1, <2>2
  <2>5. Head(program).event = due[1]
    BY ONLY <2>3, TellIs
  <2>6. due[1].type \in {"CHANNEL", "CHANNELINFO"}
    BY ONLY <2>2 DEF Quiet
  <2>7. Head(program) \in {Tell(due[k]) : k \in DOMAIN due}
    BY ONLY <2>3, <2>4
  <2>8. Head(program).event.type \in {"CHANNEL", "CHANNELINFO"}
    BY ONLY <2>5, <2>6
  <2>9. Head(program).event.fields[1] = <<m_curr_channel>>
    BY ONLY <2>2, <2>5
  <2> QED
    BY ONLY <2>3, <2>7, <2>8, <2>9 DEF AnnouncedIsCached
<1> QED
  BY ONLY <1>1, <1>2

\* What is left of Dispatch notifies CSirServer of exactly the events of the
\* message at hand that are left, each with what the radio said and in that
\* order; and so it will of the answer to any GET.
THEOREM ReportsAreTold == Spec => []EventsAsReported
<1>1. Init => TellInv
  BY TellInit
<1>2. TellInv /\ [Next]_vars => TellInv'
  BY TellNext
<1> QED
  BY <1>1, <1>2, TellInvReports, PTL DEF Spec

\* The channel that CSirCon keeps is the one that the clients were last told
\* of, if they were told of any, or they are being told of it now.
THEOREM ChannelIsCached == Spec => []AnnouncedIsCached
<1>1. Init => TellInv
  BY TellInit
<1>2. TellInv /\ [Next]_vars => TellInv'
  BY TellNext
<1> QED
  BY <1>1, <1>2, TellInvCached, PTL DEF Spec

-----------------------------------------------------------------------------
(* The transmit buffers, and the two threads that use them.                *)

TxP == INSTANCE SlideBufferProofs WITH m_size <- BufSize

-----------------------------------------------------------------------------
(* The transmit buffers, as SlideBufferProofs proves them.                 *)

\* The octets of lines, and what memory holds that was not written
Cells == Nat \X Nat

TxBuffers == Tx!Buffers(Cells)

LEMMA TxSize == BufSize \in Nat \ {0}
BY EventPathAssumption

LEMMA TxSame ==
    /\ \A b : Tx!TailRoom(b) = TxP!TailRoom(b) /\ Tx!MakeRoom(b) = TxP!MakeRoom(b)
              /\ Tx!GetWriteLen(b) = TxP!GetWriteLen(b) /\ Tx!Contents(b) = TxP!Contents(b)
    /\ \A b, n : Tx!MarkWritten(b, n) = TxP!MarkWritten(b, n) /\ Tx!MarkRead(b, n) = TxP!MarkRead(b, n)
    /\ \A b, data : Tx!Store(b, data) = TxP!Store(b, data)
    /\ TxBuffers = TxP!Buffers(Cells)
<1>1. \A b : Tx!Slide(b) = TxP!Slide(b) /\ Tx!TailRoom(b) = TxP!TailRoom(b)
  BY DEF Tx!Slide, TxP!Slide, Tx!TailRoom, TxP!TailRoom
<1>2. \A b : Tx!MakeRoom(b) = TxP!MakeRoom(b)
  BY <1>1 DEF Tx!MakeRoom, TxP!MakeRoom
<1>3. \A b : Tx!GetWriteLen(b) = TxP!GetWriteLen(b)
  BY <1>1, <1>2 DEF Tx!GetWriteLen, TxP!GetWriteLen
<1>4. \A b, n : Tx!MarkWritten(b, n) = TxP!MarkWritten(b, n)
  BY <1>2 DEF Tx!MarkWritten, TxP!MarkWritten
<1>5. \A b, n : Tx!MarkRead(b, n) = TxP!MarkRead(b, n)
  BY DEF Tx!MarkRead, TxP!MarkRead
<1>6. \A b, data : Tx!Store(b, data) = TxP!Store(b, data)
  BY DEF Tx!Store, TxP!Store
<1>7. \A b : Tx!Contents(b) = TxP!Contents(b)
  BY DEF Tx!Contents, TxP!Contents
<1>8. TxBuffers = TxP!Buffers(Cells)
  BY DEF TxBuffers, Tx!Buffers, TxP!Buffers
<1> QED
  BY <1>1, <1>2, <1>3, <1>4, <1>5, <1>6, <1>7, <1>8

LEMMA TxShape ==
    ASSUME NEW b \in TxBuffers
    PROVE  /\ b = [mem |-> b.mem, pos |-> b.pos, len |-> b.len]
           /\ b.mem \in [1 .. BufSize -> Cells] /\ b.pos \in Nat /\ b.len \in Nat
           /\ b.pos + b.len <= BufSize
BY TxSize DEF TxBuffers, Tx!Buffers

LEMMA TxMade ==
    ASSUME NEW mem \in [1 .. BufSize -> Cells], NEW p \in Nat, NEW l \in Nat, p + l <= BufSize
    PROVE  [mem |-> mem, pos |-> p, len |-> l] \in TxBuffers
BY TxSize DEF TxBuffers, Tx!Buffers

LEMMA TxContents ==
    ASSUME NEW b \in TxBuffers
    PROVE  /\ Tx!Contents(b) \in Seq(Cells) /\ Len(Tx!Contents(b)) = b.len
           /\ \A k \in 1 .. b.len : Tx!Contents(b)[k] = b.mem[b.pos + k]
<1>1. b \in TxP!Buffers(Cells) /\ Tx!Contents(b) = TxP!Contents(b)
  BY TxSame
<1> QED
  BY <1>1, TxSize, TxP!ContentsSeq

LEMMA TxMakeRoom ==
    ASSUME NEW b \in TxBuffers
    PROVE  /\ Tx!MakeRoom(b) \in TxBuffers /\ Tx!MakeRoom(b).len = b.len
           /\ Tx!Contents(Tx!MakeRoom(b)) = Tx!Contents(b)
<1>1. b \in TxP!Buffers(Cells)
  BY TxSame
<1>2. /\ TxP!MakeRoom(b) \in TxP!Buffers(Cells) /\ TxP!MakeRoom(b).len = b.len
      /\ TxP!Contents(TxP!MakeRoom(b)) = TxP!Contents(b)
  BY <1>1, TxSize, TxP!MakeRoomKeeps
<1> QED
  BY <1>2, TxSame

\* Wherever the octets are stored, the buffer remains one.
LEMMA TxStoreTyped ==
    ASSUME NEW b \in TxBuffers, NEW data \in Seq(Cells)
    PROVE  /\ Tx!Store(b, data) \in TxBuffers
           /\ Tx!Store(b, data).pos = b.pos /\ Tx!Store(b, data).len = b.len
<1> DEFINE f == [k \in 1 .. BufSize |->
                   IF k - b.pos - b.len \in DOMAIN data THEN data[k - b.pos - b.len] ELSE b.mem[k]]
<1>1. \A k \in DOMAIN data : data[k] \in Cells
  OBVIOUS
<1>2. f \in [1 .. BufSize -> Cells]
  BY <1>1, TxShape
<1>3. Tx!Store(b, data) = [mem |-> f, pos |-> b.pos, len |-> b.len]
  BY DEF Tx!Store
<1> HIDE DEF f
<1> QED
  BY <1>2, <1>3, TxShape, TxMade

LEMMA TxStore ==
    ASSUME NEW b \in TxBuffers, NEW data \in Seq(Cells), Len(data) <= Tx!TailRoom(b)
    PROVE  /\ \A k \in 1 .. b.len : Tx!Store(b, data).mem[b.pos + k] = b.mem[b.pos + k]
           /\ \A k \in 1 .. Len(data) : Tx!Store(b, data).mem[b.pos + b.len + k] = data[k]
<1>1. b \in TxP!Buffers(Cells) /\ Len(data) <= TxP!TailRoom(b)
  BY TxSame
<1>2. /\ \A k \in 1 .. b.len : TxP!Store(b, data).mem[b.pos + k] = b.mem[b.pos + k]
      /\ \A k \in 1 .. Len(data) : TxP!Store(b, data).mem[b.pos + b.len + k] = data[k]
  BY <1>1, TxSize, TxP!StoreKeeps
<1> QED
  BY <1>2, TxSame

\* MarkWritten where its assertion holds, ...
LEMMA TxMarkWrittenTyped ==
    ASSUME NEW b \in TxBuffers, NEW n \in Nat, n <= Tx!GetWriteLen(b)
    PROVE  Tx!MarkWritten(b, n) \in TxBuffers /\ Tx!MarkWritten(b, n).len = b.len + n
<1>1. PICK r \in TxBuffers : r = Tx!MakeRoom(b) /\ r.len = b.len
  BY TxMakeRoom
<1>2. n <= BufSize - r.pos - r.len
  BY <1>1 DEF Tx!GetWriteLen, Tx!TailRoom
<1>3. r.pos + (r.len + n) <= BufSize /\ r.len + n \in Nat
  BY <1>2, TxShape, TxSize
<1>4. Tx!MarkWritten(b, n) = [mem |-> r.mem, pos |-> r.pos, len |-> r.len + n]
  BY <1>1 DEF Tx!MarkWritten
<1> QED
  BY <1>1, <1>3, <1>4, TxShape, TxMade

\* ... and where there is room behind the data.
LEMMA TxMarkWritten ==
    ASSUME NEW b \in TxBuffers, NEW n \in Nat, n <= Tx!TailRoom(b)
    PROVE  LET w == Tx!MarkWritten(b, n)
           IN  /\ w \in TxBuffers /\ w.len = b.len + n
               /\ \A k \in 1 .. b.len + n : w.mem[w.pos + k] = b.mem[b.pos + k]
<1>1. b \in TxP!Buffers(Cells) /\ n <= TxP!TailRoom(b)
  BY TxSame
<1> DEFINE w == TxP!MarkWritten(b, n)
<1>2. /\ w \in TxP!Buffers(Cells) /\ w.len = b.len + n
      /\ \A k \in 1 .. b.len + n : w.mem[w.pos + k] = b.mem[b.pos + k]
  BY <1>1, TxSize, TxP!MarkWrittenKeeps
<1>3. w = Tx!MarkWritten(b, n) /\ TxP!Buffers(Cells) = TxBuffers
  BY TxSame
<1> HIDE DEF w
<1> QED
  BY <1>2, <1>3

LEMMA TxRoom ==
    ASSUME NEW b \in TxBuffers
    PROVE  /\ Tx!TailRoom(b) \in Nat /\ Tx!GetWriteLen(b) \in Nat
           /\ Tx!TailRoom(b) <= Tx!GetWriteLen(b)
<1>1. Tx!TailRoom(b) \in Nat
  BY TxShape, TxSize DEF Tx!TailRoom
<1>2. PICK r \in TxBuffers : r = Tx!MakeRoom(b)
  BY TxMakeRoom
<1>3. Tx!TailRoom(r) \in Nat
  BY TxShape, TxSize DEF Tx!TailRoom
<1>4. Tx!TailRoom(b) # 0 => r = b
  BY <1>2 DEF Tx!MakeRoom
<1> QED
  BY <1>1, <1>2, <1>3, <1>4 DEF Tx!GetWriteLen

LEMMA TxWrite ==
    ASSUME NEW b \in TxBuffers, NEW data \in Seq(Cells), Len(data) <= Tx!GetWriteLen(b)
    PROVE  LET w == Tx!MarkWritten(Tx!Store(Tx!MakeRoom(b), data), Len(data))
           IN  w \in TxBuffers /\ Tx!Contents(w) = Tx!Contents(b) \o data
<1> DEFINE w == TxP!MarkWritten(TxP!Store(TxP!MakeRoom(b), data), Len(data))
<1>1. b \in TxP!Buffers(Cells) /\ Len(data) <= TxP!GetWriteLen(b)
  BY TxSame
<1>2. w \in TxP!Buffers(Cells) /\ TxP!Contents(w) = TxP!Contents(b) \o data
  BY <1>1, TxSize, TxP!WriteContents
<1>3. w = Tx!MarkWritten(Tx!Store(Tx!MakeRoom(b), data), Len(data))
  BY TxSame
<1> HIDE DEF w
<1> QED
  BY <1>2, <1>3, TxSame

LEMMA TxRead ==
    ASSUME NEW b \in TxBuffers, NEW n \in 0 .. b.len
    PROVE  /\ Tx!MarkRead(b, n) \in TxBuffers
           /\ Tx!Contents(Tx!MarkRead(b, n)) = SubSeq(Tx!Contents(b), n + 1, b.len)
<1>1. b \in TxP!Buffers(Cells)
  BY TxSame
<1>2. /\ TxP!MarkRead(b, n) \in TxP!Buffers(Cells)
      /\ TxP!Contents(TxP!MarkRead(b, n)) = SubSeq(TxP!Contents(b), n + 1, b.len)
  BY <1>1, TxSize, TxP!MarkReadContents
<1> QED
  BY <1>2, TxSame

-----------------------------------------------------------------------------
(* The inductive invariant.                                                *)

Calls == {NoCall} \cup [client : Clients, data : Seq(Cells), at : {"reserve", "copy", "mark"}]

Typed ==
    /\ m_txbuf \in [Clients -> TxBuffers] /\ owed \in [Clients -> Seq(Cells)]
    /\ torn \subseteq Clients /\ raced \subseteq Clients /\ lines \in Nat
    /\ call \in [Threads -> Calls]
    /\ server \in [at : {"select", "pass"} \cup Visiting, client : Clients \cup {NoClient},
                   pos : Nat, n : Nat]

\* The server thread visits the clients one after the other: those behind the
\* one it is at are yet to visit.
PassAt(n) ==
    /\ todo = SubSeq(m_clients, n + 1, Len(m_clients))
    /\ server.at \in Visiting => n >= 1 /\ m_clients[n] = server.client

PassOK ==
    /\ m_clients \in Seq(Clients) /\ Distinct(m_clients)
    /\ m_controller = NoClient \/ Contains(m_clients, m_controller)
    /\ \E n \in 0 .. Len(m_clients) : PassAt(n)
    /\ server.at \notin Visiting => server.client = NoClient
    /\ call["server"] # NoCall => server.at = "visit" /\ call["server"].client = server.client

\* Between its steps, Send relies on what it found in the buffer, ...
SendHolds(t) ==
    LET b    == m_txbuf[call[t].client]
        data == call[t].data
    IN  /\ call[t].at \in {"copy", "mark"} => Len(data) <= Tx!TailRoom(b)
        /\ call[t].at = "mark" => \A k \in 1 .. Len(data) : b.mem[b.pos + b.len + k] = data[k]

\* ... and TransmitData on the pointer and the length that it took.
TransmitHolds ==
    LET b == m_txbuf[server.client]
    IN  /\ server.at \in {"send", "blocked"} => server.pos = b.pos /\ server.n = b.len
        /\ server.at = "sent" => server.n <= b.len

\* That is so for a client whose buffer is used by one thread at a time.
Sound(c) ==
    /\ Intact(c)
    /\ \A t \in Threads : call[t].client = c => SendHolds(t)
    /\ server.client = c => TransmitHolds

AllSound ==
    /\ \A c \in Clients \ raced : Sound(c)
    /\ aborted => raced # {}

IInv == Typed /\ PassOK /\ AllSound

LEMMA NoCallFacts ==
    /\ NoCall.client = NoClient /\ NoCall.at = "none" /\ NoClient \notin Clients
    /\ \A k \in Calls : k # NoCall =>
          /\ k.client \in Clients /\ k.data \in Seq(Cells) /\ k.at \in {"reserve", "copy", "mark"}
          /\ k = [client |-> k.client, data |-> k.data, at |-> k.at]
BY EventPathAssumption DEF NoCall, Calls

LEMMA LineTyped ==
    ASSUME lines \in Nat, NEW len \in Nat
    PROVE  Line(len) \in Seq(Cells) /\ Len(Line(len)) = len
<1>1. \A k \in 1 .. len : <<lines + 1, len - k>> \in Cells
  BY DEF Cells
<1>2. Line(len) \in [1 .. len -> Cells]
  BY <1>1 DEF Line
<1> QED
  BY <1>2

LEMMA PassedTyped ==
    ASSUME NEW data \in Seq(Cells)
    PROVE  Passed(data) \in Seq(Cells)
<1>1. TextSpace \in Nat \ {0} /\ Len(data) \in Nat
  BY EventPathAssumption
<1>2. Len(data) % TextSpace \in 0 .. Len(data)
  BY <1>1
<1> QED
  BY <1>2, PrefixFacts DEF Passed

LEMMA TextLengthsTyped ==
    ASSUME NEW type
    PROVE  TextLengths(type) \subseteq Nat
BY EventPathAssumption DEF TextLengths

LEMMA CallSendTyped ==
    ASSUME Typed, NEW t \in Threads, NEW c \in Clients, NEW len \in Nat, CallSend(t, c, len)
    PROVE  /\ lines' \in Nat /\ call' \in [Threads -> Calls]
           /\ call'[t].at = "reserve" /\ call'[t].client = c
           /\ \A u \in Threads \ {t} : call'[u] = call[u]
<1>1. lines' = lines + 1 /\ lines \in Nat
  BY DEF CallSend, Typed
<1>2. PICK k : k = [client |-> c, data |-> Line(len), at |-> "reserve"]
  OBVIOUS
<1>3. k \in Calls /\ k.at = "reserve" /\ k.client = c
  BY <1>1, <1>2, LineTyped DEF Calls
<1>4. call' = [call EXCEPT ![t] = k] /\ call \in [Threads -> Calls]
  BY <1>2 DEF CallSend, Typed
<1> QED
  BY <1>1, <1>3, <1>4

\* A client whose buffer, and what the threads know of it, nobody touched.
LEMMA Untouched ==
    ASSUME NEW c \in Clients, Sound(c),
           m_txbuf'[c] = m_txbuf[c], owed'[c] = owed[c], c \in torn' <=> c \in torn,
           \A t \in Threads :
              call'[t] = call[t] \/ call'[t].client # c \/ call'[t].at = "reserve",
           \/ server' = server
           \/ /\ server.at = "sent" => server.client # c
              /\ server'.at \in {"send", "blocked", "sent"} => server'.client # c
    PROVE  Sound(c)'
<1>1. (Intact(c))'
  <2>1. Intact(c)
    BY DEF Sound
  <2>2. CASE server' = server
    BY <2>1, <2>2 DEF Intact, Unsent
  <2>3. CASE /\ server.at = "sent" => server.client # c
             /\ server'.at \in {"send", "blocked", "sent"} => server'.client # c
    BY <2>1, <2>3 DEF Intact, Unsent
  <2> QED
    BY <2>2, <2>3
<1>2. ASSUME NEW t \in Threads, call'[t].client = c PROVE SendHolds(t)'
  <2>1. CASE call'[t] = call[t]
    <3>1. SendHolds(t)
      BY <1>2, <2>1 DEF Sound
    <3> QED
      BY <1>2, <2>1, <3>1 DEF SendHolds
  <2>2. CASE call'[t].at = "reserve"
    BY <2>2 DEF SendHolds
  <2> QED
    BY <1>2, <2>1, <2>2
<1>3. ASSUME server'.client = c PROVE TransmitHolds'
  <2>1. CASE server' = server
    <3>1. TransmitHolds
      BY <1>3, <2>1 DEF Sound
    <3> QED
      BY <1>3, <2>1, <3>1 DEF TransmitHolds
  <2>2. CASE server'.at \notin {"send", "blocked", "sent"}
    BY <2>2 DEF TransmitHolds
  <2> QED
    BY <1>3, <2>1, <2>2
<1> QED
  BY <1>1, <1>2, <1>3 DEF Sound

\* A step of a thread that leaves the buffers alone.
LEMMA BuffersAlone ==
    ASSUME IInv, UNCHANGED <<m_txbuf, owed, torn, aborted>>, raced \subseteq raced',
           \A t \in Threads : call'[t] = call[t] \/ call'[t] = NoCall \/ call'[t].at = "reserve",
           \/ server' = server
           \/ server.at # "sent" /\ server'.at \notin {"send", "blocked", "sent"}
    PROVE  AllSound'
<1>1. ASSUME NEW c \in Clients \ raced' PROVE Sound(c)'
  <2>1. c \in Clients /\ Sound(c)
    BY DEF IInv, AllSound
  <2>2. \A t \in Threads : call'[t] = call[t] \/ call'[t].client # c \/ call'[t].at = "reserve"
    BY NoCallFacts
  <2> QED
    BY <2>1, <2>2, Untouched
<1>2. aborted' => raced' # {}
  BY DEF IInv, AllSound
<1> QED
  BY <1>1, <1>2 DEF AllSound

\* What the server thread may do to stay in its pass: to stay where it is, to go
\* on with its client, or to leave it.
LEMMA PassKept ==
    ASSUME PassOK, UNCHANGED <<clientVars, todo>>,
           \/ server' = server
           \/ /\ server.at \in Visiting /\ server'.at \in Visiting
              /\ server'.client = server.client
           \/ server' = AtClient("pass", NoClient),
           \/ call'["server"] = NoCall
           \/ call'["server"] = call["server"] /\ server' = server
           \/ server'.at = "visit" /\ call'["server"].client = server'.client
    PROVE  PassOK'
<1>1. \A n : PassAt(n) => PassAt(n)'
  BY DEF PassAt, clientVars, AtClient, Visiting
<1>2. server'.at \notin Visiting => server'.client = NoClient
  BY DEF PassOK, AtClient
<1>3. call["server"] # NoCall => server.at = "visit" /\ call["server"].client = server.client
  BY DEF PassOK
<1>4. call'["server"] # NoCall => server'.at = "visit" /\ call'["server"].client = server'.client
  BY <1>3
<1> QED
  BY <1>1, <1>2, <1>4 DEF PassOK, clientVars

LEMMA ServerIdle ==
    ASSUME IInv, NEW at, ServerAt(at)
    PROVE  /\ server.at = at /\ call["server"] = NoCall
           /\ at \in Visiting => server.client \in Clients /\ Contains(m_clients, server.client)
<1>1. PICK n \in 0 .. Len(m_clients) : PassAt(n)
  BY DEF IInv, PassOK
<1>2. ASSUME at \in Visiting PROVE server.client \in Clients /\ Contains(m_clients, server.client)
  <2>1. n \in 1 .. Len(m_clients) /\ m_clients[n] = server.client
    BY <1>1, <1>2 DEF PassAt, ServerAt
  <2> QED
    BY <2>1 DEF IInv, PassOK, Contains
<1> QED
  BY <1>2 DEF ServerAt

LEMMA ReceiveStep == ASSUME IInv, Receive PROVE IInv'
<1>1. /\ UNCHANGED <<clientVars, bufVars, passVars, call, lines>>
  BY DEF Receive
<1> QED
  BY <1>1, BuffersAlone, PassKept DEF IInv, Typed, bufVars, passVars, clientVars

LEMMA StoreChannelStep == ASSUME IInv, StoreChannel PROVE IInv'
<1>1. /\ UNCHANGED <<clientVars, bufVars, passVars, call, lines>>
  BY DEF StoreChannel
<1> QED
  BY <1>1, BuffersAlone, PassKept DEF IInv, Typed, bufVars, passVars, clientVars

LEMMA NotifyControllerStep == ASSUME IInv, NotifyController PROVE IInv'
<1>1. UNCHANGED <<clientVars, passVars, bufVars>>
  BY DEF NotifyController, Notify
<1>2. CASE m_controller = NoClient
  <2>1. UNCHANGED <<call, lines>>
    BY <1>2 DEF NotifyController
  <2> QED
    BY <1>1, <2>1, BuffersAlone, PassKept DEF IInv, Typed, bufVars, passVars, clientVars
<1>3. CASE m_controller # NoClient
  <2>1. CallSend("radio", m_controller, ShortText)
    BY <1>3 DEF NotifyController
  <2>2. m_controller \in Clients /\ ShortText \in Nat
    BY <1>3, EventPathAssumption DEF IInv, PassOK, Contains
  <2>3. /\ lines' \in Nat /\ call' \in [Threads -> Calls]
        /\ call'["radio"].at = "reserve" /\ call'["server"] = call["server"]
    BY <2>1, <2>2, CallSendTyped DEF IInv, Threads
  <2>4. AllSound'
    BY <1>1, <2>3, BuffersAlone DEF bufVars, passVars, Threads
  <2>5. PassOK'
    BY <1>1, <2>3, PassKept DEF IInv, passVars, clientVars
  <2> QED
    BY <1>1, <2>3, <2>4, <2>5 DEF IInv, Typed, bufVars, passVars
<1> QED
  BY <1>2, <1>3

LEMMA OtherNotifyStep == ASSUME IInv, OnSCEReset \/ Unhandled PROVE IInv'
<1>1. UNCHANGED <<clientVars, passVars, bufVars, call, lines>>
  BY DEF OnSCEReset, Unhandled, Notify
<1> QED
  BY <1>1, BuffersAlone, PassKept DEF IInv, Typed, bufVars, passVars, clientVars

LEMMA BeginPassStep == ASSUME IInv, BeginPass PROVE IInv'
<1>1. /\ UNCHANGED <<clientVars, bufVars, call, lines>>
      /\ server' = AtClient("pass", NoClient) /\ todo' = m_clients
  BY DEF BeginPass
<1>2. server.at = "select" /\ call["server"] = NoCall
  BY DEF BeginPass, ServerAt
<1>3. AllSound'
  BY <1>1, <1>2, BuffersAlone DEF bufVars, AtClient
<1>4. PassAt(0)'
  <2>1. m_clients \in Seq(Clients)
    BY DEF IInv, PassOK
  <2>2. SubSeq(m_clients, 0 + 1, Len(m_clients)) = m_clients
    BY <2>1
  <2> QED
    BY <1>1, <2>2 DEF PassAt, clientVars, AtClient, Visiting
<1>5. 0 \in 0 .. Len(m_clients')
  BY <1>1 DEF IInv, PassOK, clientVars
<1>6. PassOK'
  BY <1>1, <1>2, <1>4, <1>5 DEF IInv, PassOK, clientVars, AtClient
<1> QED
  BY <1>1, <1>3, <1>6 DEF IInv, Typed, bufVars, AtClient

LEMMA VisitStep == ASSUME IInv, Visit PROVE IInv'
<1>1. /\ UNCHANGED <<clientVars, bufVars, call, lines>>
      /\ todo # <<>> /\ server' = AtClient("visit", Head(todo)) /\ todo' = Tail(todo)
  BY DEF Visit
<1>2. server.at = "pass" /\ call["server"] = NoCall
  BY DEF Visit, ServerAt
<1>3. AllSound'
  BY <1>1, <1>2, BuffersAlone DEF bufVars, AtClient
<1>4. PICK n \in 0 .. Len(m_clients) : todo = SubSeq(m_clients, n + 1, Len(m_clients))
  BY DEF IInv, PassOK, PassAt
<1>5. m_clients \in Seq(Clients) /\ n \in Nat /\ n + 1 \in 0 .. Len(m_clients) /\ n # Len(m_clients)
  BY <1>1, <1>4 DEF IInv, PassOK
<1>6. /\ Len(todo) = Len(m_clients) - n
      /\ \A k \in 1 .. Len(m_clients) - n : todo[k] = m_clients[n + k]
  BY <1>4, <1>5, SuffixFacts
<1>7. Head(todo) = m_clients[n + 1] /\ m_clients[n + 1] \in Clients
  BY <1>5, <1>6
<1>8. Tail(todo) = SubSeq(m_clients, (n + 1) + 1, Len(m_clients))
  <2>1. todo \in Seq(Clients) /\ 1 \in 0 .. Len(m_clients) - n
    BY <1>4, <1>5, SuffixFacts
  <2>2. Tail(todo) = SubSeq(todo, 2, Len(todo)) /\ 1 + 1 = 2
    BY <2>1
  <2>3. SubSeq(todo, 1 + 1, Len(m_clients) - n) = SubSeq(m_clients, (n + 1) + 1, Len(m_clients))
    BY <1>4, <1>5, <2>1, SuffixSuffix
  <2>4. Tail(todo) = SubSeq(todo, 1 + 1, Len(m_clients) - n)
    BY ONLY <1>6, <2>2, Zenon
  <2> QED
    BY <2>3, <2>4
<1>9. PassAt(n + 1)'
  BY <1>1, <1>5, <1>7, <1>8 DEF PassAt, clientVars, AtClient
<1>10. PassOK'
  BY <1>1, <1>2, <1>5, <1>9 DEF IInv, PassOK, clientVars, AtClient, Visiting
<1> QED
  BY <1>1, <1>3, <1>7, <1>10 DEF IInv, Typed, bufVars, AtClient, Visiting

LEMMA EndPassStep == ASSUME IInv, EndPass PROVE IInv'
<1>1. /\ UNCHANGED <<clientVars, bufVars, todo, call, lines>>
      /\ server' = AtClient("select", NoClient)
  BY DEF EndPass
<1>2. server.at = "pass" /\ call["server"] = NoCall
  BY DEF EndPass, ServerAt
<1>3. AllSound'
  BY <1>1, <1>2, BuffersAlone DEF bufVars, AtClient
<1>4. \A n : PassAt(n) => PassAt(n)'
  BY <1>1 DEF PassAt, clientVars, AtClient, Visiting
<1>5. PassOK'
  BY <1>1, <1>2, <1>4 DEF IInv, PassOK, clientVars, AtClient
<1> QED
  BY <1>1, <1>3, <1>5 DEF IInv, Typed, bufVars, AtClient

\* A line composed for the client the server thread is at
LEMMA CallSendStep ==
    ASSUME IInv, UNCHANGED <<clientVars, bufVars, todo>>, CallSend("server", server.client, ShortText),
           server.at \in {"visit", "future"}, server' = [server EXCEPT !.at = "visit"],
           server.client \in Clients
    PROVE  IInv'
<1>1. ShortText \in Nat
  BY EventPathAssumption
<1>2. /\ lines' \in Nat /\ call' \in [Threads -> Calls]
      /\ call'["server"].at = "reserve" /\ call'["server"].client = server.client
      /\ call'["radio"] = call["radio"]
  BY <1>1, CallSendTyped DEF IInv, Threads
<1>3. server'.at = "visit" /\ server'.client = server.client
      /\ server' \in [at : {"select", "pass"} \cup Visiting, client : Clients \cup {NoClient},
                      pos : Nat, n : Nat]
  BY DEF IInv, Typed, Visiting
<1>4. AllSound'
  BY <1>2, <1>3, BuffersAlone DEF bufVars, Threads
<1>5. PassOK'
  BY <1>2, <1>3, PassKept DEF IInv, Visiting
<1> QED
  BY <1>2, <1>3, <1>4, <1>5 DEF IInv, Typed, bufVars

LEMMA CommandStep == ASSUME IInv, NEW line \in Commands, Command(line) PROVE IInv'
<1>1. UNCHANGED <<clientVars, bufVars, todo>> /\ ServerAt("visit")
  BY DEF Command
<1>2. server.at = "visit" /\ call["server"] = NoCall /\ server.client \in Clients
  BY <1>1, ServerIdle DEF Visiting
<1>3. CASE server' = [server EXCEPT !.at = "future"] /\ UNCHANGED <<call, lines>>
  <2>1. server'.at = "future" /\ server'.client = server.client
        /\ server' \in [at : {"select", "pass"} \cup Visiting, client : Clients \cup {NoClient},
                        pos : Nat, n : Nat]
    BY <1>3 DEF IInv, Typed, Visiting
  <2>2. AllSound'
    BY <1>1, <1>2, <1>3, <2>1, BuffersAlone DEF bufVars
  <2>3. PassOK'
    BY <1>1, <1>2, <1>3, <2>1, PassKept DEF IInv, Visiting
  <2> QED
    BY <1>1, <1>3, <2>1, <2>2, <2>3 DEF IInv, Typed, bufVars
<1>4. CASE UNCHANGED server /\ CallSend("server", server.client, ShortText)
  <2>1. server' = [server EXCEPT !.at = "visit"]
    BY <1>2, <1>4 DEF IInv, Typed
  <2> QED
    BY <1>1, <1>2, <1>4, <2>1, CallSendStep
<1> QED
  BY <1>3, <1>4 DEF Command

LEMMA VerdictStep == ASSUME IInv, Verdict PROVE IInv'
<1>1. /\ UNCHANGED <<clientVars, bufVars, todo>> /\ ServerAt("future")
      /\ server' = [server EXCEPT !.at = "visit"] /\ CallSend("server", server.client, ShortText)
  BY DEF Verdict
<1>2. server.at = "future" /\ server.client \in Clients
  BY <1>1, ServerIdle DEF Visiting
<1> QED
  BY <1>1, <1>2, CallSendStep

LEMMA LeaveStep == ASSUME IInv, Leave PROVE IInv'
<1>1. /\ UNCHANGED <<clientVars, bufVars, todo, call, lines>>
      /\ server' = AtClient("pass", NoClient)
  BY DEF Leave
<1>2. server.at = "visit" /\ call["server"] = NoCall
  BY DEF Leave, ServerAt
<1>3. AllSound'
  BY <1>1, <1>2, BuffersAlone DEF bufVars, AtClient
<1>4. PassOK'
  BY <1>1, <1>2, PassKept DEF IInv
<1> QED
  BY <1>1, <1>3, <1>4 DEF IInv, Typed, bufVars, AtClient

\* The thread is alone in a buffer that it touches, or the buffer is raced from now on.
LEMMA Touched ==
    ASSUME Typed, NEW t \in Threads, NEW c \in Clients, Touch(t, c)
    PROVE  /\ raced \subseteq raced' /\ raced' \subseteq raced \cup {c}
           /\ c \notin raced' => \A u \in Threads \ {t} : ~ Inside(u, c)
BY DEF Touch, Typed

LEMMA ClientStopsStep == ASSUME IInv, ClientStops PROVE IInv'
<1>1. /\ UNCHANGED <<clientVars, bufVars, todo, call, lines>>
      /\ server' = [server EXCEPT !.at = "blocked"] /\ ServerAt("send")
  BY DEF ClientStops
<1>2. server.at = "send" /\ call["server"] = NoCall
  BY <1>1 DEF ServerAt
<1>3. /\ server'.at = "blocked" /\ server'.client = server.client
      /\ server'.pos = server.pos /\ server'.n = server.n
      /\ server' \in [at : {"select", "pass"} \cup Visiting, client : Clients \cup {NoClient},
                      pos : Nat, n : Nat]
  BY <1>1 DEF IInv, Typed, Visiting
<1>4. ASSUME NEW c \in Clients \ raced' PROVE Sound(c)'
  <2>1. Sound(c) /\ c \notin torn
    BY <1>1 DEF IInv, AllSound, bufVars, Sound, Intact
  <2>2. Intact(c)'
    BY <1>1, <1>2, <1>3, <2>1 DEF Sound, Intact, Unsent, bufVars
  <2>3. \A t \in Threads : call'[t].client = c => SendHolds(t)'
    BY <1>1, <2>1 DEF Sound, SendHolds, bufVars
  <2>4. server'.client = c => TransmitHolds'
    BY <1>1, <1>2, <1>3, <2>1 DEF Sound, TransmitHolds, bufVars
  <2> QED
    BY <2>2, <2>3, <2>4 DEF Sound
<1>5. PassOK'
  BY <1>1, <1>2, <1>3, PassKept DEF IInv, Visiting
<1> QED
  BY <1>1, <1>3, <1>4, <1>5 DEF IInv, Typed, bufVars, AllSound

LEMMA TransmitBeginStep == ASSUME IInv, TransmitBegin PROVE IInv'
<1>1. /\ UNCHANGED <<clientVars, m_txbuf, owed, torn, aborted, todo, call, lines>>
      /\ server' = [at |-> "send", client |-> server.client, pos |-> m_txbuf[server.client].pos,
                    n |-> m_txbuf[server.client].len]
      /\ ServerAt("visit") /\ Touch("server", server.client)
  BY DEF TransmitBegin
<1>2. server.at = "visit" /\ call["server"] = NoCall /\ server.client \in Clients
  BY <1>1, ServerIdle DEF Visiting
<1>3. raced \subseteq raced' /\ raced' \subseteq Clients
  BY <1>1, <1>2, Touched DEF IInv, Typed, Threads
<1>4. m_txbuf[server.client].pos \in Nat /\ m_txbuf[server.client].len \in Nat
  BY <1>2, TxShape DEF IInv, Typed
<1>5. ASSUME NEW c \in Clients \ raced' PROVE Sound(c)'
  <2>1. c \in Clients /\ Sound(c)
    BY <1>3 DEF IInv, AllSound
  <2>2. Intact(c)'
    BY <1>1, <1>2, <2>1 DEF Sound, Intact, Unsent
  <2>3. \A t \in Threads : call'[t].client = c => SendHolds(t)'
    BY <1>1, <2>1 DEF Sound, SendHolds
  <2>4. server'.client = c => TransmitHolds'
    BY <1>1 DEF TransmitHolds
  <2> QED
    BY <2>2, <2>3, <2>4 DEF Sound
<1>6. PassOK'
  BY <1>1, <1>2, PassKept DEF IInv, Visiting, clientVars
<1>7. AllSound'
  <2>1. aborted => raced # {}
    BY DEF IInv, AllSound
  <2> QED
    BY <1>1, <1>3, <1>5, <2>1 DEF AllSound
<1> QED
  BY <1>1, <1>2, <1>3, <1>4, <1>6, <1>7 DEF IInv, Typed, Visiting

-----------------------------------------------------------------------------
(* Steps that change a buffer.                                             *)

LEMMA MemoryKeeps ==
    ASSUME NEW t \in Threads, NEW c \in Clients, NEW b \in TxBuffers
    PROVE  LET m == [b EXCEPT !.mem = Memory(t, c, b)]
           IN  /\ m \in TxBuffers /\ m.pos = b.pos /\ m.len = b.len
               /\ Tx!Contents(m) = Tx!Contents(b)
<1> DEFINE mem == Memory(t, c, b)
           m   == [mem |-> mem, pos |-> b.pos, len |-> b.len]
<1>1. /\ b = [mem |-> b.mem, pos |-> b.pos, len |-> b.len]
      /\ b.mem \in [1 .. BufSize -> Cells] /\ b.pos \in Nat /\ b.len \in Nat
      /\ b.pos + b.len <= BufSize
  BY TxShape
<1>2. Junk \in Cells
  BY DEF Junk, Cells
<1>3. mem \in [1 .. BufSize -> Cells]
  BY <1>1, <1>2 DEF Memory
<1>4. \A k \in b.pos + 1 .. b.pos + b.len : k \in 1 .. BufSize /\ mem[k] = b.mem[k]
  <2>1. ASSUME NEW k \in b.pos + 1 .. b.pos + b.len PROVE k \in 1 .. BufSize
    BY <1>1, TxSize
  <2>2. ASSUME NEW k \in b.pos + 1 .. b.pos + b.len PROVE mem[k] = b.mem[k]
    BY <2>1 DEF Memory
  <2> QED
    BY <2>1, <2>2
<1> HIDE DEF mem
<1>5. m \in TxBuffers
  BY <1>1, <1>3, TxMade
<1>6. [b EXCEPT !.mem = mem] = m
  BY <1>1
<1>7. Tx!Contents(m) = Tx!Contents(b)
  <2>1. \A k \in 1 .. b.len : b.pos + k \in b.pos + 1 .. b.pos + b.len
    BY <1>1
  <2>2. \A k \in 1 .. b.len : m.mem[m.pos + k] = b.mem[b.pos + k]
    BY <1>4, <2>1
  <2> QED
    BY <2>2 DEF Tx!Contents
<1> QED
  BY <1>5, <1>6, <1>7 DEF mem

LEMMA BecomesFacts ==
    ASSUME Typed, NEW t \in Threads, NEW c \in Clients, NEW b \in TxBuffers, NEW o \in Seq(Cells),
           Becomes(t, c, b, o)
    PROVE  /\ m_txbuf' \in [Clients -> TxBuffers] /\ owed' \in [Clients -> Seq(Cells)]
           /\ torn' \subseteq Clients
           /\ \A d \in Clients \ {c} :
                m_txbuf'[d] = m_txbuf[d] /\ owed'[d] = owed[d] /\ (d \in torn' <=> d \in torn)
           /\ c \notin torn /\ Tx!Contents(b) = o =>
                /\ c \notin torn' /\ owed'[c] = o /\ Tx!Contents(m_txbuf'[c]) = o
<1> DEFINE lost == c \in torn \/ Tx!Contents(b) # o
           e == Tx!EmptyBuffer(Junk).mem
           m == [b EXCEPT !.mem = IF lost THEN e ELSE Memory(t, c, b)]
<1>1. e \in [1 .. BufSize -> Cells]
  BY DEF Tx!EmptyBuffer, Junk, Cells
<1>2. m \in TxBuffers /\ (~ lost => Tx!Contents(m) = Tx!Contents(b))
  <2>1. CASE lost
    <3>1. m = [mem |-> e, pos |-> b.pos, len |-> b.len]
      BY <2>1, TxShape
    <3> HIDE DEF m, e
    <3> QED
      BY <1>1, <2>1, <3>1, TxShape, TxMade
  <2>2. CASE ~ lost
    <3>1. m = [b EXCEPT !.mem = Memory(t, c, b)]
      BY <2>2
    <3> HIDE DEF m
    <3> QED
      BY <2>2, <3>1, MemoryKeeps
  <2> QED
    BY <2>1, <2>2
<1>3. /\ m_txbuf' = [m_txbuf EXCEPT ![c] = m]
      /\ owed' = [owed EXCEPT ![c] = IF lost THEN <<>> ELSE o]
      /\ torn' = IF lost THEN torn \cup {c} ELSE torn
  BY DEF Becomes
<1>4. m_txbuf \in [Clients -> TxBuffers] /\ owed \in [Clients -> Seq(Cells)] /\ torn \subseteq Clients
  BY DEF Typed
<1>5. (IF lost THEN <<>> ELSE o) \in Seq(Cells)
  OBVIOUS
<1> HIDE DEF m
<1>6. m_txbuf' \in [Clients -> TxBuffers] /\ m_txbuf'[c] = m
      /\ \A d \in Clients \ {c} : m_txbuf'[d] = m_txbuf[d]
  BY <1>2, <1>3, <1>4
<1>7. owed' \in [Clients -> Seq(Cells)] /\ (~ lost => owed'[c] = o)
      /\ \A d \in Clients \ {c} : owed'[d] = owed[d]
  BY <1>3, <1>4, <1>5
<1>8. torn' \subseteq Clients /\ (~ lost => torn' = torn)
      /\ \A d \in Clients \ {c} : d \in torn' <=> d \in torn
  BY <1>3, <1>4
<1> QED
  BY <1>2, <1>6, <1>7, <1>8

\* A step of one thread in one client's buffer: what it leaves of the others is
\* sound, and no other thread is in that buffer unless it is raced.
LEMMA OtherClients ==
    ASSUME IInv, NEW t \in Threads, NEW c \in Clients, Touch(t, c),
           \A d \in Clients \ {c} :
              m_txbuf'[d] = m_txbuf[d] /\ owed'[d] = owed[d] /\ (d \in torn' <=> d \in torn),
           \/ UNCHANGED server /\ call[t].client = c
              /\ (call'[t] = NoCall \/ call'[t].client = c)
              /\ \A u \in Threads \ {t} : call'[u] = call[u]
           \/ UNCHANGED call /\ server.client = c /\ (server'.client \in {c, NoClient})
    PROVE  /\ raced \subseteq raced' /\ raced' \subseteq Clients
           /\ \A d \in Clients \ (raced' \cup {c}) : Sound(d)'
           /\ c \notin raced' => Sound(c) /\ \A u \in Threads \ {t} : ~ Inside(u, c)
<1>1. /\ raced \subseteq raced' /\ raced' \subseteq raced \cup {c}
      /\ c \notin raced' => \A u \in Threads \ {t} : ~ Inside(u, c)
  BY Touched DEF IInv
<1>2. \A d \in Clients \ raced : Sound(d)
  BY DEF IInv, AllSound
<1>3. ASSUME NEW d \in Clients \ (raced' \cup {c}) PROVE Sound(d)'
  <2>1. d \in Clients /\ Sound(d) /\ d # c /\ d # NoClient
    BY <1>1, <1>2, NoCallFacts
  <2>2. \A u \in Threads : call'[u] = call[u] \/ call'[u].client # d \/ call'[u].at = "reserve"
    BY <2>1, NoCallFacts
  <2>3. \/ server' = server
        \/ /\ server.at = "sent" => server.client # d
           /\ server'.at \in {"send", "blocked", "sent"} => server'.client # d
    BY <2>1
  <2> QED
    BY <2>1, <2>2, <2>3, Untouched
<1> QED
  BY <1>1, <1>2, <1>3 DEF IInv, Typed

LEMMA SoundOutside ==
    ASSUME NEW c \in Clients, c \notin torn', Tx!Contents(m_txbuf'[c]) = owed'[c],
           server'.client = c => server'.at \notin {"send", "blocked", "sent"},
           \A u \in Threads : call'[u].client = c => SendHolds(u)'
    PROVE  Sound(c)'
<1>1. Intact(c)'
  BY DEF Intact, Unsent
<1>2. server'.client = c => TransmitHolds'
  BY DEF TransmitHolds
<1> QED
  BY <1>1, <1>2 DEF Sound

\* A thread inside Send: the client it is at, and what it knows if it is alone.
LEMMA InSend ==
    ASSUME IInv, NEW t \in Threads, call[t].at \in {"reserve", "copy", "mark"}
    PROVE  LET c == call[t].client
           IN  /\ c \in Clients /\ call[t] # NoCall /\ call[t].data \in Seq(Cells)
               /\ m_txbuf[c] \in TxBuffers /\ owed[c] \in Seq(Cells)
               /\ t = "server" => server.at = "visit"
               /\ Sound(c) /\ (\A u \in Threads \ {t} : ~ Inside(u, c)) =>
                    /\ c \notin torn /\ Tx!Contents(m_txbuf[c]) = owed[c] /\ SendHolds(t)
                    /\ server.client = c => server.at \notin {"send", "blocked", "sent"}
                    /\ \A u \in Threads \ {t} : call[u].client # c
<1>1. call[t] \in Calls /\ call[t] # NoCall
  BY NoCallFacts DEF IInv, Typed
<1>2. t = "server" => server.at = "visit"
  BY <1>1 DEF IInv, PassOK
<1>3. /\ call[t].client \in Clients /\ call[t].data \in Seq(Cells)
      /\ m_txbuf[call[t].client] \in TxBuffers /\ owed[call[t].client] \in Seq(Cells)
  BY <1>1, NoCallFacts DEF IInv, Typed
<1>4. ASSUME Sound(call[t].client), \A u \in Threads \ {t} : ~ Inside(u, call[t].client)
      PROVE  /\ call[t].client \notin torn
             /\ Tx!Contents(m_txbuf[call[t].client]) = owed[call[t].client] /\ SendHolds(t)
             /\ server.client = call[t].client => server.at \notin {"send", "blocked", "sent"}
             /\ \A u \in Threads \ {t} : call[u].client # call[t].client
  <2>1. server.client = call[t].client => server.at \notin {"send", "blocked", "sent"}
    BY <1>2, <1>4 DEF Inside, Threads
  <2>2. \A u \in Threads \ {t} : call[u].client # call[t].client
    BY <1>4 DEF Inside
  <2>3. SendHolds(t)
    BY <1>4 DEF Sound
  <2> QED
    BY <1>4, <2>1, <2>2, <2>3 DEF Sound, Intact, Unsent
<1> QED
  BY <1>1, <1>2, <1>3, <1>4

\* Send moves on, or returns.
LEMMA SendTyped ==
    ASSUME IInv, NEW t \in Threads, call[t].at \in {"reserve", "copy", "mark"},
           NEW at \in {"reserve", "copy", "mark"},
           call' = [call EXCEPT ![t].at = at] \/ call' = [call EXCEPT ![t] = NoCall],
           UNCHANGED <<clientVars, passVars>>
    PROVE  /\ call' \in [Threads -> Calls] /\ PassOK'
           /\ \A u \in Threads \ {t} : call'[u] = call[u]
           /\ \/ call' = [call EXCEPT ![t] = NoCall] /\ call'[t] = NoCall
              \/ /\ call'[t].at = at /\ call'[t].client = call[t].client
                 /\ call'[t].data = call[t].data
<1>1. call \in [Threads -> Calls]
  BY DEF IInv, Typed
<1>2. call[t] \in Calls /\ call[t] # NoCall
  BY <1>1, NoCallFacts
<1>3. PICK k : k = [client |-> call[t].client, data |-> call[t].data, at |-> at]
  OBVIOUS
<1>4. k \in Calls
  BY <1>2, <1>3, NoCallFacts DEF Calls
<1>5. NoCall \in Calls
  BY DEF Calls
<1>6. [call EXCEPT ![t].at = at] = [call EXCEPT ![t] = k]
  <2>1. call[t] = [client |-> call[t].client, data |-> call[t].data, at |-> call[t].at]
    BY <1>2, NoCallFacts
  <2>2. [call[t] EXCEPT !.at = at] = k
    BY <1>3, <2>1
  <2>3. [call EXCEPT ![t].at = at] = [call EXCEPT ![t] = [call[t] EXCEPT !.at = at]]
    BY <1>1
  <2> QED
    BY <2>2, <2>3
<1>7. /\ call' \in [Threads -> Calls] /\ (call'[t] = NoCall \/ call'[t] = k)
      /\ \A u \in Threads \ {t} : call'[u] = call[u]
  BY <1>1, <1>4, <1>5, <1>6
<1>8. PassOK'
  <2>1. call["server"] # NoCall => server.at = "visit" /\ call["server"].client = server.client
    BY DEF IInv, PassOK
  <2>2. \/ call'["server"] = NoCall
        \/ call'["server"] = call["server"]
        \/ server.at = "visit" /\ call'["server"].client = server.client
    BY <1>2, <1>3, <1>7, <2>1 DEF Threads
  <2> QED
    BY <2>2, PassKept DEF IInv, passVars
<1>9. CASE call' = [call EXCEPT ![t].at = at]
  <2>1. call'[t] = k
    BY <1>1, <1>6, <1>9
  <2> QED
    BY <1>3, <1>7, <1>8, <2>1
<1>10. CASE call' = [call EXCEPT ![t] = NoCall]
  <2>1. call'[t] = NoCall
    BY <1>1, <1>10
  <2> QED
    BY <1>7, <1>8, <1>10, <2>1
<1> QED
  BY <1>9, <1>10

LEMMA ReserveStep ==
    ASSUME IInv, NEW t \in Threads, Reserve(t), UNCHANGED <<clientVars, passVars, lines>>
    PROVE  IInv'
<1>c. PICK c : c = call[t].client
  OBVIOUS
<1>d. PICK data : data = call[t].data
  OBVIOUS
<1>1. /\ call[t].at = "reserve" /\ UNCHANGED <<owed, torn, aborted>> /\ Touch(t, c)
      /\ m_txbuf' = [m_txbuf EXCEPT ![c] = Tx!MakeRoom(@)]
      /\ call' = IF Fits(data, m_txbuf[c]) THEN [call EXCEPT ![t].at = "copy"]
                                          ELSE [call EXCEPT ![t] = NoCall]
  BY <1>c, <1>d DEF Reserve
<1>2. /\ c \in Clients /\ m_txbuf[c] \in TxBuffers
      /\ Sound(c) /\ (\A u \in Threads \ {t} : ~ Inside(u, c)) =>
            /\ c \notin torn /\ Tx!Contents(m_txbuf[c]) = owed[c]
            /\ server.client = c => server.at \notin {"send", "blocked", "sent"}
            /\ \A u \in Threads \ {t} : call[u].client # c
  BY <1>1, <1>c, InSend
<1>3. /\ call' \in [Threads -> Calls] /\ PassOK'
      /\ \A u \in Threads \ {t} : call'[u] = call[u]
      /\ \/ call' = [call EXCEPT ![t] = NoCall] /\ call'[t] = NoCall
         \/ call'[t].at = "copy" /\ call'[t].client = c /\ call'[t].data = data
  <2>1. call' = [call EXCEPT ![t].at = "copy"] \/ call' = [call EXCEPT ![t] = NoCall]
    BY <1>1
  <2> QED
    BY <1>1, <1>c, <1>d, <2>1, SendTyped
<1>4. /\ m_txbuf' \in [Clients -> TxBuffers] /\ m_txbuf'[c] = Tx!MakeRoom(m_txbuf[c])
      /\ Tx!Contents(m_txbuf'[c]) = Tx!Contents(m_txbuf[c])
      /\ \A d \in Clients \ {c} : m_txbuf'[d] = m_txbuf[d]
  <2>1. PICK r \in TxBuffers :
          r = Tx!MakeRoom(m_txbuf[c]) /\ Tx!Contents(r) = Tx!Contents(m_txbuf[c])
    BY <1>2, TxMakeRoom
  <2>2. m_txbuf' = [m_txbuf EXCEPT ![c] = r] /\ m_txbuf \in [Clients -> TxBuffers]
    BY <1>1, <2>1 DEF IInv, Typed
  <2> QED
    BY <1>2, <2>1, <2>2
<1>5. /\ raced \subseteq raced' /\ raced' \subseteq Clients
      /\ \A d \in Clients \ (raced' \cup {c}) : Sound(d)'
      /\ c \notin raced' => Sound(c) /\ \A u \in Threads \ {t} : ~ Inside(u, c)
  <2>1. UNCHANGED server
    BY DEF passVars
  <2> QED
    BY <1>1, <1>2, <1>3, <1>4, <1>c, <2>1, OtherClients
<1>6. ASSUME c \notin raced' PROVE Sound(c)'
  <2>1. \A u \in Threads : call'[u].client = c => SendHolds(u)'
    <3>1. SUFFICES ASSUME call'[t].client = c PROVE SendHolds(t)'
      BY <1>2, <1>3, <1>5, <1>6
    <3>2. call'[t].at = "copy" /\ call'[t].client = c /\ call'[t].data = data
      BY <1>2, <1>3, <3>1, NoCallFacts
    <3>3. Fits(data, m_txbuf[c])
      <4>1. CASE ~ Fits(data, m_txbuf[c])
        <5>1. call'[t] = NoCall
          BY <1>1, <4>1 DEF IInv, Typed
        <5> QED
          BY <3>2, <5>1, NoCallFacts
      <4> QED
        BY <4>1
    <3>4. Len(data) <= Tx!TailRoom(m_txbuf'[c])
      BY <1>4, <3>3 DEF Fits, Tx!GetWriteLen
    <3> QED
      BY <3>2, <3>4 DEF SendHolds
  <2> QED
    BY <1>1, <1>2, <1>4, <1>5, <1>6, <2>1, SoundOutside DEF passVars
<1>7. AllSound'
  <2>1. aborted => raced # {}
    BY DEF IInv, AllSound
  <2> QED
    BY <1>1, <1>5, <1>6, <2>1 DEF AllSound
<1> QED
  BY <1>1, <1>3, <1>4, <1>5, <1>7 DEF IInv, Typed, passVars

LEMMA CopyStep ==
    ASSUME IInv, NEW t \in Threads, Copy(t), UNCHANGED <<clientVars, passVars, lines>>
    PROVE  IInv'
<1>c. PICK c : c = call[t].client
  OBVIOUS
<1>d. PICK data : data = call[t].data
  OBVIOUS
<1>b. PICK b : b = m_txbuf[c]
  OBVIOUS
<1>1. /\ call[t].at = "copy" /\ UNCHANGED <<owed, torn, aborted>> /\ Touch(t, c)
      /\ m_txbuf' = [m_txbuf EXCEPT ![c] = Tx!Store(@, data)]
      /\ call' = [call EXCEPT ![t].at = "mark"]
  BY <1>c, <1>d DEF Copy
<1>2. /\ c \in Clients /\ b \in TxBuffers /\ data \in Seq(Cells)
      /\ Sound(c) /\ (\A u \in Threads \ {t} : ~ Inside(u, c)) =>
            /\ c \notin torn /\ Tx!Contents(b) = owed[c] /\ SendHolds(t)
            /\ server.client = c => server.at \notin {"send", "blocked", "sent"}
            /\ \A u \in Threads \ {t} : call[u].client # c
  BY <1>1, <1>b, <1>c, <1>d, InSend
<1>3. /\ call' \in [Threads -> Calls] /\ PassOK'
      /\ \A u \in Threads \ {t} : call'[u] = call[u]
      /\ call'[t].at = "mark" /\ call'[t].client = c /\ call'[t].data = data
  <2>1. /\ call' \in [Threads -> Calls] /\ PassOK'
        /\ \A u \in Threads \ {t} : call'[u] = call[u]
        /\ \/ call' = [call EXCEPT ![t] = NoCall] /\ call'[t] = NoCall
           \/ call'[t].at = "mark" /\ call'[t].client = c /\ call'[t].data = data
    BY <1>1, <1>c, <1>d, SendTyped
  <2>2. call'[t].at = "mark"
    <3>1. call \in [Threads -> Calls] /\ call[t] \in Calls /\ call[t] # NoCall
      BY <1>1, NoCallFacts DEF IInv, Typed
    <3>2. call[t] = [client |-> c, data |-> data, at |-> call[t].at]
      BY <1>c, <1>d, <3>1, NoCallFacts
    <3> QED
      BY <1>1, <3>1, <3>2
  <2> QED
    BY <2>1, <2>2, NoCallFacts
<1>4. PICK s \in TxBuffers : s = Tx!Store(b, data) /\ s.pos = b.pos /\ s.len = b.len
  BY <1>2, TxStoreTyped
<1>5. /\ m_txbuf' \in [Clients -> TxBuffers] /\ m_txbuf'[c] = s
      /\ \A d \in Clients \ {c} : m_txbuf'[d] = m_txbuf[d]
  <2>1. m_txbuf' = [m_txbuf EXCEPT ![c] = s] /\ m_txbuf \in [Clients -> TxBuffers]
    BY <1>1, <1>4, <1>b DEF IInv, Typed
  <2> QED
    BY <1>2, <2>1
<1>6. /\ raced \subseteq raced' /\ raced' \subseteq Clients
      /\ \A d \in Clients \ (raced' \cup {c}) : Sound(d)'
      /\ c \notin raced' => Sound(c) /\ \A u \in Threads \ {t} : ~ Inside(u, c)
  <2>1. UNCHANGED server
    BY DEF passVars
  <2> QED
    BY <1>1, <1>2, <1>3, <1>5, <1>c, <2>1, OtherClients
<1>7. ASSUME c \notin raced' PROVE Sound(c)'
  <2>1. Len(data) <= Tx!TailRoom(b)
    BY <1>1, <1>2, <1>6, <1>7, <1>b, <1>c, <1>d DEF SendHolds
  <2>2. /\ \A k \in 1 .. b.len : s.mem[b.pos + k] = b.mem[b.pos + k]
        /\ \A k \in 1 .. Len(data) : s.mem[b.pos + b.len + k] = data[k]
    BY <1>2, <1>4, <2>1, TxStore
  <2>3. Tx!Contents(s) = Tx!Contents(b)
    BY <1>4, <2>2 DEF Tx!Contents
  <2>4. SendHolds(t)'
    <3>1. Len(data) <= Tx!TailRoom(s)
      BY <1>4, <2>1 DEF Tx!TailRoom
    <3>2. \A k \in 1 .. Len(data) : s.mem[s.pos + s.len + k] = data[k]
      BY <1>4, <2>2
    <3> QED
      BY <1>3, <1>5, <3>1, <3>2 DEF SendHolds
  <2>5. \A u \in Threads : call'[u].client = c => SendHolds(u)'
    BY <1>2, <1>3, <1>6, <1>7, <2>4
  <2> QED
    BY <1>1, <1>2, <1>5, <1>6, <1>7, <2>3, <2>5, SoundOutside DEF passVars
<1>8. AllSound'
  <2>1. aborted => raced # {}
    BY DEF IInv, AllSound
  <2> QED
    BY <1>1, <1>6, <1>7, <2>1 DEF AllSound
<1> QED
  BY <1>1, <1>3, <1>5, <1>6, <1>8 DEF IInv, Typed, passVars

\* What Store left behind the data is what MarkWritten adds to it.
LEMMA MarkAdds ==
    ASSUME NEW b \in TxBuffers, NEW data \in Seq(Cells), Len(data) <= Tx!TailRoom(b),
           \A k \in 1 .. Len(data) : b.mem[b.pos + b.len + k] = data[k]
    PROVE  /\ Tx!MarkWritten(b, Len(data)) \in TxBuffers
           /\ Tx!Contents(Tx!MarkWritten(b, Len(data))) = Tx!Contents(b) \o data
<1>1. PICK n \in Nat : n = Len(data)
  OBVIOUS
<1>2. PICK w : w = Tx!MarkWritten(b, n)
  OBVIOUS
<1>3. /\ w \in TxBuffers /\ w.len = b.len + n
      /\ \A k \in 1 .. b.len + n : w.mem[w.pos + k] = b.mem[b.pos + k]
  BY <1>1, <1>2, TxMarkWritten
<1>4. PICK p : p = Tx!Contents(b)
  OBVIOUS
<1>5. PICK q : q = Tx!Contents(w)
  OBVIOUS
<1>6. p \in Seq(Cells) /\ Len(p) = b.len /\ \A k \in 1 .. b.len : p[k] = b.mem[b.pos + k]
  BY <1>4, TxContents
<1>7. q \in Seq(Cells) /\ Len(q) = b.len + n /\ \A k \in 1 .. b.len + n : q[k] = w.mem[w.pos + k]
  BY <1>3, <1>5, TxContents
<1>8. /\ p \o data \in Seq(Cells) /\ Len(p \o data) = b.len + n
      /\ \A k \in 1 .. b.len + n : (p \o data)[k] = IF k <= b.len THEN p[k] ELSE data[k - b.len]
  <2>1. /\ p \o data \in Seq(Cells) /\ Len(p \o data) = Len(p) + Len(data)
        /\ \A k \in 1 .. Len(p) + Len(data) :
             (p \o data)[k] = IF k <= Len(p) THEN p[k] ELSE data[k - Len(p)]
    BY <1>6, ConcatFacts
  <2> QED
    BY <1>1, <1>6, <2>1
<1>9. b.len \in Nat /\ b.pos \in Nat
  BY TxShape
<1>10. ASSUME NEW k \in 1 .. b.len + n PROVE q[k] = (p \o data)[k]
  <2>1. q[k] = b.mem[b.pos + k]
    BY <1>3, <1>7
  <2>2. CASE k <= b.len
    <3>1. k \in 1 .. b.len
      BY <1>9, <2>2
    <3> QED
      BY <1>6, <1>8, <2>1, <2>2, <3>1
  <2>3. CASE ~ (k <= b.len)
    <3>1. PICK j \in 1 .. n : j = k - b.len
      BY <1>9, <2>3
    <3>2. b.pos + b.len + j = b.pos + k
      BY <1>9, <3>1
    <3>3. b.mem[b.pos + b.len + j] = data[j]
      BY <1>1
    <3> QED
      BY <1>8, <2>1, <2>3, <3>1, <3>2, <3>3
  <2> QED
    BY <2>2, <2>3
<1>11. q = p \o data
  BY <1>7, <1>8, <1>10, SeqEqual
<1> QED
  BY <1>1, <1>2, <1>3, <1>4, <1>5, <1>11

LEMMA MarkStep ==
    ASSUME IInv, NEW t \in Threads, Mark(t), UNCHANGED <<clientVars, passVars, lines>>
    PROVE  IInv'
<1>c. PICK c : c = call[t].client
  OBVIOUS
<1>d. PICK data : data = call[t].data
  OBVIOUS
<1>b. PICK b : b = m_txbuf[c]
  OBVIOUS
<1>w. PICK w : w = Tx!MarkWritten(b, Len(data))
  OBVIOUS
<1>o. PICK o : o = owed[c] \o data
  OBVIOUS
<1>1. /\ call[t].at = "mark" /\ Touch(t, c) /\ call' = [call EXCEPT ![t] = NoCall]
      /\ aborted' = ~ Fits(data, b)
      /\ IF aborted' THEN UNCHANGED <<m_txbuf, owed, torn>> ELSE Becomes(t, c, w, o)
  BY <1>b, <1>c, <1>d, <1>o, <1>w DEF Mark
<1>2. /\ c \in Clients /\ b \in TxBuffers /\ data \in Seq(Cells) /\ owed[c] \in Seq(Cells)
      /\ Sound(c) /\ (\A u \in Threads \ {t} : ~ Inside(u, c)) =>
            /\ c \notin torn /\ Tx!Contents(b) = owed[c] /\ SendHolds(t)
            /\ server.client = c => server.at \notin {"send", "blocked", "sent"}
            /\ \A u \in Threads \ {t} : call[u].client # c
  BY <1>1, <1>b, <1>c, <1>d, InSend
<1>3. /\ call' \in [Threads -> Calls] /\ PassOK' /\ call'[t] = NoCall
      /\ \A u \in Threads \ {t} : call'[u] = call[u]
  <2>1. /\ call' \in [Threads -> Calls] /\ PassOK'
        /\ \A u \in Threads \ {t} : call'[u] = call[u]
    BY <1>1, SendTyped
  <2> QED
    BY <1>1, <2>1 DEF IInv, Typed
<1>4. Len(data) \in Nat /\ o \in Seq(Cells)
  BY <1>2, <1>o
<1>5. /\ m_txbuf' \in [Clients -> TxBuffers] /\ owed' \in [Clients -> Seq(Cells)]
      /\ torn' \subseteq Clients
      /\ \A d \in Clients \ {c} :
            m_txbuf'[d] = m_txbuf[d] /\ owed'[d] = owed[d] /\ (d \in torn' <=> d \in torn)
      /\ c \notin torn /\ Fits(data, b) /\ Tx!Contents(w) = o =>
            c \notin torn' /\ Tx!Contents(m_txbuf'[c]) = owed'[c]
  <2>1. CASE ~ Fits(data, b)
    BY <1>1, <2>1 DEF IInv, Typed
  <2>2. CASE Fits(data, b)
    <3>1. w \in TxBuffers
      BY <1>2, <1>4, <1>w, <2>2, TxMarkWrittenTyped DEF Fits
    <3>2. Becomes(t, c, w, o)
      BY <1>1, <2>2
    <3> QED
      BY <1>2, <1>4, <3>1, <3>2, BecomesFacts DEF IInv
  <2> QED
    BY <2>1, <2>2
<1>6. /\ raced \subseteq raced' /\ raced' \subseteq Clients
      /\ \A d \in Clients \ (raced' \cup {c}) : Sound(d)'
      /\ c \notin raced' => Sound(c) /\ \A u \in Threads \ {t} : ~ Inside(u, c)
  <2>1. UNCHANGED server
    BY DEF passVars
  <2> QED
    BY <1>1, <1>2, <1>3, <1>5, <1>c, <2>1, OtherClients
<1>7. ASSUME c \notin raced' PROVE Sound(c)' /\ Fits(data, b)
  <2>1. /\ Len(data) <= Tx!TailRoom(b)
        /\ \A k \in 1 .. Len(data) : b.mem[b.pos + b.len + k] = data[k]
    BY <1>1, <1>2, <1>6, <1>7, <1>b, <1>c, <1>d DEF SendHolds
  <2>2. Fits(data, b)
    BY <1>2, <1>4, <2>1, TxRoom DEF Fits
  <2>3. Tx!Contents(w) = o
    BY <1>2, <1>6, <1>7, <1>o, <1>w, <2>1, MarkAdds
  <2>4. \A u \in Threads : call'[u].client = c => SendHolds(u)'
    BY <1>2, <1>3, <1>6, <1>7, NoCallFacts
  <2> QED
    BY <1>2, <1>5, <1>6, <1>7, <2>2, <2>3, <2>4, SoundOutside DEF passVars
<1>8. AllSound'
  <2>1. ASSUME aborted' PROVE raced' # {}
    BY <1>1, <1>7, <2>1
  <2> QED
    BY <1>6, <1>7, <2>1 DEF AllSound
<1> QED
  BY <1>3, <1>5, <1>6, <1>8 DEF IInv, Typed, passVars

LEMMA SendStepKeeps == ASSUME IInv, NEW t \in Threads, SendStep(t) PROVE IInv'
<1>1. UNCHANGED <<clientVars, passVars, lines>> /\ (Reserve(t) \/ Copy(t) \/ Mark(t))
  BY DEF SendStep
<1> QED
  BY <1>1, ReserveStep, CopyStep, MarkStep

\* The server thread between two calls to its buffer
LEMMA InTransmit ==
    ASSUME IInv, server.at \in {"visit", "send", "blocked", "sent"}, call["server"] = NoCall
    PROVE  LET c == server.client
           IN  /\ c \in Clients /\ m_txbuf[c] \in TxBuffers /\ owed[c] \in Seq(Cells)
               /\ Sound(c) /\ (\A u \in Threads \ {"server"} : ~ Inside(u, c)) =>
                    /\ c \notin torn /\ Unsent(c) = owed[c] /\ TransmitHolds
                    /\ \A u \in Threads : call[u].client # c
<1>1. PICK n \in 0 .. Len(m_clients) : PassAt(n)
  BY DEF IInv, PassOK
<1>2. n \in 1 .. Len(m_clients) /\ m_clients[n] = server.client
  BY <1>1 DEF PassAt, Visiting
<1>3. server.client \in Clients
  BY <1>2 DEF IInv, PassOK
<1>4. m_txbuf[server.client] \in TxBuffers /\ owed[server.client] \in Seq(Cells)
  BY <1>3 DEF IInv, Typed
<1>5. ASSUME Sound(server.client), \A u \in Threads \ {"server"} : ~ Inside(u, server.client)
      PROVE  /\ server.client \notin torn /\ Unsent(server.client) = owed[server.client]
             /\ TransmitHolds /\ \A u \in Threads : call[u].client # server.client
  <2>1. \A u \in Threads : call[u].client # server.client
    BY <1>3, <1>5, NoCallFacts DEF Inside
  <2> QED
    BY <1>5, <2>1 DEF Sound, Intact
<1> QED
  BY <1>3, <1>4, <1>5

LEMMA SuffixTyped ==
    ASSUME NEW S, NEW s \in Seq(S), NEW n \in Nat
    PROVE  SubSeq(s, n + 1, Len(s)) \in Seq(S)
<1>1. CASE n <= Len(s)
  BY <1>1, SuffixFacts
<1>2. CASE ~ (n <= Len(s))
  <2>1. n + 1 > Len(s)
    BY <1>2
  <2>2. SubSeq(s, n + 1, Len(s)) = <<>>
    BY <2>1
  <2> QED
    BY <2>2
<1> QED
  BY <1>1, <1>2

\* What send() takes from the memory is the start of the data.
LEMMA SentIsPrefix ==
    ASSUME NEW b \in TxBuffers, NEW n \in 1 .. b.len
    PROVE  IsPrefix(SubSeq(b.mem, b.pos + 1, b.pos + n), Tx!Contents(b))
<1>1. PICK mem : mem = b.mem
  OBVIOUS
<1>2. PICK p \in Nat : p = b.pos
  BY TxShape
<1>3. PICK c : c = Tx!Contents(b)
  OBVIOUS
<1>4. /\ mem \in [1 .. BufSize -> Cells] /\ p + n <= BufSize /\ n \in Nat /\ b.len \in Nat
  BY <1>1, <1>2, TxShape, TxSize
<1>5. c \in Seq(Cells) /\ Len(c) = b.len /\ \A k \in 1 .. b.len : c[k] = mem[p + k]
  BY <1>1, <1>2, <1>3, TxContents
<1>6. PICK out : out = SubSeq(mem, p + 1, p + n)
  OBVIOUS
<1>7. out \in Seq(Cells) /\ Len(out) = n /\ \A k \in 1 .. n : out[k] = mem[p + k]
  <2>1. mem \in Seq(Cells) /\ Len(mem) = BufSize
    BY <1>4, TxSize
  <2>2. p + 1 \in 1 .. Len(mem) + 1 /\ p + n \in (p + 1) - 1 .. Len(mem)
    BY <1>4, <2>1, TxSize
  <2>3. /\ SubSeq(mem, p + 1, p + n) \in Seq(Cells)
        /\ Len(SubSeq(mem, p + 1, p + n)) =
              IF p + 1 <= p + n THEN (p + n) - (p + 1) + 1 ELSE 0
        /\ \A k \in 1 .. (p + n) - (p + 1) + 1 :
              SubSeq(mem, p + 1, p + n)[k] = mem[(p + 1) + k - 1]
    BY <2>1, <2>2, SubSeqProperties
  <2>4. (p + n) - (p + 1) + 1 = n /\ p + 1 <= p + n
    BY <1>4
  <2>5. \A k \in 1 .. n : (p + 1) + k - 1 = p + k
    OBVIOUS
  <2> QED
    BY <1>6, <2>3, <2>4, <2>5
<1>8. n \in 0 .. Len(out) /\ n \in 0 .. Len(c)
  BY <1>4, <1>5, <1>7
<1>9. SubSeq(out, 1, n) \in Seq(Cells) /\ Len(SubSeq(out, 1, n)) = n
      /\ \A k \in 1 .. n : SubSeq(out, 1, n)[k] = out[k]
  BY <1>7, <1>8, PrefixFacts
<1>10. SubSeq(c, 1, n) \in Seq(Cells) /\ Len(SubSeq(c, 1, n)) = n
       /\ \A k \in 1 .. n : SubSeq(c, 1, n)[k] = c[k]
  BY <1>5, <1>8, PrefixFacts
<1>11. \A k \in 1 .. n : SubSeq(out, 1, n)[k] = SubSeq(c, 1, n)[k]
  <2>1. \A k \in 1 .. n : k \in 1 .. b.len
    BY <1>4
  <2> QED
    BY <1>5, <1>7, <1>9, <1>10, <2>1, SMTT(20), ZenonT(40)
<1>12. SubSeq(out, 1, n) = SubSeq(c, 1, n)
  BY <1>9, <1>10, <1>11, SeqEqual
<1>13. IsPrefix(out, c)
  <2>1. Len(out) = n /\ Len(out) <= Len(c)
    BY <1>4, <1>5, <1>7
  <2> QED
    BY <1>12, <2>1 DEF IsPrefix
<1> QED
  BY <1>1, <1>2, <1>3, <1>6, <1>13

LEMMA TransmitSendStep == ASSUME IInv, TransmitSend PROVE IInv'
<1>c. PICK c : c = server.client
  OBVIOUS
<1>b. PICK b : b = m_txbuf[c]
  OBVIOUS
<1>1. /\ ServerAt("send") /\ Touch("server", c)
      /\ UNCHANGED <<clientVars, m_txbuf, aborted, todo, call, lines>>
  BY <1>c DEF TransmitSend
<1>2. PICK n \in 1 .. server.n :
        LET out == SubSeq(b.mem, server.pos + 1, server.pos + n)
        IN  /\ torn' = IF IsPrefix(out, owed[c]) THEN torn ELSE torn \cup {c}
            /\ owed' = [owed EXCEPT ![c] = IF IsPrefix(out, @) THEN SubSeq(@, n + 1, Len(@)) ELSE <<>>]
            /\ server' = [server EXCEPT !.at = "sent", !.n = n]
  BY <1>b, <1>c DEF TransmitSend
<1>3. server.at = "send" /\ call["server"] = NoCall
  BY <1>1 DEF ServerAt
<1>4. /\ c \in Clients /\ b \in TxBuffers /\ owed[c] \in Seq(Cells)
      /\ Sound(c) /\ (\A u \in Threads \ {"server"} : ~ Inside(u, c)) =>
            /\ c \notin torn /\ Unsent(c) = owed[c] /\ TransmitHolds
            /\ \A u \in Threads : call[u].client # c
  BY <1>3, <1>b, <1>c, InTransmit
<1>5. n \in Nat /\ server \in [at : {"select", "pass"} \cup Visiting, client : Clients \cup {NoClient},
                               pos : Nat, n : Nat]
  BY DEF IInv, Typed
<1>6. /\ server' \in [at : {"select", "pass"} \cup Visiting, client : Clients \cup {NoClient},
                      pos : Nat, n : Nat]
      /\ server'.at = "sent" /\ server'.n = n /\ server'.client = c
  BY <1>2, <1>5, <1>c DEF Visiting
<1>7. PICK out : out = SubSeq(b.mem, server.pos + 1, server.pos + n)
  OBVIOUS
<1>8. PICK o : o = IF IsPrefix(out, owed[c]) THEN SubSeq(owed[c], n + 1, Len(owed[c])) ELSE <<>>
  OBVIOUS
<1>9. o \in Seq(Cells)
  BY <1>4, <1>5, <1>8, SuffixTyped
<1>10. /\ owed' \in [Clients -> Seq(Cells)] /\ owed'[c] = o /\ torn' \subseteq Clients
       /\ torn' = IF IsPrefix(out, owed[c]) THEN torn ELSE torn \cup {c}
       /\ \A d \in Clients \ {c} : owed'[d] = owed[d] /\ (d \in torn' <=> d \in torn)
  <2>1. owed' = [owed EXCEPT ![c] = o] /\ owed \in [Clients -> Seq(Cells)] /\ torn \subseteq Clients
    BY <1>2, <1>7, <1>8 DEF IInv, Typed
  <2>2. torn' = IF IsPrefix(out, owed[c]) THEN torn ELSE torn \cup {c}
    BY <1>2, <1>7
  <2> QED
    BY <1>4, <1>9, <2>1, <2>2
<1>11. /\ raced \subseteq raced' /\ raced' \subseteq Clients
       /\ \A d \in Clients \ (raced' \cup {c}) : Sound(d)'
       /\ c \notin raced' => Sound(c) /\ \A u \in Threads \ {"server"} : ~ Inside(u, c)
  <2>1. UNCHANGED <<m_txbuf, call>> /\ "server" \in Threads
    BY <1>1 DEF Threads
  <2> QED
    BY <1>1, <1>4, <1>6, <1>10, <1>c, <2>1, OtherClients
<1>12. ASSUME c \notin raced' PROVE Sound(c)'
  <2>1. /\ c \notin torn /\ Tx!Contents(b) = owed[c] /\ server.pos = b.pos /\ server.n = b.len
        /\ \A u \in Threads : call[u].client # c
    BY <1>3, <1>4, <1>11, <1>12, <1>b, <1>c DEF Unsent, TransmitHolds
  <2>2. IsPrefix(out, owed[c])
    BY <1>4, <1>7, <2>1, SentIsPrefix
  <2>3. c \notin torn' /\ owed'[c] = SubSeq(Tx!Contents(b), n + 1, Len(Tx!Contents(b)))
    BY <1>8, <1>10, <2>1, <2>2
  <2>4. Intact(c)'
    <3>1. Tx!Contents(m_txbuf'[c]) = Tx!Contents(b)
      BY <1>1, <1>b
    <3> QED
      BY <1>6, <2>3, <3>1 DEF Intact, Unsent
  <2>5. TransmitHolds'
    <3>1. n <= b.len
      BY <1>4, <2>1, TxShape
    <3> QED
      BY <1>1, <1>6, <1>b, <3>1 DEF TransmitHolds
  <2> QED
    BY <1>1, <2>1, <2>4, <2>5 DEF Sound
<1>13. PassOK'
  BY <1>1, <1>3, <1>6, <1>c, PassKept DEF IInv, Visiting, clientVars
<1>14. AllSound'
  <2>1. aborted => raced # {}
    BY DEF IInv, AllSound
  <2> QED
    BY <1>1, <1>11, <1>12, <2>1 DEF AllSound
<1> QED
  BY <1>1, <1>6, <1>10, <1>11, <1>13, <1>14 DEF IInv, Typed

LEMMA TransmitMarkStep == ASSUME IInv, TransmitMark PROVE IInv'
<1>c. PICK c : c = server.client
  OBVIOUS
<1>b. PICK b : b = m_txbuf[c]
  OBVIOUS
<1>n. PICK n : n = server.n
  OBVIOUS
<1>w. PICK w : w = Tx!MarkRead(b, n)
  OBVIOUS
<1>o. PICK o : o = owed[c]
  OBVIOUS
<1>1. /\ ServerAt("sent") /\ Touch("server", c) /\ server' = AtClient("pass", NoClient)
      /\ UNCHANGED <<clientVars, todo, call, lines>>
      /\ aborted' = (n > b.len)
      /\ IF aborted' THEN UNCHANGED <<m_txbuf, owed, torn>> ELSE Becomes("server", c, w, o)
  BY <1>b, <1>c, <1>n, <1>o, <1>w DEF TransmitMark
<1>2. server.at = "sent" /\ call["server"] = NoCall
  BY <1>1 DEF ServerAt
<1>3. /\ c \in Clients /\ b \in TxBuffers /\ o \in Seq(Cells)
      /\ Sound(c) /\ (\A u \in Threads \ {"server"} : ~ Inside(u, c)) =>
            /\ c \notin torn /\ Unsent(c) = o /\ TransmitHolds
            /\ \A u \in Threads : call[u].client # c
  BY <1>2, <1>b, <1>c, <1>o, InTransmit
<1>4. n \in Nat /\ b.len \in Nat
  BY <1>3, <1>n, TxShape DEF IInv, Typed
<1>a. /\ ~ (n <= b.len) => UNCHANGED <<m_txbuf, owed, torn>>
      /\ n <= b.len => ~ aborted' /\ Becomes("server", c, w, o)
  <2>1. n > b.len => aborted'
    BY <1>1, Zenon
  <2>2. ~ (n > b.len) => ~ aborted'
    BY <1>1, Zenon
  <2> QED
    BY <1>1, <1>4, <2>1, <2>2
<1>5. /\ m_txbuf' \in [Clients -> TxBuffers] /\ owed' \in [Clients -> Seq(Cells)]
      /\ torn' \subseteq Clients
      /\ \A d \in Clients \ {c} :
            m_txbuf'[d] = m_txbuf[d] /\ owed'[d] = owed[d] /\ (d \in torn' <=> d \in torn)
      /\ c \notin torn /\ n <= b.len /\ Tx!Contents(w) = o =>
            c \notin torn' /\ Tx!Contents(m_txbuf'[c]) = owed'[c]
  <2>1. CASE ~ (n <= b.len)
    BY <1>a, <2>1 DEF IInv, Typed
  <2>2. CASE n <= b.len
    <3>1. w \in TxBuffers
      BY <1>3, <1>4, <1>w, <2>2, TxRead
    <3>2. Becomes("server", c, w, o) /\ "server" \in Threads
      BY <1>a, <2>2 DEF Threads
    <3> QED
      BY <1>3, <3>1, <3>2, BecomesFacts DEF IInv
  <2> QED
    BY <2>1, <2>2
<1>6. /\ raced \subseteq raced' /\ raced' \subseteq Clients
      /\ \A d \in Clients \ (raced' \cup {c}) : Sound(d)'
      /\ c \notin raced' => Sound(c) /\ \A u \in Threads \ {"server"} : ~ Inside(u, c)
  <2>1. UNCHANGED call /\ "server" \in Threads /\ server'.client = NoClient
    BY <1>1 DEF Threads, AtClient
  <2> QED
    BY <1>1, <1>3, <1>5, <1>c, <2>1, OtherClients
<1>7. ASSUME c \notin raced' PROVE Sound(c)' /\ n <= b.len
  <2>1. /\ c \notin torn /\ SubSeq(Tx!Contents(b), n + 1, Len(Tx!Contents(b))) = o /\ n <= b.len
        /\ \A u \in Threads : call[u].client # c
    BY <1>2, <1>3, <1>6, <1>7, <1>b, <1>c, <1>n DEF Unsent, TransmitHolds
  <2>2. Tx!Contents(w) = o
    <3>1. Len(Tx!Contents(b)) = b.len
      BY <1>3, TxContents
    <3>2. Tx!Contents(w) = SubSeq(Tx!Contents(b), n + 1, b.len)
      BY <1>3, <1>4, <1>w, <2>1, TxRead
    <3> QED
      BY <2>1, <3>1, <3>2
  <2>3. \A u \in Threads : call'[u].client = c => SendHolds(u)'
    BY <1>1, <2>1
  <2>4. server'.client = c => server'.at \notin {"send", "blocked", "sent"}
    BY <1>1 DEF AtClient
  <2> QED
    BY <1>3, <1>5, <2>1, <2>2, <2>3, <2>4, SoundOutside
<1>8. PassOK'
  BY <1>1, <1>2, PassKept DEF IInv, clientVars
<1>9. AllSound'
  <2>1. ASSUME aborted' PROVE raced' # {}
    BY <1>a, <1>7, <2>1
  <2> QED
    BY <1>6, <1>7, <2>1 DEF AllSound
<1> QED
  BY <1>1, <1>5, <1>6, <1>8, <1>9 DEF IInv, Typed, AtClient

LEMMA DropClientStep == ASSUME IInv, DropClient PROVE IInv'
<1>c. PICK c : c = server.client
  OBVIOUS
<1>b. PICK b : b = m_txbuf[c]
  OBVIOUS
<1>w. PICK w : w = Tx!MarkRead(b, b.len)
  OBVIOUS
<1>o. PICK o : o = <<>>
  OBVIOUS
<1>1. /\ ServerAt("visit") /\ Touch("server", c) /\ Becomes("server", c, w, o)
      /\ m_controller' = IF m_controller = c THEN NoClient ELSE m_controller
      /\ m_clients' = RemoveFirst(m_clients, c)
      /\ server' = AtClient("pass", NoClient)
      /\ UNCHANGED <<aborted, todo, call, lines>>
  BY <1>b, <1>c, <1>o, <1>w DEF DropClient
<1>2. server.at = "visit" /\ call["server"] = NoCall
  BY <1>1 DEF ServerAt
<1>3. /\ c \in Clients /\ b \in TxBuffers
      /\ Sound(c) /\ (\A u \in Threads \ {"server"} : ~ Inside(u, c)) =>
            c \notin torn /\ \A u \in Threads : call[u].client # c
  BY <1>2, <1>b, <1>c, InTransmit
<1>4. w \in TxBuffers /\ Tx!Contents(w) = o
  <2>1. b.len \in 0 .. b.len /\ b.len \in Nat
    BY <1>3, TxShape
  <2>2. w \in TxBuffers /\ Tx!Contents(w) = SubSeq(Tx!Contents(b), b.len + 1, b.len)
    BY <1>3, <1>w, <2>1, TxRead
  <2>3. Tx!Contents(b) \in Seq(Cells) /\ Len(Tx!Contents(b)) = b.len
    BY <1>3, TxContents
  <2>4. Len(SubSeq(Tx!Contents(b), b.len + 1, b.len)) = 0
        /\ SubSeq(Tx!Contents(b), b.len + 1, b.len) \in Seq(Cells)
    <3>1. Len(Tx!Contents(b)) - b.len = 0
      BY <2>1, <2>3
    <3> QED
      BY <2>1, <2>3, <3>1, SuffixFacts
  <2> QED
    BY <1>o, <2>2, <2>4
<1>5. /\ m_txbuf' \in [Clients -> TxBuffers] /\ owed' \in [Clients -> Seq(Cells)]
      /\ torn' \subseteq Clients
      /\ \A d \in Clients \ {c} :
            m_txbuf'[d] = m_txbuf[d] /\ owed'[d] = owed[d] /\ (d \in torn' <=> d \in torn)
      /\ c \notin torn => c \notin torn' /\ Tx!Contents(m_txbuf'[c]) = owed'[c]
  <2>1. "server" \in Threads /\ o \in Seq(Cells)
    BY <1>o DEF Threads
  <2> QED
    BY <1>1, <1>3, <1>4, <2>1, BecomesFacts DEF IInv
<1>6. /\ raced \subseteq raced' /\ raced' \subseteq Clients
      /\ \A d \in Clients \ (raced' \cup {c}) : Sound(d)'
      /\ c \notin raced' => Sound(c) /\ \A u \in Threads \ {"server"} : ~ Inside(u, c)
  <2>1. UNCHANGED call /\ "server" \in Threads /\ server'.client = NoClient
    BY <1>1 DEF Threads, AtClient
  <2> QED
    BY <1>1, <1>3, <1>5, <1>c, <2>1, OtherClients
<1>7. ASSUME c \notin raced' PROVE Sound(c)'
  <2>1. c \notin torn /\ \A u \in Threads : call[u].client # c
    BY <1>3, <1>6, <1>7
  <2>2. \A u \in Threads : call'[u].client = c => SendHolds(u)'
    BY <1>1, <2>1
  <2>3. server'.client = c => server'.at \notin {"send", "blocked", "sent"}
    BY <1>1 DEF AtClient
  <2> QED
    BY <1>3, <1>5, <2>1, <2>2, <2>3, SoundOutside
<1>8. AllSound'
  <2>1. aborted => raced # {}
    BY DEF IInv, AllSound
  <2> QED
    BY <1>1, <1>6, <1>7, <2>1 DEF AllSound
<1>9. PassOK'
  <2>1. PICK n \in 0 .. Len(m_clients) : PassAt(n)
    BY DEF IInv, PassOK
  <2>2. /\ m_clients \in Seq(Clients) /\ Distinct(m_clients) /\ n \in 1 .. Len(m_clients)
        /\ m_clients[n] = c /\ todo = SubSeq(m_clients, n + 1, Len(m_clients))
    <3>1. m_clients \in Seq(Clients) /\ Distinct(m_clients)
      BY DEF IInv, PassOK
    <3>2. n >= 1 /\ m_clients[n] = c /\ todo = SubSeq(m_clients, n + 1, Len(m_clients))
      BY <1>2, <1>c, <2>1 DEF PassAt, Visiting
    <3> QED
      BY <3>1, <3>2
  <2>3. /\ m_clients' \in Seq(Clients) /\ Distinct(m_clients')
        /\ \A d : Contains(m_clients', d) <=> Contains(m_clients, d) /\ d # c
    BY <1>1, <2>2, RemovedFacts
  <2>4. m_clients' = RemoveAt(m_clients, n)
    <3>1. Contains(m_clients, c)
      BY <2>2 DEF Contains
    <3>2. \E k \in 1 .. Len(m_clients) : m_clients[k] = c /\ m_clients' = RemoveAt(m_clients, k)
      BY <1>1, <2>2, <3>1, RemoveFirstFacts
    <3> QED
      BY <2>2, <3>2 DEF Distinct
  <2>5. PICK cs \in Seq(Clients) : cs = m_clients'
    BY <2>3
  <2>6. /\ Len(cs) = Len(m_clients) - 1
        /\ \A j \in 1 .. Len(m_clients) - 1 :
              cs[j] = IF j < n THEN m_clients[j] ELSE m_clients[j + 1]
    BY <2>2, <2>4, <2>5, RemoveAtFacts
  <2>7. todo = SubSeq(cs, (n - 1) + 1, Len(cs)) /\ n - 1 \in 0 .. Len(cs)
    <3>1. n - 1 \in 0 .. Len(cs) /\ n \in 0 .. Len(m_clients) /\ Len(m_clients) \in Nat
      BY <2>2, <2>6
    <3>2. PICK s : s = SubSeq(cs, (n - 1) + 1, Len(cs))
      OBVIOUS
    <3>3. /\ s \in Seq(Clients) /\ Len(s) = Len(cs) - (n - 1)
          /\ \A k \in 1 .. Len(cs) - (n - 1) : s[k] = cs[(n - 1) + k]
      BY <3>1, <3>2, SuffixFacts
    <3>4. /\ todo \in Seq(Clients) /\ Len(todo) = Len(m_clients) - n
          /\ \A k \in 1 .. Len(m_clients) - n : todo[k] = m_clients[n + k]
      BY <2>2, <3>1, SuffixFacts
    <3>5. Len(cs) - (n - 1) = Len(m_clients) - n
      BY <2>2, <2>6
    <3>6. ASSUME NEW k \in 1 .. Len(m_clients) - n PROVE s[k] = todo[k]
      <4>1. /\ (n - 1) + k \in 1 .. Len(m_clients) - 1 /\ ~ ((n - 1) + k < n)
            /\ ((n - 1) + k) + 1 = n + k
        BY <2>2, <3>1
      <4> QED
        BY <2>6, <3>3, <3>4, <3>5, <4>1
    <3>7. s = todo
      BY <3>3, <3>4, <3>5, <3>6, SeqEqual
    <3> QED
      BY <3>1, <3>2, <3>7
  <2>8. PassAt(n - 1)' /\ n - 1 \in 0 .. Len(m_clients')
    BY <1>1, <2>5, <2>7 DEF PassAt, AtClient, Visiting
  <2>9. m_controller' = NoClient \/ Contains(m_clients', m_controller')
    BY <1>1, <2>3 DEF IInv, PassOK
  <2> QED
    BY <1>1, <1>2, <2>3, <2>8, <2>9 DEF PassOK, AtClient
<1> QED
  BY <1>1, <1>5, <1>6, <1>8, <1>9 DEF IInv, Typed, AtClient

LEMMA SentFacts ==
    ASSUME NEW b \in TxBuffers, NEW data \in Seq(Cells)
    PROVE  /\ Sent(data, b) \in TxBuffers
           /\ Fits(data, b) => Tx!Contents(Sent(data, b)) = Tx!Contents(b) \o data
           /\ ~ Fits(data, b) => Tx!Contents(Sent(data, b)) = Tx!Contents(b)
<1>1. CASE Fits(data, b)
  <2>1. Sent(data, b) = Tx!MarkWritten(Tx!Store(Tx!MakeRoom(b), data), Len(data))
    BY <1>1 DEF Sent
  <2> QED
    BY <1>1, <2>1, TxWrite DEF Fits
<1>2. CASE ~ Fits(data, b)
  <2>1. Sent(data, b) = Tx!MakeRoom(b)
    BY <1>2 DEF Sent
  <2> QED
    BY <1>2, <2>1, TxMakeRoom
<1> QED
  BY <1>1, <1>2

\* Broadcast finds no thread inside a buffer.
LEMMA BroadcastKeeps ==
    ASSUME IInv, NEW data \in Seq(Cells), Broadcast(data), RadioFree,
           UNCHANGED <<clientVars, passVars, torn, raced, aborted, call>>
    PROVE  /\ m_txbuf' \in [Clients -> TxBuffers] /\ owed' \in [Clients -> Seq(Cells)]
           /\ AllSound'
<1>1. server.at = "select" /\ server.client = NoClient
  BY DEF Broadcast, Locked, IInv, PassOK, Visiting
<1>2. call["server"] = NoCall /\ call["radio"] = NoCall
  BY <1>1 DEF RadioFree, IInv, PassOK
<1>3. \A c \in Clients : m_txbuf[c] \in TxBuffers /\ owed[c] \in Seq(Cells)
  BY DEF IInv, Typed
<1> DEFINE new(c) == [Sent(data, m_txbuf[c]) EXCEPT !.mem =
                        IF c \in torn THEN @ ELSE Memory("radio", c, Sent(data, m_txbuf[c]))]
           got == {c \in Range(m_clients) : Fits(data, m_txbuf[c])}
<1>4. ASSUME NEW c \in Clients
      PROVE  /\ new(c) \in TxBuffers
             /\ Tx!Contents(new(c)) = Tx!Contents(Sent(data, m_txbuf[c]))
  <2>1. PICK s \in TxBuffers : s = Sent(data, m_txbuf[c])
    BY <1>3, SentFacts
  <2>2. CASE c \in torn
    <3>1. new(c) = s
      BY <2>1, <2>2, TxShape
    <3> QED
      BY <2>1, <3>1
  <2>3. CASE c \notin torn
    <3>1. new(c) = [s EXCEPT !.mem = Memory("radio", c, s)]
      BY <2>1, <2>3
    <3>2. "radio" \in Threads
      BY DEF Threads
    <3> QED
      BY <2>1, <3>1, <3>2, MemoryKeeps
  <2> QED
    BY <2>2, <2>3
<1>5. /\ m_txbuf' = [c \in Clients |-> IF c \notin Range(m_clients) THEN m_txbuf[c] ELSE new(c)]
      /\ owed' = [c \in Clients |-> IF c \in got \ torn THEN owed[c] \o data ELSE owed[c]]
  BY DEF Broadcast
<1> HIDE DEF new
<1>6. m_txbuf' \in [Clients -> TxBuffers]
  BY <1>3, <1>4, <1>5
<1>7. owed' \in [Clients -> Seq(Cells)]
  <2>1. \A c \in Clients : owed[c] \o data \in Seq(Cells)
    BY <1>3, ConcatFacts
  <2> HIDE DEF got
  <2> QED
    BY <1>3, <1>5, <2>1
<1>8. ASSUME NEW c \in Clients \ raced' PROVE Sound(c)'
  <2>1. c \in Clients /\ Sound(c)
    BY DEF IInv, AllSound
  <2>2. c \notin torn /\ Tx!Contents(m_txbuf[c]) = owed[c]
    BY <1>1, <2>1 DEF Sound, Intact, Unsent
  <2>3. Tx!Contents(m_txbuf'[c]) = owed'[c]
    <3>1. CASE c \notin Range(m_clients)
      BY <1>5, <2>1, <2>2, <3>1
    <3>2. CASE c \in got
      <4>1. m_txbuf'[c] = new(c) /\ owed'[c] = owed[c] \o data /\ Fits(data, m_txbuf[c])
        BY <1>5, <2>1, <2>2, <3>2
      <4>2. Tx!Contents(Sent(data, m_txbuf[c])) = Tx!Contents(m_txbuf[c]) \o data
        BY <1>3, <2>1, <4>1, SentFacts
      <4> QED
        BY <1>4, <2>1, <2>2, <4>1, <4>2
    <3>3. CASE c \in Range(m_clients) /\ c \notin got
      <4>1. m_txbuf'[c] = new(c) /\ owed'[c] = owed[c] /\ ~ Fits(data, m_txbuf[c])
        BY <1>5, <2>1, <3>3
      <4>2. Tx!Contents(Sent(data, m_txbuf[c])) = Tx!Contents(m_txbuf[c])
        BY <1>3, <2>1, <4>1, SentFacts
      <4> QED
        BY <1>4, <2>1, <2>2, <4>1, <4>2
    <3> QED
      BY <3>1, <3>2, <3>3
  <2>4. \A u \in Threads : call'[u].client # c
    BY <1>2, <2>1, NoCallFacts DEF Threads
  <2>5. server'.client # c
    BY <1>1, <2>1, NoCallFacts DEF passVars
  <2> QED
    BY <2>1, <2>2, <2>3, <2>4, <2>5, SoundOutside
<1>9. aborted' => raced' # {}
  BY DEF IInv, AllSound
<1> QED
  BY <1>6, <1>7, <1>8, <1>9 DEF AllSound

LEMMA NotifyAllStep == ASSUME IInv, NotifyAll PROVE IInv'
<1>1. /\ UNCHANGED <<clientVars, passVars, torn, raced, aborted, call>> /\ RadioFree
      /\ lines' = lines + 1
  BY DEF NotifyAll, Notify
<1>2. PICK len \in TextLengths(Head(program).event.type) : Broadcast(Passed(Line(len)))
  BY DEF NotifyAll
<1>3. len \in Nat
  BY TextLengthsTyped
<1>4. Passed(Line(len)) \in Seq(Cells)
  BY <1>3, LineTyped, PassedTyped DEF IInv, Typed
<1>5. /\ m_txbuf' \in [Clients -> TxBuffers] /\ owed' \in [Clients -> Seq(Cells)]
      /\ AllSound'
  BY <1>1, <1>2, <1>4, BroadcastKeeps
<1>6. PassOK'
  BY <1>1, PassKept DEF IInv, passVars
<1> QED
  BY <1>1, <1>5, <1>6 DEF IInv, Typed, passVars

-----------------------------------------------------------------------------
(* The invariant holds.                                                    *)

LEMMA FirstClients ==
    ASSUME Init
    PROVE  m_clients \in Seq(Clients) /\ Distinct(m_clients)
<1>1. PICK n \in Nat : n = Cardinality(Clients) /\ ExistsBijection(1 .. n, Clients)
  BY EventPathAssumption, FS_CardinalityType
<1>2. \E f \in [1 .. n -> Clients] : IsInjective(f)
  <2>1. PICK f \in Bijection(1 .. n, Clients) : TRUE
    BY <1>1 DEF ExistsBijection
  <2> QED
    BY <2>1 DEF Bijection, Injection, IsInjective
<1>3. m_clients = CHOOSE f \in [1 .. n -> Clients] : IsInjective(f)
  BY <1>1 DEF Init, SetToSeq
<1>4. m_clients \in [1 .. n -> Clients] /\ IsInjective(m_clients)
  BY <1>2, <1>3
<1> QED
  BY <1>4 DEF IsInjective, Distinct

LEMMA InitInv == ASSUME Init PROVE IInv
<1>1. /\ m_controller = NoClient \/ m_controller \in Range(m_clients)
      /\ m_txbuf = [c \in Clients |-> Tx!EmptyBuffer(Junk)]
      /\ server = AtClient("select", NoClient) /\ todo = <<>>
      /\ call = [t \in Threads |-> NoCall] /\ lines = 0
      /\ owed = [c \in Clients |-> <<>>] /\ torn = {} /\ raced = {} /\ aborted = FALSE
  BY DEF Init
<1>2. m_clients \in Seq(Clients) /\ Distinct(m_clients)
  BY FirstClients
<1>3. PICK e : e = Tx!EmptyBuffer(Junk)
  OBVIOUS
<1>4. e \in TxBuffers /\ Tx!Contents(e) = <<>>
  <2>1. e = [mem |-> [k \in 1 .. BufSize |-> Junk], pos |-> 0, len |-> 0]
    BY <1>3 DEF Tx!EmptyBuffer
  <2>2. [k \in 1 .. BufSize |-> Junk] \in [1 .. BufSize -> Cells]
    BY DEF Junk, Cells
  <2>3. e \in TxBuffers /\ e.len = 0
    BY <2>1, <2>2, TxMade, TxSize
  <2>4. Tx!Contents(e) \in Seq(Cells) /\ Len(Tx!Contents(e)) = 0
    BY <2>3, TxContents
  <2> QED
    BY <2>3, <2>4
<1>5. Typed
  <2>1. m_txbuf \in [Clients -> TxBuffers]
    BY <1>1, <1>3, <1>4
  <2>2. NoCall \in Calls
    BY DEF Calls
  <2> QED
    BY <1>1, <2>1, <2>2 DEF Typed, AtClient
<1>6. PassOK
  <2>1. PassAt(Len(m_clients)) /\ Len(m_clients) \in 0 .. Len(m_clients)
    <3>1. Len(m_clients) \in Nat /\ Len(m_clients) \in 0 .. Len(m_clients)
      BY <1>2
    <3>2. SubSeq(m_clients, Len(m_clients) + 1, Len(m_clients)) = <<>>
      <4>1. Len(m_clients) - Len(m_clients) = 0
        BY <3>1
      <4>2. /\ SubSeq(m_clients, Len(m_clients) + 1, Len(m_clients)) \in Seq(Clients)
            /\ Len(SubSeq(m_clients, Len(m_clients) + 1, Len(m_clients))) = 0
        BY <1>2, <3>1, <4>1, SuffixFacts
      <4> QED
        BY <4>2
    <3> QED
      BY <1>1, <3>1, <3>2 DEF PassAt, AtClient, Visiting
  <2>2. m_controller = NoClient \/ Contains(m_clients, m_controller)
    BY <1>1, <1>2 DEF Range, Contains
  <2> QED
    BY <1>1, <1>2, <2>1, <2>2 DEF PassOK, AtClient, Threads
<1>7. AllSound
  <2>1. ASSUME NEW c \in Clients PROVE Sound(c)
    <3>1. Intact(c)
      BY <1>1, <1>3, <1>4 DEF Intact, Unsent, AtClient
    <3>2. \A t \in Threads : call[t].client # c
      BY <1>1, NoCallFacts
    <3>3. server.client # c
      BY <1>1, NoCallFacts DEF AtClient
    <3> QED
      BY <3>1, <3>2, <3>3 DEF Sound
  <2> QED
    BY <1>1, <2>1 DEF AllSound
<1> QED
  BY <1>5, <1>6, <1>7 DEF IInv

LEMMA StutterStep == ASSUME IInv, UNCHANGED vars PROVE IInv'
<1>1. UNCHANGED <<clientVars, bufVars, passVars, call, lines>>
  BY DEF vars
<1> QED
  BY <1>1, BuffersAlone, PassKept DEF IInv, Typed, bufVars, passVars, clientVars

LEMMA NextInv == IInv /\ [Next]_vars => IInv'
<1> SUFFICES ASSUME IInv, [Next]_vars PROVE IInv'
  OBVIOUS
<1>1. CASE UNCHANGED vars
  BY <1>1, StutterStep
<1>2. CASE Receive
  BY <1>2, ReceiveStep
<1>3. CASE RadioThread
  BY <1>3, StoreChannelStep, NotifyAllStep, NotifyControllerStep, OtherNotifyStep DEF RadioThread
<1>4. CASE \E t \in Threads : SendStep(t)
  BY <1>4, SendStepKeeps
<1>5. CASE ServerThread
  BY <1>5, BeginPassStep, VisitStep, EndPassStep, VerdictStep, TransmitBeginStep,
     TransmitSendStep, TransmitMarkStep, LeaveStep DEF ServerThread
<1>6. CASE \E line \in Commands : Command(line)
  BY <1>6, CommandStep
<1>7. CASE DropClient
  BY <1>7, DropClientStep
<1>8. CASE ClientStops
  BY <1>8, ClientStopsStep
<1> QED
  BY <1>1, <1>2, <1>3, <1>4, <1>5, <1>6, <1>7, <1>8 DEF Next

THEOREM Inductive == Spec => []IInv
<1>1. Init => IInv
  BY InitInv
<1> QED
  BY <1>1, NextInv, PTL DEF Spec

\* A client that stays connected and whose buffer was never used by both threads
\* at once is sent what Send and Broadcast accepted for it, whole and in order,
\* and no assertion of SOBuffer fails unless some buffer was.
THEOREM WholeUnlessRaced == Spec => []IntactUnlessRaced
<1>1. IInv => IntactUnlessRaced
  <2> SUFFICES ASSUME IInv PROVE IntactUnlessRaced
    OBVIOUS
  <2>1. Range(m_clients) \subseteq Clients
    BY DEF IInv, PassOK, Range
  <2> QED
    BY <2>1 DEF IInv, AllSound, Sound, IntactUnlessRaced
<1> QED
  BY <1>1, Inductive, PTL

-----------------------------------------------------------------------------
(* Types.                                                                  *)

\* The end of a sequence, as SequencesExt says it
LEMMA EndIsSuffix ==
    ASSUME NEW S, NEW s, s \in Seq(S), NEW n, n \in 0 .. Len(s), NEW t, t = SubSeq(s, n + 1, Len(s))
    PROVE  IsSuffix(t, s)
<1>1. t \in Seq(S) /\ Len(t) = Len(s) - n /\ \A k \in 1 .. Len(s) - n : t[k] = s[n + k]
  BY ONLY s \in Seq(S), n \in 0 .. Len(s), t = SubSeq(s, n + 1, Len(s)), SuffixFacts
<1>2. Len(s) \in Nat /\ Len(t) \in Nat /\ Len(t) <= Len(s)
  BY ONLY <1>1, s \in Seq(S), n \in 0 .. Len(s)
<1>3. PICK p, q : p = Reverse(t) /\ q = Reverse(s)
  OBVIOUS
<1>4. /\ p \in Seq(S) /\ Len(p) = Len(t)
      /\ \A k \in 1 .. Len(t) : p[k] = t[(Len(t) - k) + 1]
  <2>1. \A k \in 1 .. Len(t) : t[(Len(t) - k) + 1] \in S
    BY ONLY <1>1, <1>2
  <2>2. p = [k \in 1 .. Len(t) |-> t[(Len(t) - k) + 1]]
    BY ONLY <1>3 DEF Reverse
  <2> QED
    BY ONLY <1>2, <2>1, <2>2
<1>5. /\ q \in Seq(S) /\ Len(q) = Len(s)
      /\ \A k \in 1 .. Len(s) : q[k] = s[(Len(s) - k) + 1]
  <2>1. \A k \in 1 .. Len(s) : s[(Len(s) - k) + 1] \in S
    BY ONLY <1>2, s \in Seq(S)
  <2>2. q = [k \in 1 .. Len(s) |-> s[(Len(s) - k) + 1]]
    BY ONLY <1>3 DEF Reverse
  <2> QED
    BY ONLY <1>2, <2>1, <2>2
<1>6. ASSUME NEW k, k \in 1 .. Len(t) PROVE p[k] = q[k]
  <2>1. /\ (Len(t) - k) + 1 \in 1 .. Len(s) - n /\ k \in 1 .. Len(s)
        /\ n + ((Len(t) - k) + 1) = (Len(s) - k) + 1
    BY ONLY <1>1, <1>2, k \in 1 .. Len(t), n \in 0 .. Len(s)
  <2> QED
    BY ONLY <1>1, <1>4, <1>5, <2>1, k \in 1 .. Len(t)
<1>7. PICK a, b : a = SubSeq(p, 1, Len(p)) /\ b = SubSeq(q, 1, Len(p))
  OBVIOUS
<1>8. Len(p) \in 0 .. Len(p) /\ Len(p) \in 0 .. Len(q)
  BY ONLY <1>2, <1>4, <1>5
<1>9. a \in Seq(S) /\ Len(a) = Len(p) /\ \A k \in 1 .. Len(p) : a[k] = p[k]
  BY ONLY <1>4, <1>7, <1>8, PrefixFacts
<1>10. b \in Seq(S) /\ Len(b) = Len(p) /\ \A k \in 1 .. Len(p) : b[k] = q[k]
  BY ONLY <1>5, <1>7, <1>8, PrefixFacts
<1>11. \A k \in 1 .. Len(a) : a[k] = b[k]
  BY ONLY <1>4, <1>6, <1>9, <1>10
<1>12. Len(a) = Len(b)
  BY ONLY <1>9, <1>10
<1>13. a = b
  BY ONLY <1>9, <1>10, <1>11, <1>12, SeqEqual
<1> QED
  BY ONLY <1>2, <1>3, <1>4, <1>5, <1>7, <1>13 DEF IsSuffix, IsPrefix

LEMMA InvTypes == ASSUME IInv, m_curr_channel \in Octets PROVE TypeOK
<1>1. Typed /\ PassOK
  BY DEF IInv
<1>2. m_clients \in Seq(Clients) /\ Range(m_clients) = {m_clients[k] : k \in 1 .. Len(m_clients)}
  BY <1>1 DEF PassOK, Range
<1>3. IsInjective(m_clients)
  BY <1>1, <1>2 DEF PassOK, Distinct, IsInjective
<1>4. PICK n \in 0 .. Len(m_clients) : PassAt(n)
  BY <1>1 DEF PassOK
<1>5. IsSuffix(todo, m_clients)
  <2>1. todo = SubSeq(m_clients, n + 1, Len(m_clients))
    BY <1>4 DEF PassAt
  <2> QED
    BY ONLY <1>2, <2>1, n \in 0 .. Len(m_clients), EndIsSuffix
<1>6. \A c : Contains(m_clients, c) => c \in Range(m_clients)
  BY <1>2 DEF Contains
<1>7. m_controller \in Range(m_clients) \cup {NoClient}
  BY <1>1, <1>6 DEF PassOK
<1>8. \A c \in Clients : m_txbuf[c].pos + m_txbuf[c].len <= BufSize
  <2>1. \A c \in Clients : m_txbuf[c] \in TxBuffers
    BY <1>1 DEF Typed
  <2>2. \A b \in TxBuffers : b.pos + b.len <= BufSize
    BY DEF TxBuffers, Tx!Buffers
  <2> QED
    BY <2>1, <2>2
<1>9. server.at \in {"select", "pass"} \cup Visiting
  BY <1>1 DEF Typed
<1>10. server.at \in Visiting => server.client \in Range(m_clients)
  <2> SUFFICES ASSUME server.at \in Visiting PROVE server.client \in Range(m_clients)
    OBVIOUS
  <2>1. n >= 1 /\ m_clients[n] = server.client
    BY <1>4 DEF PassAt
  <2>2. n \in 1 .. Len(m_clients)
    BY <1>2, <2>1
  <2> QED
    BY <1>2, <2>1, <2>2
<1>11. server.at \notin Visiting => server.client = NoClient
  BY <1>1 DEF PassOK
<1>12. \A t \in Threads : call[t].at \in {"none", "reserve", "copy", "mark"}
  <2>1. \A t \in Threads : call[t] \in Calls
    BY <1>1 DEF Typed
  <2>2. \A k \in Calls : k.at \in {"none", "reserve", "copy", "mark"}
    BY NoCallFacts
  <2> QED
    BY <2>1, <2>2
<1>13. call["server"] # NoCall => server.at = "visit"
  BY <1>1 DEF PassOK
<1>14. m_curr_channel \in 0 .. 255
  BY DEF Octets
<1> QED
  BY <1>2, <1>3, <1>5, <1>7, <1>8, <1>9, <1>10, <1>11, <1>12, <1>13, <1>14 DEF TypeOK

\* The server thread goes through the clients it has, each once, with a call to
\* Send only while it visits one; the controller is one of them; no buffer holds
\* more than it has room for, and the channel is an octet.
THEOREM TypeCorrect == Spec => []TypeOK
<1>1. IInv /\ TellInv => TypeOK
  BY InvTypes DEF TellInv
<1>2. Init => TellInv
  BY TellInit
<1>3. TellInv /\ [Next]_vars => TellInv'
  BY TellNext
<1> QED
  BY <1>1, <1>2, <1>3, Inductive, PTL DEF Spec
=============================================================================
