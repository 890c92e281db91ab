------------------------- MODULE SidecarLoop_proofs -------------------------
(***************************************************************************)
(* Theorems about SidecarLoop, for every set of lines and of sessions,     *)
(* every order in which the lines are written and every cutting into       *)
(* chunks.                                                                 *)
(***************************************************************************)
EXTENDS SidecarLoop, SequenceTheorems, WellFoundedInduction, TLAPS

-----------------------------------------------------------------------------
(***************************************************************************)
(* The inductive invariant.                                                *)
(***************************************************************************)

\* Elixir writes a line once.
WrittenOnce == \A i, j \in DOMAIN written : written[i] = written[j] => i = j

\* A request that has been told something was dispatched.
ToldWasHandled == \A l \in RequestLines : told[l] # "unasked" => l \in ToSet(handled)

\* Until the loop breaks, no request follows a shutdown.
BreaksInTime ==
  /\ ~shuttingDown => \A i \in DOMAIN handled : Kind[handled[i]] # "shutdown"
  /\ loop \in {"starting", "reading"} =>
       \A i, j \in DOMAIN handled :
         Kind[handled[i]] = "shutdown" /\ i < j => handled[j] \notin RequestLines

\* main awaits a close() only after the loop.
ClosesAfterLoop == closing # Nil => loop \notin {"starting", "reading"}

\* A session.close of s is at its await.
BeingClosed(s) ==
  \E l \in RequestLines : Kind[l] = "session.close" /\ Target[l] = s /\ told[l] = "waiting"

WasCreated(s) ==
  \E l \in ToSet(handled) : Kind[l] = "session.create" /\ Target[l] = s

\* A query that runs is in the map, or somebody waits for its end; one that was told to end
\* is awaited.
SessionInv(s) ==
  /\ pump[s] = "none" => ~closed[s] /\ s \notin sessions
  /\ pump[s] # "none" => WasCreated(s)
  /\ s \in visited => closed[s]
  /\ Up /\ pump[s] = "running" => /\ s \in sessions \/ BeingClosed(s)
                                  /\ closed[s] => closing = s \/ BeingClosed(s)

IInv ==
  /\ TypeOK
  /\ WrittenOnce
  /\ FramesAreWhole
  /\ ToldWasHandled
  /\ BreaksInTime
  /\ OneRequestAfterShutdown
  /\ ExitIsClean
  /\ ClosesAfterLoop
  /\ \A s \in Sessions : SessionInv(s)

-----------------------------------------------------------------------------
(***************************************************************************)
(* FlattenSeq is a recursive function; what it returns is proved here by   *)
(* induction on the length of its argument.                                *)
(***************************************************************************)

\* Induction, for a set of numbers.
LEMMA SetInduction ==
  ASSUME NEW S, 0 \in S, \A n \in Nat : n \in S => n + 1 \in S
  PROVE  Nat \subseteq S
<1> DEFINE T == Nat \ S
<1> SUFFICES ASSUME T # {} PROVE FALSE
  OBVIOUS
<1>1. PICK x \in T : \A y \in T : ~ (<<y, x>> \in OpToRel(<, Nat))
  <2> HIDE DEF T
  <2>1. T \subseteq Nat
    BY DEF T
  <2> QED
    BY <2>1, NatLessThanWellFounded, WFMin
<1>2. \A y \in T : ~(y < x)
  BY <1>1 DEF OpToRel
<1>3. x - 1 \in Nat /\ x - 1 < x /\ (x - 1) + 1 = x
  OBVIOUS
<1> QED
  BY <1>2, <1>3

\* f[i] is the concatenation of the first i of seqs.
Joins(f, seqs, n) ==
  \A i \in 1 .. n : f[i] = IF i = 1 THEN seqs[i] ELSE f[i - 1] \o seqs[i]

\* There is one such function ...
LEMMA JoinsUnique ==
  ASSUME NEW f, NEW g, NEW s, NEW n \in Nat, Joins(f, s, n), Joins(g, s, n)
  PROVE  \A i \in 1 .. n : f[i] = g[i]
<1> DEFINE S == {m \in Nat : m \in 1 .. n => f[m] = g[m]}
<1>1. 0 \in S
  OBVIOUS
<1>2. ASSUME NEW m \in Nat, m \in S PROVE m + 1 \in S
  <2> SUFFICES ASSUME m + 1 \in 1 .. n PROVE f[m + 1] = g[m + 1]
    OBVIOUS
  <2>1. /\ f[m + 1] = IF m + 1 = 1 THEN s[m + 1] ELSE f[(m + 1) - 1] \o s[m + 1]
        /\ g[m + 1] = IF m + 1 = 1 THEN s[m + 1] ELSE g[(m + 1) - 1] \o s[m + 1]
    BY DEF Joins
  <2>2. (m + 1) - 1 = m /\ (m + 1 # 1 => m \in 1 .. n)
    OBVIOUS
  <2> QED
    BY <1>2, <2>1, <2>2
<1>3. Nat \subseteq S
  <2> HIDE DEF S
  <2> QED
    BY <1>1, <1>2, SetInduction
<1> QED
  BY <1>3

\* ... and it is what FlattenSeq computes.
LEMMA FlattenJoins ==
  ASSUME NEW M, NEW seqs \in Seq(Seq(M)), Len(seqs) # 0
  PROVE  \E f \in [1 .. Len(seqs) -> Seq(M)] :
           Joins(f, seqs, Len(seqs)) /\ FlattenSeq(seqs) = f[Len(seqs)]
<1> DEFINE N == Len(seqs)
           P(f) == f = [i \in 1 .. N |-> IF i = 1 THEN seqs[i] ELSE f[i - 1] \o seqs[i]]
           S == {n \in Nat : n <= N => \E f \in [1 .. n -> Seq(M)] : Joins(f, seqs, n)}
<1>1. N \in Nat /\ N # 0 /\ \A i \in 1 .. N : seqs[i] \in Seq(M)
  OBVIOUS
<1> HIDE DEF N
<1>2. 0 \in S
  <2> DEFINE f == [i \in 1 .. 0 |-> << >>]
  <2>1. 1 .. 0 = {}
    OBVIOUS
  <2>2. f \in [1 .. 0 -> Seq(M)]
    BY <2>1
  <2> HIDE DEF f
  <2>3. Joins(f, seqs, 0)
    BY <2>1 DEF Joins
  <2> QED
    BY <2>2, <2>3
<1>3. ASSUME NEW n \in Nat, n \in S PROVE n + 1 \in S
  <2> SUFFICES ASSUME n + 1 <= N
               PROVE  \E f \in [1 .. n + 1 -> Seq(M)] : Joins(f, seqs, n + 1)
    OBVIOUS
  <2>1. PICK f \in [1 .. n -> Seq(M)] : Joins(f, seqs, n)
    BY <1>1, <1>3
  <2> DEFINE last == IF n + 1 = 1 THEN seqs[n + 1] ELSE f[n] \o seqs[n + 1]
             g == [i \in 1 .. n + 1 |-> IF i = n + 1 THEN last ELSE f[i]]
  <2>2. last \in Seq(M)
    <3>1. n + 1 \in 1 .. N /\ (n + 1 # 1 => n \in 1 .. n)
      BY <1>1
    <3>2. seqs[n + 1] \in Seq(M)
      BY <1>1, <3>1
    <3>3. n + 1 # 1 => f[n] \in Seq(M)
      BY <2>1, <3>1
    <3> QED
      BY <3>2, <3>3
  <2> HIDE DEF last
  <2>3. g \in [1 .. n + 1 -> Seq(M)]
    BY <2>1, <2>2
  <2>4. ASSUME NEW i \in 1 .. n + 1
        PROVE  g[i] = IF i = 1 THEN seqs[i] ELSE g[i - 1] \o seqs[i]
    <3>1. CASE i = n + 1
      <4>1. i # 1 => i - 1 = n /\ n \in 1 .. n + 1 /\ n # n + 1
        BY <3>1
      <4>2. i # 1 => g[i - 1] = f[n]
        BY <4>1
      <4> QED
        BY <3>1, <4>2 DEF last
    <3>2. CASE i # n + 1
      <4>1. i \in 1 .. n /\ (i # 1 => i - 1 \in 1 .. n + 1 /\ i - 1 # n + 1)
        BY <3>2
      <4> QED
        BY <2>1, <3>2, <4>1 DEF Joins
    <3> QED
      BY <3>1, <3>2
  <2> HIDE DEF g
  <2> QED
    BY <2>3, <2>4 DEF Joins
<1>4. N \in S
  <2> HIDE DEF S
  <2> QED
    BY <1>1, <1>2, <1>3, SetInduction
<1>5. PICK f \in [1 .. N -> Seq(M)] : Joins(f, seqs, N)
  BY <1>1, <1>4
<1>6. P(f)
  BY <1>5 DEF Joins
<1>7. P(CHOOSE g : P(g))
  BY <1>6
<1>8. FlattenSeq(seqs) = (CHOOSE g : P(g))[N]
  BY <1>1 DEF FlattenSeq, N
<1> DEFINE h == CHOOSE g : P(g)
<1>9. Joins(h, seqs, N) /\ h = [i \in 1 .. N |-> IF i = 1 THEN seqs[i] ELSE h[i - 1] \o seqs[i]]
  BY <1>7 DEF Joins
<1> HIDE DEF h
<1>10. \A i \in 1 .. N : h[i] = f[i]
  <2>1. N \in Nat /\ Joins(h, seqs, N) /\ Joins(f, seqs, N)
    BY <1>1, <1>5, <1>9
  <2> QED
    BY ONLY <2>1, JoinsUnique, Zenon
<1>11. h[N] = f[N]
  BY <1>1, <1>10
<1> QED
  BY <1>5, <1>8, <1>11 DEF N, h

\* The text of every next sequence follows that of the ones before it ...
LEMMA FlattenAppend ==
  ASSUME NEW M, NEW seqs \in Seq(Seq(M)), NEW e \in Seq(M)
  PROVE  FlattenSeq(Append(seqs, e)) = FlattenSeq(seqs) \o e
<1> DEFINE s == Append(seqs, e)
           N == Len(seqs)
<1>1. /\ s \in Seq(Seq(M)) /\ N \in Nat /\ Len(s) = N + 1 /\ Len(s) # 0
      /\ \A i \in 1 .. N : s[i] = seqs[i]
      /\ s[N + 1] = e
  OBVIOUS
<1> HIDE DEF s, N
<1>2. PICK g \in [1 .. Len(s) -> Seq(M)] :
        Joins(g, s, Len(s)) /\ FlattenSeq(s) = g[Len(s)]
  BY <1>1, FlattenJoins
<1>3. g[N + 1] = IF N + 1 = 1 THEN e ELSE g[N] \o e
  <2>1. N + 1 \in 1 .. Len(s) /\ (N + 1) - 1 = N
    BY <1>1
  <2> QED
    BY <1>1, <1>2, <2>1 DEF Joins
<1>4. CASE N = 0
  <2>1. seqs = << >> /\ FlattenSeq(seqs) = seqs
    BY <1>4 DEF N, FlattenSeq
  <2>2. << >> \o e = e
    OBVIOUS
  <2> QED
    BY <1>1, <1>2, <1>3, <1>4, <2>1, <2>2 DEF s
<1>5. CASE N # 0
  <2>1. PICK f \in [1 .. N -> Seq(M)] : Joins(f, seqs, N) /\ FlattenSeq(seqs) = f[N]
    BY <1>5, FlattenJoins DEF N
  <2>2. Joins(g, seqs, N)
    <3> SUFFICES ASSUME NEW i \in 1 .. N
                 PROVE  g[i] = IF i = 1 THEN seqs[i] ELSE g[i - 1] \o seqs[i]
      BY DEF Joins
    <3>1. i \in 1 .. Len(s) /\ s[i] = seqs[i]
      BY <1>1
    <3> QED
      BY <1>2, <3>1 DEF Joins
  <2>3. f[N] = g[N]
    <3>1. \A i \in 1 .. N : f[i] = g[i]
      <4>1. N \in Nat /\ Joins(f, seqs, N) /\ Joins(g, seqs, N)
        BY <1>1, <2>1, <2>2
      <4> QED
        BY ONLY <4>1, JoinsUnique, Zenon
    <3> QED
      BY <1>1, <1>5, <3>1
  <2>4. N + 1 # 1
    BY <1>1, <1>5
  <2> QED
    BY <1>1, <1>2, <1>3, <2>1, <2>3, <2>4 DEF s
<1> QED
  BY <1>4, <1>5

\* Texts are joined in any grouping.
LEMMA Associates ==
  \A x, y, z \in Seq(Symbols) : (x \o y) \o z = x \o (y \o z)
<1> SUFFICES ASSUME NEW x \in Seq(Symbols), NEW y \in Seq(Symbols), NEW z \in Seq(Symbols)
             PROVE  (x \o y) \o z = x \o (y \o z)
  OBVIOUS
<1> QED
  BY ConcatAssociative

\* ... and begins with that of the first.
LEMMA FlattenCons ==
  ASSUME NEW M, NEW seqs \in Seq(Seq(M)), seqs # << >>
  PROVE  FlattenSeq(seqs) = Head(seqs) \o FlattenSeq(Tail(seqs))
<1> DEFINE t == Tail(seqs)
           N == Len(seqs)
           e == Head(seqs)
<1>1. /\ t \in Seq(Seq(M)) /\ N \in Nat \ {0} /\ Len(t) = N - 1
      /\ \A i \in 1 .. N : seqs[i] \in Seq(M)
      /\ \A i \in 1 .. N - 1 : t[i] = seqs[i + 1]
      /\ e = seqs[1]
  OBVIOUS
<1>2. PICK g \in [1 .. N -> Seq(M)] : Joins(g, seqs, N) /\ FlattenSeq(seqs) = g[N]
  BY <1>1, FlattenJoins
<1>3. N = 1 => FlattenSeq(t) = << >> /\ e \o << >> = e
  <2> SUFFICES ASSUME N = 1 PROVE FlattenSeq(t) = << >> /\ e \o << >> = e
    OBVIOUS
  <2>1. t = << >> /\ e \in Seq(M)
    <3>1. Len(t) = 0 /\ seqs[1] \in Seq(M)
      BY <1>1
    <3> HIDE DEF t, e
    <3> QED
      BY <1>1, <3>1
  <2> HIDE DEF t, e
  <2>2. Len(t) = 0 /\ e \o << >> = e
    BY <2>1
  <2> QED
    BY <2>1, <2>2 DEF FlattenSeq
<1> HIDE DEF t, N, e
<1>4. g[1] = e
  <2>1. 1 \in 1 .. N
    BY <1>1
  <2> QED
    BY <1>1, <1>2, <2>1 DEF Joins
<1>5. CASE N = 1
  BY <1>2, <1>3, <1>4, <1>5 DEF t, e
<1>6. CASE N # 1
  <2>1. Len(t) = N - 1 /\ N - 1 \in Nat /\ N - 1 # 0
    BY <1>1, <1>6
  <2>2. PICK f \in [1 .. N - 1 -> Seq(M)] : Joins(f, t, N - 1) /\ FlattenSeq(t) = f[N - 1]
    <3>1. t \in Seq(Seq(M)) /\ Len(t) # 0
      BY <1>1, <2>1
    <3>2. \E f \in [1 .. Len(t) -> Seq(M)] : Joins(f, t, Len(t)) /\ FlattenSeq(t) = f[Len(t)]
      BY ONLY <3>1, FlattenJoins
    <3> QED
      BY ONLY <2>1, <3>2, Zenon
  <2> DEFINE S == {n \in Nat : n \in 1 .. N - 1 => g[n + 1] = e \o f[n]}
  <2>3. 0 \in S
    OBVIOUS
  <2>4. ASSUME NEW n \in Nat, n \in S PROVE n + 1 \in S
    <3> SUFFICES ASSUME n + 1 \in 1 .. N - 1 PROVE g[(n + 1) + 1] = e \o f[n + 1]
      OBVIOUS
    <3>1. /\ n + 2 \in 1 .. N /\ n + 1 \in 1 .. N - 1 /\ n + 2 # 1 /\ (n + 2) - 1 = n + 1
          /\ (n + 1) - 1 = n /\ (n + 1) + 1 = n + 2
          /\ (n # 0 => n + 1 # 1 /\ n \in 1 .. N - 1)
      <4>1. N \in Nat /\ n \in Nat /\ n + 1 \in 1 .. N - 1
        BY <1>1
      <4> QED
        BY ONLY <4>1
    <3>2. g[n + 2] = g[n + 1] \o t[n + 1]
      <4>1. g[n + 2] = g[(n + 2) - 1] \o seqs[n + 2]
        BY <1>2, <3>1 DEF Joins
      <4>2. t[n + 1] = seqs[n + 2]
        <5>1. t[n + 1] = seqs[(n + 1) + 1]
          BY <1>1, <3>1
        <5> QED
          BY <3>1, <5>1
      <4> QED
        BY <3>1, <4>1, <4>2
    <3>3. f[n + 1] = IF n + 1 = 1 THEN t[n + 1] ELSE f[n] \o t[n + 1]
      BY <2>2, <3>1 DEF Joins
    <3>4. CASE n = 0
      <4>1. n + 1 = 1 /\ n + 2 = 2
        BY <3>4
      <4> QED
        BY <1>4, <3>1, <3>2, <3>3, <4>1
    <3>5. CASE n # 0
      <4>1. g[n + 1] = e \o f[n] /\ n + 1 # 1 /\ n \in 1 .. N - 1
        BY <2>4, <3>1, <3>5
      <4>2. e \in Seq(M) /\ f[n] \in Seq(M) /\ t[n + 1] \in Seq(M)
        <5>1. 1 \in 1 .. N /\ t[n + 1] = seqs[(n + 1) + 1]
          BY <1>1, <3>1
        <5> QED
          BY <1>1, <2>2, <3>1, <4>1, <5>1
      <4>3. (e \o f[n]) \o t[n + 1] = e \o (f[n] \o t[n + 1])
        <5>1. ASSUME NEW x \in Seq(M), NEW y \in Seq(M), NEW z \in Seq(M)
              PROVE  (x \o y) \o z = x \o (y \o z)
          BY ONLY <5>1, ConcatAssociative
        <5> QED
          BY ONLY <4>2, <5>1, Zenon
      <4> QED
        BY <3>1, <3>2, <3>3, <4>1, <4>3
    <3> QED
      BY <3>4, <3>5
  <2>5. N - 1 \in S
    <3> HIDE DEF S
    <3> QED
      BY <2>1, <2>3, <2>4, SetInduction
  <2>6. g[N] = e \o f[N - 1]
    <3>1. N - 1 \in 1 .. N - 1 /\ (N - 1) + 1 = N
      BY <1>1, <2>1
    <3> QED
      BY <2>5, <3>1
  <2> QED
    BY <1>2, <2>2, <2>6 DEF t, e
<1> QED
  BY <1>5, <1>6

-----------------------------------------------------------------------------
(***************************************************************************)
(* Framing.                                                                *)
(***************************************************************************)

Line(l) == Append(Text(l), Newline)

LEMMA LineShape ==
  ASSUME NEW l \in Lines
  PROVE  /\ Line(l) \in Seq(Symbols)
         /\ Text(l) = IF Kind[l] = "blank" THEN << >> ELSE <<l>>
         /\ Line(l) = IF Kind[l] = "blank" THEN <<Newline>> ELSE <<l, Newline>>
<1>1. l \in Symbols /\ Newline \in Symbols
  BY DEF Symbols
<1>2. /\ << >> \in Seq(Symbols) /\ <<l>> \in Seq(Symbols)
      /\ <<l, Newline>> \in Seq(Symbols) /\ <<Newline>> \in Seq(Symbols)
  BY <1>1
<1>3. Append(<<l>>, Newline) = <<l, Newline>>
  <2>1. /\ Append(<<l>>, Newline) \in Seq(Symbols)
        /\ Len(Append(<<l>>, Newline)) = 2
        /\ Append(<<l>>, Newline)[1] = l /\ Append(<<l>>, Newline)[2] = Newline
    BY <1>1, <1>2
  <2>2. Len(<<l, Newline>>) = 2 /\ <<l, Newline>>[1] = l /\ <<l, Newline>>[2] = Newline
    OBVIOUS
  <2>3. \A i \in 1 .. 2 : i = 1 \/ i = 2
    OBVIOUS
  <2> QED
    BY <1>2, <2>1, <2>2, <2>3, SeqEqual
<1>4. Append(<< >>, Newline) = <<Newline>>
  OBVIOUS
<1>5. Text(l) = IF Kind[l] = "blank" THEN << >> ELSE <<l>>
  BY DEF Text
<1> QED
  BY <1>2, <1>3, <1>4, <1>5 DEF Line

LEMMA EncodedIsFlat ==
  ASSUME NEW s \in Seq(Lines)
  PROVE  /\ [i \in 1 .. Len(s) |-> Line(s[i])] \in Seq(Seq(Symbols))
         /\ Encoded(s) = FlattenSeq([i \in 1 .. Len(s) |-> Line(s[i])])
<1>1. DOMAIN s = 1 .. Len(s) /\ Len(s) \in Nat /\ \A i \in 1 .. Len(s) : s[i] \in Lines
  OBVIOUS
<1>2. \A i \in 1 .. Len(s) : Line(s[i]) \in Seq(Symbols)
  BY <1>1, LineShape
<1>3. [i \in 1 .. Len(s) |-> Line(s[i])] \in Seq(Seq(Symbols))
  BY <1>1, <1>2
<1> QED
  BY <1>1, <1>3 DEF Encoded, Line

LEMMA EncodedType ==
  ASSUME NEW s \in Seq(Lines)
  PROVE  Encoded(s) \in Seq(Symbols) /\ Encoded(<< >>) = << >>
<1> DEFINE t == [i \in 1 .. Len(s) |-> Line(s[i])]
<1>1. t \in Seq(Seq(Symbols)) /\ Encoded(s) = FlattenSeq(t)
  BY EncodedIsFlat
<1>2. Encoded(<< >>) = << >>
  <2>1. << >> \in Seq(Lines)
    OBVIOUS
  <2>2. [i \in DOMAIN << >> |-> Append(Text(<< >>[i]), Newline)] = << >>
    OBVIOUS
  <2>3. Len(<< >>) = 0
    OBVIOUS
  <2> QED
    BY <2>2, <2>3 DEF Encoded, FlattenSeq
<1> HIDE DEF t
<1>3. CASE Len(t) = 0
  <2>1. t = << >>
    BY <1>1, <1>3
  <2> QED
    BY <1>1, <1>2, <1>3, <2>1 DEF FlattenSeq
<1>4. CASE Len(t) # 0
  <2>1. PICK f \in [1 .. Len(t) -> Seq(Symbols)] : FlattenSeq(t) = f[Len(t)]
    BY <1>1, <1>4, FlattenJoins
  <2>2. Len(t) \in 1 .. Len(t)
    BY <1>1, <1>4
  <2> QED
    BY <1>1, <1>2, <2>1, <2>2
<1> QED
  BY <1>3, <1>4

LEMMA EncodedAppend ==
  ASSUME NEW s \in Seq(Lines), NEW l \in Lines
  PROVE  Encoded(Append(s, l)) = Encoded(s) \o Line(l)
<1> DEFINE t == [i \in 1 .. Len(s) |-> Line(s[i])]
           u == [i \in 1 .. Len(Append(s, l)) |-> Line(Append(s, l)[i])]
<1>1. /\ t \in Seq(Seq(Symbols)) /\ Encoded(s) = FlattenSeq(t)
      /\ Encoded(Append(s, l)) = FlattenSeq(u)
      /\ u \in Seq(Seq(Symbols))
  <2>1. Append(s, l) \in Seq(Lines)
    OBVIOUS
  <2> QED
    BY <2>1, EncodedIsFlat
<1>2. u = Append(t, Line(l))
  <2>1. /\ Len(Append(s, l)) = Len(s) + 1 /\ Len(s) \in Nat
        /\ \A i \in 1 .. Len(s) : Append(s, l)[i] = s[i]
        /\ Append(s, l)[Len(s) + 1] = l
    OBVIOUS
  <2>2. Len(t) = Len(s)
    BY <2>1
  <2>3. Len(u) = Len(s) + 1
    BY <2>1
  <2>4. \A i \in 1 .. Len(s) + 1 : u[i] = Line(Append(s, l)[i])
    BY <2>1
  <2>5. \A i \in 1 .. Len(s) : t[i] = Line(s[i])
    BY <2>1
  <2>6. Line(l) \in Seq(Symbols)
    BY LineShape
  <2> HIDE DEF t, u
  <2>7. /\ Append(t, Line(l)) \in Seq(Seq(Symbols))
        /\ Len(Append(t, Line(l))) = Len(s) + 1
        /\ \A i \in 1 .. Len(s) : Append(t, Line(l))[i] = t[i]
        /\ Append(t, Line(l))[Len(s) + 1] = Line(l)
    BY <1>1, <2>2, <2>6
  <2>8. \A i \in 1 .. Len(u) : u[i] = Append(t, Line(l))[i]
    <3> TAKE i \in 1 .. Len(u)
    <3>1. i \in 1 .. Len(s) \/ i = Len(s) + 1
      BY <2>1, <2>3
    <3> QED
      BY <2>1, <2>3, <2>4, <2>5, <2>7, <3>1
  <2>9. Len(u) = Len(Append(t, Line(l)))
    BY <2>3, <2>7
  <2> QED
    BY <1>1, <2>7, <2>8, <2>9, SeqEqual
<1>3. Line(l) \in Seq(Symbols)
  BY LineShape
<1> HIDE DEF t, u
<1> QED
  BY <1>1, <1>2, <1>3, FlattenAppend

LEMMA EncodedCons ==
  ASSUME NEW s \in Seq(Lines), s # << >>
  PROVE  Encoded(s) = Line(Head(s)) \o Encoded(Tail(s))
<1> DEFINE t == [i \in 1 .. Len(s) |-> Line(s[i])]
           u == [i \in 1 .. Len(Tail(s)) |-> Line(Tail(s)[i])]
<1>1. /\ Tail(s) \in Seq(Lines) /\ Len(s) \in Nat \ {0} /\ Len(Tail(s)) = Len(s) - 1
      /\ \A i \in 1 .. Len(s) - 1 : Tail(s)[i] = s[i + 1]
      /\ Head(s) = s[1]
  OBVIOUS
<1>2. /\ t \in Seq(Seq(Symbols)) /\ Encoded(s) = FlattenSeq(t)
      /\ u \in Seq(Seq(Symbols)) /\ Encoded(Tail(s)) = FlattenSeq(u)
  BY <1>1, EncodedIsFlat
<1>3. /\ Len(t) = Len(s) /\ \A i \in 1 .. Len(s) : t[i] = Line(s[i])
      /\ Len(u) = Len(s) - 1 /\ \A i \in 1 .. Len(s) - 1 : u[i] = Line(Tail(s)[i])
  BY <1>1
<1> HIDE DEF t, u
<1>4. /\ t # << >> /\ Tail(t) \in Seq(Seq(Symbols)) /\ Len(Tail(t)) = Len(s) - 1
      /\ \A i \in 1 .. Len(s) - 1 : Tail(t)[i] = t[i + 1]
      /\ Head(t) = t[1]
  BY <1>1, <1>2, <1>3
<1>5. Head(t) = Line(Head(s))
  BY <1>1, <1>3, <1>4
<1>6. Tail(t) = u
  <2>1. \A i \in 1 .. Len(Tail(t)) : Tail(t)[i] = u[i]
    <3> TAKE i \in 1 .. Len(Tail(t))
    <3>1. i \in 1 .. Len(s) - 1 /\ i + 1 \in 1 .. Len(s)
      BY <1>1, <1>4
    <3>2. Tail(t)[i] = Line(s[i + 1]) /\ u[i] = Line(s[i + 1])
      BY <1>1, <1>3, <1>4, <3>1
    <3> QED
      BY <3>2
  <2>2. Len(Tail(t)) = Len(u)
    BY <1>3, <1>4
  <2> QED
    BY <1>2, <1>4, <2>1, <2>2, SeqEqual
<1> QED
  BY <1>2, <1>4, <1>5, <1>6, FlattenCons

LEMMA EncodedOne ==
  ASSUME NEW l \in Lines
  PROVE  Encoded(<<l>>) = Line(l)
<1>1. Append(<< >>, l) = <<l>> /\ << >> \in Seq(Lines)
  OBVIOUS
<1>2. << >> \o Line(l) = Line(l)
  BY LineShape, ConcatEmptySeq
<1> QED
  BY <1>1, <1>2, EncodedAppend, EncodedType

LEMMA ConcatAt ==
  \A s, t \in Seq(Symbols) :
    /\ s \o t \in Seq(Symbols) /\ Len(s \o t) = Len(s) + Len(t)
    /\ \A i \in 1 .. Len(s) : (s \o t)[i] = s[i]
    /\ \A i \in 1 .. Len(t) : (s \o t)[Len(s) + i] = t[i]
<1> QED
  OBVIOUS

LEMMA PrefixPointwise ==
  ASSUME NEW S, NEW s \in Seq(S), NEW t \in Seq(S)
  PROVE  IsPrefix(s, t) <=> Len(s) <= Len(t) /\ \A i \in 1 .. Len(s) : s[i] = t[i]
<1>1. CASE Len(s) <= Len(t)
  <2>1. /\ SubSeq(s, 1, Len(s)) \in Seq(S) /\ Len(SubSeq(s, 1, Len(s))) = Len(s)
        /\ \A i \in 1 .. Len(s) : SubSeq(s, 1, Len(s))[i] = s[i]
    OBVIOUS
  <2>2. /\ SubSeq(t, 1, Len(s)) \in Seq(S) /\ Len(SubSeq(t, 1, Len(s))) = Len(s)
        /\ \A i \in 1 .. Len(s) : SubSeq(t, 1, Len(s))[i] = t[i]
    BY <1>1
  <2> DEFINE x == SubSeq(s, 1, Len(s))
             y == SubSeq(t, 1, Len(s))
  <2> HIDE DEF x, y
  <2>3. x = y <=> \A i \in 1 .. Len(s) : s[i] = t[i]
    <3>1. ASSUME \A i \in 1 .. Len(s) : s[i] = t[i] PROVE x = y
      <4>1. x \in Seq(S) /\ y \in Seq(S) /\ Len(x) = Len(y)
            /\ \A i \in 1 .. Len(x) : x[i] = y[i]
        BY <2>1, <2>2, <3>1 DEF x, y
      <4> QED
        BY ONLY <4>1, SeqEqual
    <3>2. ASSUME x = y, NEW i \in 1 .. Len(s) PROVE s[i] = t[i]
      <4>1. x[i] = s[i] /\ y[i] = t[i]
        BY <2>1, <2>2 DEF x, y
      <4> QED
        BY <3>2, <4>1
    <3> QED
      BY <3>1, <3>2
  <2> QED
    BY <1>1, <2>3 DEF IsPrefix, x, y
<1>2. CASE ~(Len(s) <= Len(t))
  BY <1>2 DEF IsPrefix
<1> QED
  BY <1>1, <1>2

FirstNewline(b, e) ==
  e \in DOMAIN b /\ b[e] = Newline /\ \A j \in 1 .. e - 1 : b[j] # Newline

\* Of the flow b \o in the text of l has been taken, and R is yet to come.
LineTaken(l, b, in, e, R) ==
  /\ SubSeq(b, 1, e - 1) = Text(l)
  /\ IsPrefix(SubSeq(b, e + 1, Len(b)) \o in, R)
  /\ b \o in = Line(l) \o R => SubSeq(b, e + 1, Len(b)) \o in = R

\* The first newline of what has been read ends the first line that was sent.
LEMMA FirstLine ==
  ASSUME NEW l \in Lines, NEW b \in Seq(Symbols), NEW in \in Seq(Symbols),
         NEW R \in Seq(Symbols), NEW e, FirstNewline(b, e),
         IsPrefix(b \o in, Line(l) \o R)
  PROVE  LineTaken(l, b, in, e, R)
<1> DEFINE flow == b \o in
           all == Line(l) \o R
           rest == SubSeq(b, e + 1, Len(b))
           left == rest \o in
           head == SubSeq(b, 1, e - 1)
<1>1. /\ Line(l) \in Seq(Symbols)
      /\ Text(l) = IF Kind[l] = "blank" THEN << >> ELSE <<l>>
      /\ Line(l) = IF Kind[l] = "blank" THEN <<Newline>> ELSE <<l, Newline>>
  BY LineShape
<1>2. /\ Len(Line(l)) = IF Kind[l] = "blank" THEN 1 ELSE 2
      /\ Line(l)[Len(Line(l))] = Newline
      /\ Kind[l] # "blank" => Line(l)[1] = l
  BY <1>1
<1>3. /\ flow \in Seq(Symbols) /\ Len(flow) = Len(b) + Len(in)
      /\ \A i \in 1 .. Len(b) : flow[i] = b[i]
      /\ \A i \in 1 .. Len(in) : flow[Len(b) + i] = in[i]
  OBVIOUS
<1>4. /\ all \in Seq(Symbols) /\ Len(all) = Len(Line(l)) + Len(R)
      /\ \A i \in 1 .. Len(Line(l)) : all[i] = Line(l)[i]
      /\ \A i \in 1 .. Len(R) : all[Len(Line(l)) + i] = R[i]
  BY <1>1
<1>5. /\ Len(b) \in Nat /\ e \in 1 .. Len(b) /\ Len(in) \in Nat /\ Len(R) \in Nat
      /\ \A i \in 1 .. Len(b) : b[i] \in Symbols
      /\ b[e] = Newline /\ \A j \in 1 .. e - 1 : b[j] # Newline
  BY DEF FirstNewline
<1>6. /\ rest \in Seq(Symbols) /\ Len(rest) = Len(b) - e
      /\ \A i \in 1 .. Len(b) - e : rest[i] = b[e + i]
  BY <1>5
<1>7. /\ head \in Seq(Symbols) /\ Len(head) = e - 1
      /\ \A i \in 1 .. e - 1 : head[i] = b[i]
  BY <1>5
<1> HIDE DEF flow, all, rest, head
<1>8. /\ left \in Seq(Symbols) /\ Len(left) = (Len(b) - e) + Len(in)
      /\ \A i \in 1 .. Len(b) - e : left[i] = b[e + i]
      /\ \A i \in 1 .. Len(in) : left[(Len(b) - e) + i] = in[i]
  <2>1. /\ left \in Seq(Symbols) /\ Len(left) = Len(rest) + Len(in)
        /\ \A i \in 1 .. Len(rest) : left[i] = rest[i]
        /\ \A i \in 1 .. Len(in) : left[Len(rest) + i] = in[i]
    <3>1. rest \in Seq(Symbols) /\ in \in Seq(Symbols)
      BY <1>6
    <3> QED
      BY ONLY <3>1, ConcatAt, Zenon
  <2> HIDE DEF left
  <2> QED
    BY <1>6, <2>1
<1> HIDE DEF left
<1>9. Len(flow) <= Len(all) /\ \A i \in 1 .. Len(flow) : flow[i] = all[i]
  <2>1. flow \in Seq(Symbols) /\ all \in Seq(Symbols) /\ IsPrefix(flow, all)
    BY <1>3, <1>4 DEF flow, all
  <2>2. \A s, u \in Seq(Symbols) :
          IsPrefix(s, u) => Len(s) <= Len(u) /\ \A i \in 1 .. Len(s) : s[i] = u[i]
    BY PrefixPointwise
  <2> QED
    BY ONLY <2>1, <2>2, Zenon
<1>10. l # Newline /\ Newline = Nil
  BY SidecarLoopAssumption DEF Newline
<1>11. e = Len(Line(l)) /\ head = Text(l)
  <2>1. CASE Kind[l] = "blank"
    <3>1. 1 \in 1 .. Len(b) /\ 1 \in 1 .. Len(flow) /\ 1 \in 1 .. Len(Line(l))
      BY <1>2, <1>3, <1>5, <2>1
    <3>2. b[1] = Newline
      BY <1>2, <1>3, <1>4, <1>9, <2>1, <3>1
    <3>3. e = 1
      BY <1>5, <3>2
    <3>4. head = << >>
      BY <1>7, <3>3
    <3> QED
      BY <1>1, <1>2, <2>1, <3>3, <3>4
  <2>2. CASE Kind[l] # "blank"
    <3>1. 1 \in 1 .. Len(b) /\ 1 \in 1 .. Len(flow) /\ 1 \in 1 .. Len(Line(l))
      BY <1>2, <1>3, <1>5, <2>2
    <3>2. b[1] = l
      BY <1>2, <1>3, <1>4, <1>9, <2>2, <3>1
    <3>3. e # 1
      BY <1>5, <1>10, <3>2
    <3>4. 2 \in 1 .. Len(b) /\ 2 \in 1 .. Len(flow) /\ 2 \in 1 .. Len(Line(l))
      BY <1>2, <1>3, <1>5, <2>2, <3>3
    <3>5. b[2] = Newline
      BY <1>2, <1>3, <1>4, <1>9, <2>2, <3>4
    <3>6. e = 2
      BY <1>5, <3>3, <3>4, <3>5
    <3>7. head = <<l>>
      <4>1. Len(head) = 1 /\ head[1] = l /\ <<l>> \in Seq(Symbols)
        BY <1>7, <3>2, <3>6 DEF Symbols
      <4>2. Len(<<l>>) = 1 /\ <<l>>[1] = l /\ \A i \in 1 .. 1 : i = 1
        OBVIOUS
      <4> QED
        BY <1>7, <4>1, <4>2, SeqEqual
    <3> QED
      BY <1>1, <1>2, <2>2, <3>6, <3>7
  <2> QED
    BY <2>1, <2>2
<1>12. Len(left) = Len(flow) - e /\ Len(all) = e + Len(R)
  BY <1>3, <1>4, <1>5, <1>8, <1>11
<1>13. ASSUME NEW i \in 1 .. Len(left) PROVE left[i] = flow[e + i]
  <2>1. CASE i \in 1 .. Len(b) - e
    <3>1. e + i \in 1 .. Len(b)
      BY <1>5, <2>1
    <3> QED
      BY <1>3, <1>8, <2>1, <3>1
  <2>2. CASE i \notin 1 .. Len(b) - e
    <3>1. /\ i - (Len(b) - e) \in 1 .. Len(in)
          /\ (Len(b) - e) + (i - (Len(b) - e)) = i
          /\ Len(b) + (i - (Len(b) - e)) = e + i
      BY <1>5, <1>8, <2>2
    <3>2. left[i] = in[i - (Len(b) - e)] /\ flow[e + i] = in[i - (Len(b) - e)]
      BY <1>3, <1>8, <3>1
    <3> QED
      BY <3>2
  <2> QED
    BY <2>1, <2>2
<1>14. Len(left) <= Len(R) /\ Len(left) \in Nat
  BY <1>3, <1>5, <1>8, <1>9, <1>12
<1>15. ASSUME NEW i \in 1 .. Len(left) PROVE left[i] = R[i]
  <2>1. e + i \in 1 .. Len(flow) /\ i \in 1 .. Len(R)
    BY <1>5, <1>8, <1>12, <1>14, <1>3
  <2>2. flow[e + i] = all[e + i] /\ all[e + i] = R[i]
    BY <1>4, <1>9, <1>11, <2>1
  <2> QED
    BY <1>13, <2>2
<1>16. IsPrefix(left, R)
  BY <1>8, <1>14, <1>15, PrefixPointwise
<1>17. flow = all => left = R
  <2> SUFFICES ASSUME flow = all PROVE left = R
    OBVIOUS
  <2>1. Len(left) = Len(R)
    BY <1>5, <1>12
  <2> QED
    BY <1>8, <1>15, <2>1, SeqEqual
<1> QED
  BY <1>8, <1>11, <1>16, <1>17 DEF head, left, rest, flow, all, LineTaken

-----------------------------------------------------------------------------
(***************************************************************************)
(* FramesAreWhole in two parts: what the loop was given of the first k     *)
(* lines, and what is still under way of the others.                       *)
(***************************************************************************)

Distinct(s) == \A i, j \in DOMAIN s : s[i] = s[j] => i = j

GivenOf(k, given, lines) ==
  /\ ToSet(given) = {lines[p] : p \in {q \in 1 .. k : IsFrame(lines[q])}}
  /\ \A i, j \in DOMAIN given : i < j =>
       \A p \in 1 .. k : given[i] = lines[p] =>
         \A q \in 1 .. k : given[j] = lines[q] => p < q

UnderWay(k, flow, lines, cut) ==
  LET rest == Encoded(SubSeq(lines, k + 1, Len(lines)))
  IN  IsPrefix(flow, rest) /\ (~cut => flow = rest)

LEMMA TwoParts ==
  FramesAreWhole <=>
    \E k \in 0 .. Len(written) :
      GivenOf(k, handled, written) /\ UnderWay(k, buffer \o stdin, written, eof)
<1> QED
  BY DEF FramesAreWhole, GivenOf, UnderWay

LEMMA GiveNext ==
  ASSUME NEW w \in Seq(Lines), Distinct(w), NEW k \in 0 .. Len(w) - 1,
         NEW h \in Seq(Lines), GivenOf(k, h, w)
  PROVE  /\ w[k + 1] \in Lines
         /\ w[k + 1] \notin ToSet(h)
         /\ IsFrame(w[k + 1]) => GivenOf(k + 1, Append(h, w[k + 1]), w)
         /\ ~IsFrame(w[k + 1]) => GivenOf(k + 1, h, w)
<1> DEFINE l == w[k + 1]
           g == Append(h, l)
<1>1. /\ Len(w) \in Nat /\ DOMAIN w = 1 .. Len(w) /\ \A i \in 1 .. Len(w) : w[i] \in Lines
      /\ Len(h) \in Nat /\ DOMAIN h = 1 .. Len(h)
  OBVIOUS
<1>2. /\ k + 1 \in 1 .. Len(w) /\ k \in Nat
      /\ \A p \in 1 .. k : p \in 1 .. Len(w) /\ p \in 1 .. k + 1 /\ p # k + 1 /\ p < k + 1
      /\ \A p \in 1 .. k + 1 : p \in 1 .. k \/ p = k + 1
      /\ \A p \in 1 .. k + 1 : p \in 1 .. Len(w)
      /\ k + 1 \in 1 .. k + 1
  BY <1>1
<1>3. l \in Lines
  BY <1>1, <1>2
<1>4. \A p \in 1 .. k : w[p] # l
  BY <1>1, <1>2 DEF Distinct
<1>5. l \notin ToSet(h)
  BY <1>4 DEF GivenOf
<1>6. /\ DOMAIN g = 1 .. Len(h) + 1
      /\ \A i \in 1 .. Len(h) : g[i] = h[i]
      /\ g[Len(h) + 1] = l
      /\ \A i \in 1 .. Len(h) + 1 : i \in 1 .. Len(h) \/ i = Len(h) + 1
      /\ \A i \in 1 .. Len(h) : i \in 1 .. Len(h) + 1 /\ ~(Len(h) + 1 < i)
      /\ Len(h) + 1 \in 1 .. Len(h) + 1 /\ ~(Len(h) + 1 < Len(h) + 1)
  BY <1>1, <1>3
<1> HIDE DEF g
<1>7. ToSet(g) = ToSet(h) \cup {l}
  BY <1>1, <1>6 DEF ToSet
<1>8. ASSUME IsFrame(l) PROVE GivenOf(k + 1, g, w)
  <2>1. ToSet(g) = {w[p] : p \in {q \in 1 .. k + 1 : IsFrame(w[q])}}
    BY <1>2, <1>7, <1>8 DEF GivenOf
  <2>2. ASSUME NEW i \in DOMAIN g, NEW j \in DOMAIN g, NEW p \in 1 .. k + 1,
               NEW q \in 1 .. k + 1, i < j, g[i] = w[p], g[j] = w[q]
        PROVE  p < q
    <3>1. i \in 1 .. Len(h)
      BY <1>6, <2>2
    <3>2. w[p] \in ToSet(h)
      BY <1>1, <1>6, <2>2, <3>1 DEF ToSet
    <3>3. p \in 1 .. k
      BY <1>2, <1>5, <3>2
    <3>4. CASE j \in 1 .. Len(h)
      <4>1. w[q] \in ToSet(h)
        BY <1>1, <1>6, <2>2, <3>4 DEF ToSet
      <4>2. q \in 1 .. k
        BY <1>2, <1>5, <4>1
      <4>3. h[i] = w[p] /\ h[j] = w[q]
        BY <1>6, <2>2, <3>1, <3>4
      <4> QED
        BY <1>1, <2>2, <3>1, <3>3, <3>4, <4>2, <4>3 DEF GivenOf
    <3>5. CASE j = Len(h) + 1
      <4>1. w[q] = l
        BY <1>6, <2>2, <3>5
      <4>2. q = k + 1
        BY <1>2, <1>4, <4>1
      <4> QED
        BY <1>2, <3>3, <4>2
    <3> QED
      BY <1>6, <2>2, <3>4, <3>5
  <2> QED
    BY <2>1, <2>2 DEF GivenOf
<1>9. ASSUME ~IsFrame(l) PROVE GivenOf(k + 1, h, w)
  <2>1. ToSet(h) = {w[p] : p \in {q \in 1 .. k + 1 : IsFrame(w[q])}}
    BY <1>2, <1>9 DEF GivenOf
  <2>2. ASSUME NEW i \in DOMAIN h, NEW j \in DOMAIN h, NEW p \in 1 .. k + 1,
               NEW q \in 1 .. k + 1, i < j, h[i] = w[p], h[j] = w[q]
        PROVE  p < q
    <3>1. w[p] \in ToSet(h) /\ w[q] \in ToSet(h)
      BY <2>2 DEF ToSet
    <3>2. p \in 1 .. k /\ q \in 1 .. k
      BY <1>2, <1>5, <3>1
    <3> QED
      BY <2>2, <3>2 DEF GivenOf
  <2> QED
    BY <2>1, <2>2 DEF GivenOf
<1> QED
  BY <1>3, <1>5, <1>8, <1>9 DEF g

LEMMA GivenBefore ==
  ASSUME NEW w \in Seq(Lines), NEW l \in Lines, NEW k \in 0 .. Len(w),
         NEW h \in Seq(Lines), GivenOf(k, h, w)
  PROVE  GivenOf(k, h, Append(w, l))
<1>1. \A p \in 1 .. k : Append(w, l)[p] = w[p]
  OBVIOUS
<1> DEFINE v == Append(w, l)
<1> HIDE DEF v
<1>2. \A p \in 1 .. k : v[p] = w[p]
  BY <1>1 DEF v
<1>3. GivenOf(k, h, v)
  BY <1>2 DEF GivenOf
<1> QED
  BY <1>3 DEF v

\* From the k-th line on, with one more line at the end.
LEMMA SendNext ==
  ASSUME NEW w \in Seq(Lines), NEW l \in Lines, NEW k \in 0 .. Len(w),
         NEW flow, UnderWay(k, flow, w, FALSE)
  PROVE  UnderWay(k, flow \o Encoded(<<l>>), Append(w, l), FALSE)
<1> DEFINE u == SubSeq(w, k + 1, Len(w))
           v == SubSeq(Append(w, l), k + 1, Len(Append(w, l)))
<1>1. /\ u \in Seq(Lines) /\ Len(u) = Len(w) - k
      /\ \A i \in 1 .. Len(w) - k : u[i] = w[k + i]
  OBVIOUS
<1>2. /\ Append(w, l) \in Seq(Lines) /\ Len(Append(w, l)) = Len(w) + 1
      /\ \A i \in 1 .. Len(w) : Append(w, l)[i] = w[i]
      /\ Append(w, l)[Len(w) + 1] = l
      /\ Len(w) \in Nat
  OBVIOUS
<1>3. /\ v \in Seq(Lines) /\ Len(v) = Len(w) + 1 - k
      /\ \A i \in 1 .. Len(w) + 1 - k : v[i] = Append(w, l)[k + i]
  BY <1>2
<1> HIDE DEF u, v
<1>4. /\ Append(u, l) \in Seq(Lines) /\ Len(Append(u, l)) = Len(u) + 1
      /\ \A i \in 1 .. Len(u) : Append(u, l)[i] = u[i]
      /\ Append(u, l)[Len(u) + 1] = l
  BY <1>1
<1>5. v = Append(u, l)
  <2>1. Len(v) = Len(Append(u, l))
    BY <1>1, <1>2, <1>3, <1>4
  <2>2. ASSUME NEW i \in 1 .. Len(v) PROVE v[i] = Append(u, l)[i]
    <3>1. CASE i \in 1 .. Len(w) - k
      <4>1. k + i \in 1 .. Len(w) /\ i \in 1 .. Len(u) /\ i \in 1 .. Len(w) + 1 - k
        BY <1>1, <1>2, <3>1
      <4> QED
        BY <1>1, <1>2, <1>3, <1>4, <3>1, <4>1
    <3>2. CASE i \notin 1 .. Len(w) - k
      <4>1. i = Len(u) + 1 /\ k + i = Len(w) + 1 /\ i \in 1 .. Len(w) + 1 - k
        <5>1. /\ Len(w) \in Nat /\ k \in 0 .. Len(w) /\ Len(u) = Len(w) - k
              /\ Len(v) = Len(w) + 1 - k /\ i \in 1 .. Len(v)
          BY <1>1, <1>2, <1>3
        <5> QED
          BY ONLY <3>2, <5>1
      <4> QED
        BY <1>2, <1>3, <1>4, <4>1
    <3> QED
      BY <3>1, <3>2
  <2> QED
    BY <1>3, <1>4, <2>1, <2>2, SeqEqual
<1>6. Encoded(v) = Encoded(u) \o Line(l)
  BY <1>1, <1>5, EncodedAppend
<1>7. flow = Encoded(u)
  BY DEF UnderWay, u
<1>8. flow \o Encoded(<<l>>) = Encoded(v)
  BY <1>6, <1>7, EncodedOne
<1>9. IsPrefix(Encoded(v), Encoded(v))
  <2>1. Encoded(v) \in Seq(Symbols)
    BY <1>3, EncodedType
  <2> QED
    BY <2>1, PrefixPointwise
<1> QED
  BY <1>8, <1>9 DEF UnderWay, v

\* The first line that is under way, once all of it has been read.
LEMMA FirstUnderWay ==
  ASSUME NEW w \in Seq(Lines), NEW k \in 0 .. Len(w), NEW b \in Seq(Symbols),
         NEW in \in Seq(Symbols), NEW cut \in BOOLEAN, UnderWay(k, b \o in, w, cut),
         NEW e, FirstNewline(b, e)
  PROVE  /\ k \in 0 .. Len(w) - 1
         /\ SubSeq(b, 1, e - 1) = Text(w[k + 1])
         /\ UnderWay(k + 1, SubSeq(b, e + 1, Len(b)) \o in, w, cut)
<1> DEFINE u == SubSeq(w, k + 1, Len(w))
           v == SubSeq(w, k + 2, Len(w))
           flow == b \o in
           left == SubSeq(b, e + 1, Len(b)) \o in
<1>1. /\ u \in Seq(Lines) /\ Len(u) = Len(w) - k /\ Len(w) \in Nat
      /\ \A i \in 1 .. Len(w) - k : u[i] = w[k + i]
  OBVIOUS
<1>2. /\ v \in Seq(Lines) /\ Len(v) = IF k = Len(w) THEN 0 ELSE Len(w) - k - 1
      /\ \A i \in 1 .. Len(w) - k - 1 : v[i] = w[k + 1 + i]
  OBVIOUS
<1>3. Len(flow) # 0 /\ flow \in Seq(Symbols)
  <2>1. Len(b) # 0
    BY DEF FirstNewline
  <2> QED
    BY <2>1
<1>4. (k + 1) + 1 = k + 2
  OBVIOUS
<1> HIDE DEF u, v, flow, left
<1>5. IsPrefix(flow, Encoded(u)) /\ (~cut => flow = Encoded(u))
  BY DEF UnderWay, u, flow
<1>6. Len(u) # 0
  <2> SUFFICES ASSUME Len(u) = 0 PROVE FALSE
    OBVIOUS
  <2>1. u = << >>
    BY <1>1
  <2>2. Encoded(u) = << >>
    BY <1>1, <2>1, EncodedType
  <2>3. Len(flow) <= 0
    BY <1>5, <2>2 DEF IsPrefix
  <2> QED
    BY <1>3, <2>3
<1>7. k \in 0 .. Len(w) - 1
  BY <1>1, <1>6
<1>8. u # << >> /\ Head(u) = w[k + 1] /\ Tail(u) = v
  <2>1. /\ u # << >> /\ Head(u) = u[1] /\ Tail(u) \in Seq(Lines) /\ Len(Tail(u)) = Len(u) - 1
        /\ \A i \in 1 .. Len(u) - 1 : Tail(u)[i] = u[i + 1]
    BY <1>1, <1>6
  <2>2. 1 \in 1 .. Len(w) - k /\ Len(Tail(u)) = Len(w) - k - 1 /\ Len(v) = Len(w) - k - 1
    BY <1>1, <1>2, <1>7, <2>1
  <2>3. \A i \in 1 .. Len(w) - k - 1 : Tail(u)[i] = v[i]
    <3> TAKE i \in 1 .. Len(w) - k - 1
    <3>1. i \in 1 .. Len(u) - 1 /\ i + 1 \in 1 .. Len(w) - k /\ k + (i + 1) = k + 1 + i
      BY <1>1
    <3>2. Tail(u)[i] = u[i + 1] /\ u[i + 1] = w[k + (i + 1)] /\ v[i] = w[k + 1 + i]
      BY <1>1, <1>2, <2>1, <3>1
    <3> QED
      BY <3>1, <3>2
  <2>4. Tail(u) = v
    BY <1>2, <2>1, <2>2, <2>3, SeqEqual
  <2> QED
    BY <1>1, <2>1, <2>2, <2>4
<1>9. Encoded(u) = Line(w[k + 1]) \o Encoded(v) /\ Encoded(v) \in Seq(Symbols)
  BY <1>1, <1>2, <1>8, EncodedCons, EncodedType
<1>10. w[k + 1] \in Lines
  BY <1>7
<1>11. IsPrefix(b \o in, Line(w[k + 1]) \o Encoded(v))
  BY <1>5, <1>9 DEF flow
<1>12. /\ SubSeq(b, 1, e - 1) = Text(w[k + 1])
       /\ IsPrefix(left, Encoded(v))
       /\ b \o in = Line(w[k + 1]) \o Encoded(v) => left = Encoded(v)
  <2>1. ASSUME NEW l \in Lines, NEW R \in Seq(Symbols), IsPrefix(b \o in, Line(l) \o R)
        PROVE  LineTaken(l, b, in, e, R)
    <3>1. /\ l \in Lines /\ R \in Seq(Symbols) /\ b \in Seq(Symbols) /\ in \in Seq(Symbols)
          /\ FirstNewline(b, e) /\ IsPrefix(b \o in, Line(l) \o R)
      BY <2>1
    <3> QED
      BY ONLY <3>1, FirstLine, Zenon
  <2> QED
    BY <1>9, <1>10, <1>11, <2>1 DEF left, LineTaken
<1>13. ~cut => left = Encoded(v)
  BY <1>5, <1>9, <1>12 DEF flow
<1>14. UnderWay(k + 1, left, w, cut)
  BY <1>4, <1>12, <1>13 DEF UnderWay, v
<1> QED
  BY <1>7, <1>12, <1>14 DEF left

LEMMA LineEndIs ==
  ASSUME buffer \in Seq(Symbols), HasLine
  PROVE  FirstNewline(buffer, LineEnd)
<1> DEFINE P(i) == i \in DOMAIN buffer /\ buffer[i] = Newline
                   /\ \A j \in 1 .. i - 1 : buffer[j] # Newline
           S == {n \in Nat : \A i \in 1 .. n : i \in DOMAIN buffer => buffer[i] # Newline}
<1>1. DOMAIN buffer = 1 .. Len(buffer) /\ Len(buffer) \in Nat
  OBVIOUS
<1>2. \E i : P(i)
  <2> SUFFICES ASSUME \A i : ~P(i) PROVE FALSE
    OBVIOUS
  <2>1. 0 \in S
    OBVIOUS
  <2>2. ASSUME NEW n \in Nat, n \in S PROVE n + 1 \in S
    <3>1. \A j \in 1 .. n + 1 : j \in 1 .. n \/ j = n + 1
      OBVIOUS
    <3>2. n + 1 \in DOMAIN buffer => buffer[n + 1] # Newline
      <4> SUFFICES ASSUME n + 1 \in DOMAIN buffer, buffer[n + 1] = Newline PROVE FALSE
        OBVIOUS
      <4>1. \A j \in 1 .. (n + 1) - 1 : j \in 1 .. n /\ j \in DOMAIN buffer
        BY <1>1
      <4>2. \A j \in 1 .. (n + 1) - 1 : buffer[j] # Newline
        BY <2>2, <4>1
      <4>3. ~P(n + 1)
        OBVIOUS
      <4> QED
        BY <4>2, <4>3
    <3> QED
      BY <2>2, <3>1, <3>2
  <2>3. Nat \subseteq S
    <3> HIDE DEF S
    <3> QED
      BY <2>1, <2>2, SetInduction
  <2>4. Len(buffer) \in S
    BY <1>1, <2>3
  <2> QED
    BY <1>1, <2>4 DEF HasLine
<1>3. P(CHOOSE i : P(i))
  BY <1>2
<1>4. LineEnd = CHOOSE i : P(i)
  BY DEF LineEnd
<1> QED
  BY <1>3, <1>4 DEF FirstNewline

LEMMA ParsedIs ==
  ASSUME NEW l \in Lines
  PROVE  Parsed(Text(l)) = IF IsFrame(l) THEN {l} ELSE {}
<1>1. \A m \in Lines : Kind[m] # "blank" => Text(m) = <<m>>
  BY DEF Text
<1>2. \A m \in Lines : Kind[l] # "blank" => (<<l>> = <<m>> <=> l = m)
  OBVIOUS
<1>3. \A m \in Lines : << >> # <<m>>
  OBVIOUS
<1>4. CASE Kind[l] = "blank"
  <2>1. Text(l) = << >>
    BY <1>4 DEF Text
  <2> QED
    BY <1>1, <1>3, <1>4, <2>1 DEF Parsed, IsFrame
<1>5. CASE Kind[l] # "blank"
  <2>1. Text(l) = <<l>>
    BY <1>5 DEF Text
  <2> QED
    BY <1>1, <1>2, <1>5, <2>1 DEF Parsed, IsFrame
<1> QED
  BY <1>4, <1>5

-----------------------------------------------------------------------------
(***************************************************************************)
(* The framing invariant.                                                  *)
(***************************************************************************)

LEMMA FlowKept ==
  ASSUME WrittenOnce, FramesAreWhole,
         UNCHANGED <<written, handled, eof>>, buffer' \o stdin' = buffer \o stdin
  PROVE  WrittenOnce' /\ FramesAreWhole'
<1>1. written' = written /\ handled' = handled /\ eof' = eof
  OBVIOUS
<1>2. PICK k \in 0 .. Len(written) :
        GivenOf(k, handled, written) /\ UnderWay(k, buffer \o stdin, written, eof)
  BY TwoParts
<1>3. /\ k \in 0 .. Len(written')
      /\ GivenOf(k, handled', written')
      /\ UnderWay(k, buffer' \o stdin', written', eof')
  BY <1>1, <1>2
<1>4. FramesAreWhole'
  BY <1>3 DEF FramesAreWhole, GivenOf, UnderWay
<1> QED
  BY <1>1, <1>4 DEF WrittenOnce

LEMMA CutInTwo ==
  ASSUME NEW s \in Seq(Symbols), NEW n \in 0 .. Len(s)
  PROVE  /\ SubSeq(s, 1, n) \in Seq(Symbols) /\ SubSeq(s, n + 1, Len(s)) \in Seq(Symbols)
         /\ Len(SubSeq(s, 1, n)) = n /\ Len(SubSeq(s, n + 1, Len(s))) = Len(s) - n
         /\ \A i \in 1 .. n : SubSeq(s, 1, n)[i] = s[i]
         /\ SubSeq(s, 1, n) \o SubSeq(s, n + 1, Len(s)) = s
<1> DEFINE a == SubSeq(s, 1, n)
           b == SubSeq(s, n + 1, Len(s))
<1>1. /\ a \in Seq(Symbols) /\ Len(a) = n /\ \A i \in 1 .. n : a[i] = s[i]
  OBVIOUS
<1>2. /\ b \in Seq(Symbols) /\ Len(b) = Len(s) - n
      /\ \A i \in 1 .. Len(s) - n : b[i] = s[n + i]
  OBVIOUS
<1>3. Len(s) \in Nat
  OBVIOUS
<1> HIDE DEF a, b
<1>4. a \o b \in Seq(Symbols) /\ Len(a \o b) = Len(a) + Len(b)
      /\ (\A i \in 1 .. Len(a) : (a \o b)[i] = a[i])
      /\ (\A i \in 1 .. Len(b) : (a \o b)[Len(a) + i] = b[i])
  BY <1>1, <1>2, ConcatAt
<1>5. Len(a \o b) = Len(s)
  BY <1>1, <1>2, <1>3, <1>4
<1>6. \A i \in 1 .. Len(a \o b) : (a \o b)[i] = s[i]
  <2> TAKE i \in 1 .. Len(a \o b)
  <2>1. CASE i \in 1 .. n
    BY <1>1, <1>4, <2>1
  <2>2. CASE i \notin 1 .. n
    <3>1. i - n \in 1 .. Len(s) - n /\ n + (i - n) = i
      BY <1>3, <1>5, <2>2
    <3> DEFINE j == i - n
    <3> HIDE DEF j
    <3>2. j \in 1 .. Len(b) /\ Len(a) = n
      BY <1>1, <1>2, <3>1 DEF j
    <3>3. (a \o b)[n + j] = b[j] /\ b[j] = s[n + j]
      BY ONLY <1>2, <1>4, <3>2, Zenon
    <3> QED
      BY <3>1, <3>3 DEF j
  <2> QED
    BY <2>1, <2>2
<1>7. a \o b = s
  BY <1>4, <1>5, <1>6, SeqEqual
<1> QED
  BY <1>1, <1>2, <1>7 DEF a, b

LEMMA ReadChunkFrames ==
  ASSUME TypeOK, WrittenOnce, FramesAreWhole, ReadChunk
  PROVE  WrittenOnce' /\ FramesAreWhole'
<1>1. PICK n \in 1 .. Len(stdin) : /\ buffer' = buffer \o SubSeq(stdin, 1, n)
                                   /\ stdin' = SubSeq(stdin, n + 1, Len(stdin))
  BY DEF ReadChunk, AddChunk
<1>2. UNCHANGED <<written, handled, eof>>
  BY DEF ReadChunk
<1>3. buffer \in Seq(Symbols) /\ stdin \in Seq(Symbols) /\ n \in 0 .. Len(stdin)
  BY <1>1 DEF TypeOK
<1> DEFINE a == SubSeq(stdin, 1, n)
           b == SubSeq(stdin, n + 1, Len(stdin))
<1>4. a \in Seq(Symbols) /\ b \in Seq(Symbols) /\ a \o b = stdin
  BY <1>3, CutInTwo
<1> HIDE DEF a, b
<1>6. (buffer \o a) \o b = buffer \o stdin
  <2>1. buffer \in Seq(Symbols) /\ a \in Seq(Symbols) /\ b \in Seq(Symbols)
    BY <1>3, <1>4
  <2>2. (buffer \o a) \o b = buffer \o (a \o b)
    BY ONLY <2>1, Associates, Zenon
  <2> QED
    BY ONLY <1>4, <2>2
<1>7. buffer' \o stdin' = buffer \o stdin
  BY <1>1, <1>6 DEF a, b
<1> QED
  BY <1>2, <1>7, FlowKept

LEMMA CloseStdinFrames ==
  ASSUME TypeOK, WrittenOnce, FramesAreWhole, CloseStdin
  PROVE  WrittenOnce' /\ FramesAreWhole'
<1>1. /\ written' = written /\ handled' = handled /\ buffer' = buffer
      /\ eof = FALSE /\ eof' = TRUE
  BY DEF CloseStdin, frameVars, TypeOK
<1>2. PICK n \in 0 .. Len(stdin) : stdin' = SubSeq(stdin, 1, n)
  BY DEF CloseStdin
<1>3. PICK k \in 0 .. Len(written) :
        GivenOf(k, handled, written) /\ UnderWay(k, buffer \o stdin, written, FALSE)
  BY <1>1, TwoParts
<1> DEFINE rest == Encoded(SubSeq(written, k + 1, Len(written)))
           a == SubSeq(stdin, 1, n)
<1>4. buffer \in Seq(Symbols) /\ stdin \in Seq(Symbols)
  BY DEF TypeOK
<1>5. a \in Seq(Symbols) /\ Len(a) = n /\ \A i \in 1 .. n : a[i] = stdin[i]
  BY <1>4, CutInTwo
<1>6. buffer \o stdin = rest
  BY <1>3 DEF UnderWay
<1> HIDE DEF rest, a
<1>7. /\ rest \in Seq(Symbols) /\ Len(rest) = Len(buffer) + Len(stdin)
      /\ \A i \in 1 .. Len(buffer) : rest[i] = buffer[i]
      /\ \A i \in 1 .. Len(stdin) : rest[Len(buffer) + i] = stdin[i]
  <2>1. /\ buffer \o stdin \in Seq(Symbols)
        /\ Len(buffer \o stdin) = Len(buffer) + Len(stdin)
        /\ \A i \in 1 .. Len(buffer) : (buffer \o stdin)[i] = buffer[i]
        /\ \A i \in 1 .. Len(stdin) : (buffer \o stdin)[Len(buffer) + i] = stdin[i]
    BY <1>4, ConcatAt
  <2> QED
    BY <1>6, <2>1
<1>8. /\ buffer \o a \in Seq(Symbols) /\ Len(buffer \o a) = Len(buffer) + n
      /\ \A i \in 1 .. Len(buffer) : (buffer \o a)[i] = buffer[i]
      /\ \A i \in 1 .. n : (buffer \o a)[Len(buffer) + i] = a[i]
  <2>1. /\ buffer \o a \in Seq(Symbols) /\ Len(buffer \o a) = Len(buffer) + Len(a)
        /\ \A i \in 1 .. Len(buffer) : (buffer \o a)[i] = buffer[i]
        /\ \A i \in 1 .. Len(a) : (buffer \o a)[Len(buffer) + i] = a[i]
    BY <1>4, <1>5, ConcatAt
  <2> QED
    BY <1>5, <2>1
<1>9. Len(buffer) \in Nat /\ Len(stdin) \in Nat /\ n \in Nat /\ n <= Len(stdin)
  BY <1>4
<1>10. ASSUME NEW i \in 1 .. Len(buffer \o a) PROVE (buffer \o a)[i] = rest[i]
  <2>1. CASE i \in 1 .. Len(buffer)
    BY <1>7, <1>8, <2>1
  <2>2. CASE i \notin 1 .. Len(buffer)
    <3>1. /\ i - Len(buffer) \in 1 .. n /\ i - Len(buffer) \in 1 .. Len(stdin)
          /\ Len(buffer) + (i - Len(buffer)) = i
      BY <1>8, <1>9, <2>2
    <3>2. (buffer \o a)[i] = a[i - Len(buffer)] /\ rest[i] = stdin[i - Len(buffer)]
      BY <1>7, <1>8, <3>1
    <3> QED
      BY <1>5, <3>1, <3>2
  <2> QED
    BY <2>1, <2>2
<1>11. IsPrefix(buffer \o a, rest)
  <2>1. Len(buffer \o a) <= Len(rest)
    BY <1>7, <1>8, <1>9
  <2> QED
    BY <1>7, <1>8, <1>10, <2>1, PrefixPointwise
<1>12. UnderWay(k, buffer' \o stdin', written', eof')
  BY <1>1, <1>2, <1>11 DEF UnderWay, rest, a
<1>13. k \in 0 .. Len(written') /\ GivenOf(k, handled', written')
  BY <1>1, <1>3
<1>14. FramesAreWhole'
  BY <1>12, <1>13 DEF FramesAreWhole, GivenOf, UnderWay
<1> QED
  BY <1>1, <1>14 DEF WrittenOnce

LEMMA WriteFrames ==
  ASSUME TypeOK, WrittenOnce, FramesAreWhole, NEW l \in Lines, Write(l)
  PROVE  WrittenOnce' /\ FramesAreWhole'
<1>1. /\ written' = Append(written, l) /\ handled' = handled /\ buffer' = buffer
      /\ eof = FALSE /\ eof' = eof
      /\ stdin' = stdin \o Encoded(<<l>>)
      /\ l \notin ToSet(written)
  BY DEF Write, frameVars, TypeOK
<1>2. written \in Seq(Lines) /\ handled \in Seq(Lines)
      /\ buffer \in Seq(Symbols) /\ stdin \in Seq(Symbols)
  BY DEF TypeOK
<1>3. PICK k \in 0 .. Len(written) :
        GivenOf(k, handled, written) /\ UnderWay(k, buffer \o stdin, written, FALSE)
  BY <1>1, TwoParts
<1>4. (buffer \o stdin) \o Encoded(<<l>>) = buffer \o (stdin \o Encoded(<<l>>))
  <2>1. Encoded(<<l>>) \in Seq(Symbols)
    BY EncodedOne, LineShape
  <2>2. buffer \in Seq(Symbols) /\ stdin \in Seq(Symbols)
    BY <1>2
  <2> QED
    BY ONLY <2>1, <2>2, Associates, Zenon
<1>5. UnderWay(k, buffer' \o stdin', written', eof')
  BY <1>1, <1>2, <1>3, <1>4, SendNext
<1>6. k \in 0 .. Len(written') /\ GivenOf(k, handled', written')
  BY <1>1, <1>2, <1>3, GivenBefore
<1>7. FramesAreWhole'
  BY <1>5, <1>6 DEF FramesAreWhole, GivenOf, UnderWay
<1>8. WrittenOnce'
  <2>1. /\ DOMAIN written = 1 .. Len(written) /\ Len(written) \in Nat
        /\ DOMAIN written' = 1 .. Len(written) + 1
        /\ \A i \in 1 .. Len(written) : written'[i] = written[i]
        /\ written'[Len(written) + 1] = l
        /\ \A i \in 1 .. Len(written) + 1 : i \in 1 .. Len(written) \/ i = Len(written) + 1
    BY <1>1, <1>2
  <2>2. \A i \in 1 .. Len(written) : written[i] # l
    BY <1>1, <2>1 DEF ToSet
  <2> QED
    BY <2>1, <2>2 DEF WrittenOnce
<1> QED
  BY <1>7, <1>8

\* A line that is taken is the next one; it is dispatched, and for the first time, or is no
\* frame.
LEMMA NextLineFrames ==
  ASSUME TypeOK, WrittenOnce, FramesAreWhole, NextLine
  PROVE  /\ WrittenOnce' /\ FramesAreWhole'
         /\ buffer' \in Seq(Symbols)
         /\ \/ UNCHANGED <<handled, loop, shuttingDown, sessionVars, told, ask>>
            \/ \E l \in Lines \ ToSet(handled) : Body(l)
<1>1. /\ HasLine /\ written' = written /\ stdin' = stdin /\ eof' = eof
      /\ buffer' = SubSeq(buffer, LineEnd + 1, Len(buffer))
  BY DEF NextLine, stdinVars
<1>2. /\ written \in Seq(Lines) /\ handled \in Seq(Lines)
      /\ buffer \in Seq(Symbols) /\ stdin \in Seq(Symbols) /\ eof \in BOOLEAN
  BY DEF TypeOK
<1>3. PICK k \in 0 .. Len(written) :
        GivenOf(k, handled, written) /\ UnderWay(k, buffer \o stdin, written, eof)
  BY TwoParts
<1>4. FirstNewline(buffer, LineEnd)
  BY <1>1, <1>2, LineEndIs
<1> DEFINE l == written[k + 1]
<1>5. /\ k \in 0 .. Len(written) - 1
      /\ SubSeq(buffer, 1, LineEnd - 1) = Text(l)
      /\ UnderWay(k + 1, buffer' \o stdin', written', eof')
  BY <1>1, <1>2, <1>3, <1>4, FirstUnderWay
<1>6. Distinct(written)
  BY DEF WrittenOnce, Distinct
<1>7. /\ l \in Lines /\ l \notin ToSet(handled)
      /\ IsFrame(l) => GivenOf(k + 1, Append(handled, l), written)
      /\ ~IsFrame(l) => GivenOf(k + 1, handled, written)
  BY <1>2, <1>3, <1>5, <1>6, GiveNext
<1> HIDE DEF l
<1>8. Parsed(SubSeq(buffer, 1, LineEnd - 1)) = IF IsFrame(l) THEN {l} ELSE {}
  BY <1>5, <1>7, ParsedIs
<1>9. \/ IsFrame(l) /\ Body(l)
      \/ ~IsFrame(l) /\ UNCHANGED <<handled, loop, shuttingDown, sessionVars, told, ask>>
  BY <1>8 DEF NextLine
<1>10. GivenOf(k + 1, handled', written')
  BY <1>1, <1>7, <1>9 DEF Body
<1>11. k + 1 \in 0 .. Len(written')
  BY <1>1, <1>2, <1>5
<1>12. FramesAreWhole'
  BY <1>5, <1>10, <1>11 DEF FramesAreWhole, GivenOf, UnderWay
<1>13. WrittenOnce'
  BY <1>1 DEF WrittenOnce
<1>14. buffer' \in Seq(Symbols)
  <2>1. LineEnd \in 1 .. Len(buffer)
    BY <1>2, <1>4 DEF FirstNewline
  <2> QED
    BY <1>1, <1>2, <2>1
<1> QED
  BY <1>7, <1>9, <1>12, <1>13, <1>14

-----------------------------------------------------------------------------
(***************************************************************************)
(* The steps.                                                              *)
(***************************************************************************)

\* What a frame may change, by its kind.
LEMMA BodyIs ==
  ASSUME TypeOK, NEW l \in Lines, Body(l)
  PROVE  /\ handled' = Append(handled, l)
         /\ loop' = IF shuttingDown /\ l \in RequestLines THEN "closing" ELSE loop
         /\ shuttingDown' = (shuttingDown \/ Kind[l] = "shutdown")
         /\ \/ /\ l \notin RequestLines
               /\ UNCHANGED <<sessionVars, told>>
               /\ ask' \in [Asks -> {"unasked", "waiting"} \cup Ends]
            \/ /\ l \in RequestLines
               /\ ask' = ask
               /\ \E answer \in {"waiting", "result", "error"} : Answered(l, answer)
               /\ \/ DispatchCreate(l) \/ DispatchClose(l)
                  \/ UNCHANGED sessionVars
<1>1. handled' = Append(handled, l)
      /\ loop' = IF shuttingDown /\ l \in RequestLines THEN "closing" ELSE loop
  BY DEF Body, BreakAfter
<1>2. CASE Feed(l) \/ Ignore(l)
  <2>1. l \notin RequestLines /\ Kind[l] # "shutdown"
    BY <1>2 DEF Feed, Ignore, RequestLines, ElixirMethods, SessionMethods
  <2>2. UNCHANGED <<sessionVars, told, shuttingDown>>
    BY <1>2 DEF Feed, Ignore
  <2>3. ask' \in [Asks -> {"unasked", "waiting"} \cup Ends]
    BY <1>2 DEF Feed, Ignore, TypeOK, Ends
  <2>4. shuttingDown' = (shuttingDown \/ Kind[l] = "shutdown")
    BY <2>1, <2>2 DEF TypeOK
  <2> QED
    BY <1>1, <2>1, <2>2, <2>3, <2>4
<1>3. CASE DispatchCreate(l)
  <2>1. l \in RequestLines /\ Kind[l] # "shutdown"
    BY <1>3 DEF DispatchCreate, RequestLines, ElixirMethods, SessionMethods
  <2>2. /\ \E answer \in {"waiting", "result", "error"} : Answered(l, answer)
        /\ UNCHANGED <<shuttingDown, ask>>
    BY <1>3 DEF DispatchCreate
  <2>3. shuttingDown' = (shuttingDown \/ Kind[l] = "shutdown")
    BY <2>1, <2>2 DEF TypeOK
  <2> QED
    BY <1>1, <1>3, <2>1, <2>2, <2>3
<1>4. CASE DispatchClose(l)
  <2>1. l \in RequestLines /\ Kind[l] # "shutdown"
    BY <1>4 DEF DispatchClose, RequestLines, ElixirMethods, SessionMethods
  <2>2. /\ \E answer \in {"waiting", "result", "error"} : Answered(l, answer)
        /\ UNCHANGED <<shuttingDown, ask>>
    BY <1>4 DEF DispatchClose
  <2>3. shuttingDown' = (shuttingDown \/ Kind[l] = "shutdown")
    BY <2>1, <2>2 DEF TypeOK
  <2> QED
    BY <1>1, <1>4, <2>1, <2>2, <2>3
<1>5. CASE DispatchControl(l)
  <2>1. l \in RequestLines /\ Kind[l] # "shutdown"
    BY <1>5 DEF DispatchControl, RequestLines, ElixirMethods, SessionMethods
  <2>2. /\ \E answer \in {"waiting", "result", "error"} : Answered(l, answer)
        /\ UNCHANGED <<sessionVars, shuttingDown, ask>>
    BY <1>5 DEF DispatchControl
  <2>3. shuttingDown' = (shuttingDown \/ Kind[l] = "shutdown")
    BY <2>1, <2>2 DEF TypeOK
  <2> QED
    BY <1>1, <2>1, <2>2, <2>3
<1>6. CASE DispatchOther(l)
  <2>1. l \in RequestLines
    BY <1>6 DEF DispatchOther, RequestLines, ElixirMethods, SessionMethods
  <2>2. /\ \E answer \in {"waiting", "result", "error"} : Answered(l, answer)
        /\ UNCHANGED <<sessionVars, ask>>
        /\ shuttingDown' = (shuttingDown \/ Kind[l] = "shutdown")
    BY <1>6 DEF DispatchOther
  <2> QED
    BY <1>1, <2>1, <2>2
<1> QED
  BY <1>2, <1>3, <1>4, <1>5, <1>6 DEF Body

LEMMA BodyTypes ==
  ASSUME TypeOK, NEW l \in Lines, Body(l)
  PROVE  /\ loop' \in {"starting", "reading", "closing", "finished", "exited", "crashed"}
         /\ shuttingDown' \in BOOLEAN
         /\ handled' \in Seq(Lines)
         /\ sessions' \subseteq Sessions
         /\ closed' \in [Sessions -> BOOLEAN]
         /\ pump' \in [Sessions -> {"none", "running", "ended"}]
         /\ told' \in [RequestLines -> {"unasked", "waiting"} \cup Told]
         /\ ask' \in [Asks -> {"unasked", "waiting"} \cup Ends]
<1>1. /\ loop' \in {"starting", "reading", "closing", "finished", "exited", "crashed"}
      /\ shuttingDown' \in BOOLEAN
      /\ handled' \in Seq(Lines)
      /\ ask' \in [Asks -> {"unasked", "waiting"} \cup Ends]
  <2>1. handled' = Append(handled, l) /\ handled \in Seq(Lines)
    BY BodyIs DEF TypeOK
  <2>2. shuttingDown' = (shuttingDown \/ Kind[l] = "shutdown")
    BY BodyIs
  <2>3. loop' = IF shuttingDown /\ l \in RequestLines THEN "closing" ELSE loop
    BY BodyIs
  <2>4. ask' = ask \/ ask' \in [Asks -> {"unasked", "waiting"} \cup Ends]
    BY BodyIs
  <2>5. ask \in [Asks -> {"unasked", "waiting"} \cup Ends]
    BY DEF TypeOK
  <2>6. handled' \in Seq(Lines)
    BY <2>1
  <2>7. loop' \in {"starting", "reading", "closing", "finished", "exited", "crashed"}
    BY <2>3 DEF TypeOK
  <2> QED
    BY <2>2, <2>4, <2>5, <2>6, <2>7
<1>2. told' \in [RequestLines -> {"unasked", "waiting"} \cup Told]
  BY BodyIs DEF TypeOK, Answered, Told
<1>3. /\ sessions' \subseteq Sessions
      /\ closed' \in [Sessions -> BOOLEAN]
      /\ pump' \in [Sessions -> {"none", "running", "ended"}]
  <2>1. CASE UNCHANGED sessionVars
    BY <2>1 DEF TypeOK, sessionVars
  <2>2. CASE DispatchCreate(l)
    <3>1. Target[l] \in Sessions
      BY <2>2, SidecarLoopAssumption DEF DispatchCreate, SessionMethods
    <3> QED
      BY <2>2, <3>1 DEF TypeOK, DispatchCreate, sessionVars
  <2>3. CASE DispatchClose(l)
    <3>1. Target[l] \in Sessions
      BY <2>3, SidecarLoopAssumption DEF DispatchClose, SessionMethods
    <3> QED
      BY <2>3, <3>1 DEF TypeOK, DispatchClose
  <2> QED
    BY <2>1, <2>2, <2>3, BodyIs
<1> QED
  BY <1>1, <1>2, <1>3

LEMMA TypeStep ==
  ASSUME TypeOK, WrittenOnce, FramesAreWhole, Next
  PROVE  TypeOK'
<1> USE DEF TypeOK, stdinVars, frameVars, sessionVars, endVars
<1>1. CASE Ready
  BY <1>1 DEF Ready
<1>2. CASE Crash
  BY <1>2 DEF Crash, Lost, Told, Ends
<1>3. CASE ReadChunk
  <2>1. PICK n \in 1 .. Len(stdin) : /\ buffer' = buffer \o SubSeq(stdin, 1, n)
                                     /\ stdin' = SubSeq(stdin, n + 1, Len(stdin))
    BY <1>3 DEF ReadChunk, AddChunk
  <2>2. SubSeq(stdin, 1, n) \in Seq(Symbols) /\ SubSeq(stdin, n + 1, Len(stdin)) \in Seq(Symbols)
    BY CutInTwo
  <2>3. buffer' \in Seq(Symbols) /\ stdin' \in Seq(Symbols)
    BY <2>1, <2>2
  <2> QED
    BY <1>3, <2>3 DEF ReadChunk
<1>4. CASE NextLine
  <2>1. /\ buffer' \in Seq(Symbols)
        /\ \/ UNCHANGED <<handled, loop, shuttingDown, sessionVars, told, ask>>
           \/ \E l \in Lines \ ToSet(handled) : Body(l)
    BY <1>4, NextLineFrames
  <2>2. UNCHANGED <<stdinVars, endVars>>
    BY <1>4 DEF NextLine
  <2>3. CASE UNCHANGED <<handled, loop, shuttingDown, sessionVars, told, ask>>
    BY <2>1, <2>2, <2>3
  <2>4. CASE \E l \in Lines \ ToSet(handled) : Body(l)
    BY <2>1, <2>2, <2>4, BodyTypes
  <2> QED
    BY <2>1, <2>3, <2>4
<1>5. CASE EndOfStdin
  BY <1>5 DEF EndOfStdin
<1>6. CASE CloseReturns
  BY <1>6 DEF CloseReturns
<1>7. CASE Drain
  BY <1>7 DEF Drain, Lost, Told, Ends
<1>8. ASSUME NEW s \in Sessions, CloseNext(s) PROVE TypeOK'
  BY <1>8 DEF CloseNext, AwaitClose
<1>9. ASSUME NEW l \in RequestLines, CloseGoesOn(l) PROVE TypeOK'
  BY <1>9 DEF CloseGoesOn, Answered, Told
<1>10. ASSUME NEW l \in RequestLines, ControlSettles(l) PROVE TypeOK'
  BY <1>10 DEF ControlSettles, Answered, Told
<1>11. ASSUME NEW s \in Sessions, PumpEnds(s) PROVE TypeOK'
  BY <1>11 DEF PumpEnds
<1>12. ASSUME NEW a \in Asks, CallElixir(a) PROVE TypeOK'
  BY <1>12 DEF CallElixir
<1>13. ASSUME NEW a \in Asks, CallTimeout(a) PROVE TypeOK'
  BY <1>13 DEF CallTimeout, Ends
<1>14. ASSUME NEW l \in Lines, Write(l) PROVE TypeOK'
  <2>1. Encoded(<<l>>) \in Seq(Symbols)
    BY EncodedOne, LineShape
  <2>2. stdin' \in Seq(Symbols) /\ written' \in Seq(Lines)
    BY <1>14, <2>1 DEF Write
  <2> QED
    BY <1>14, <2>2 DEF Write
<1>15. CASE CloseStdin
  <2>1. PICK n \in 0 .. Len(stdin) : stdin' = SubSeq(stdin, 1, n)
    BY <1>15 DEF CloseStdin
  <2>2. stdin' \in Seq(Symbols)
    BY <2>1, CutInTwo
  <2> QED
    BY <1>15, <2>2 DEF CloseStdin
<1> QED
  BY <1>1, <1>2, <1>3, <1>4, <1>5, <1>6, <1>7, <1>8, <1>9, <1>10, <1>11, <1>12, <1>13,
     <1>14,
     <1>15
  DEF Next, LoopStep

LEMMA FrameStep ==
  ASSUME TypeOK, WrittenOnce, FramesAreWhole, Next
  PROVE  WrittenOnce' /\ FramesAreWhole'
<1>1. CASE ReadChunk
  BY <1>1, ReadChunkFrames
<1>2. CASE NextLine
  BY <1>2, NextLineFrames
<1>3. CASE CloseStdin
  BY <1>3, CloseStdinFrames
<1>4. ASSUME NEW l \in Lines, Write(l) PROVE WrittenOnce' /\ FramesAreWhole'
  BY <1>4, WriteFrames
<1>5. ASSUME UNCHANGED <<stdinVars, frameVars>> PROVE WrittenOnce' /\ FramesAreWhole'
  BY <1>5, FlowKept DEF stdinVars, frameVars
<1>6. CASE \/ Ready \/ Crash \/ EndOfStdin \/ CloseReturns \/ Drain
           \/ \E s \in Sessions : CloseNext(s) \/ PumpEnds(s)
           \/ \E l \in RequestLines : CloseGoesOn(l) \/ ControlSettles(l)
           \/ \E a \in Asks : CallElixir(a) \/ CallTimeout(a)
  <2>1. UNCHANGED <<stdinVars, frameVars>>
    BY <1>6
    DEF Ready, Crash, EndOfStdin, CloseReturns, Drain, CloseNext, PumpEnds, CloseGoesOn,
        ControlSettles, CallElixir, CallTimeout
  <2> QED
    BY <1>5, <2>1
<1> QED
  BY <1>1, <1>2, <1>3, <1>4, <1>6 DEF Next, LoopStep

LEMMA Breaks ==
  ASSUME IInv, Next
  PROVE  BreaksInTime' /\ OneRequestAfterShutdown'
<1>1. TypeOK /\ WrittenOnce /\ FramesAreWhole /\ BreaksInTime /\ OneRequestAfterShutdown
  BY DEF IInv
<1>2. handled \in Seq(Lines) /\ shuttingDown \in BOOLEAN
  BY <1>1 DEF TypeOK
<1>3. ASSUME handled' = handled, shuttingDown' = shuttingDown,
             loop' \in {"starting", "reading"} => loop \in {"starting", "reading"}
      PROVE  BreaksInTime' /\ OneRequestAfterShutdown'
  <2>1. BreaksInTime'
    BY <1>1, <1>3 DEF BreaksInTime
  <2>2. OneRequestAfterShutdown'
    BY <1>1, <1>3 DEF OneRequestAfterShutdown
  <2> QED
    BY <2>1, <2>2
<1>4. ASSUME NEW l \in Lines, Body(l), loop = "reading"
      PROVE  BreaksInTime' /\ OneRequestAfterShutdown'
  <2>1. /\ handled' = Append(handled, l)
        /\ loop' = IF shuttingDown /\ l \in RequestLines THEN "closing" ELSE loop
        /\ shuttingDown' = (shuttingDown \/ Kind[l] = "shutdown")
    BY <1>1, <1>4, BodyIs
  <2>2. /\ DOMAIN handled = 1 .. Len(handled) /\ Len(handled) \in Nat
        /\ DOMAIN handled' = 1 .. Len(handled) + 1 /\ Len(handled') = Len(handled) + 1
        /\ \A i \in 1 .. Len(handled) : handled'[i] = handled[i]
        /\ handled'[Len(handled) + 1] = l
        /\ \A i \in 1 .. Len(handled) + 1 : i \in 1 .. Len(handled) \/ i = Len(handled) + 1
    BY <1>2, <2>1
  <2>3. ~shuttingDown => \A i \in 1 .. Len(handled) : Kind[handled[i]] # "shutdown"
    BY <1>1, <2>2 DEF BreaksInTime
  <2>4. \A i, j \in 1 .. Len(handled) :
          Kind[handled[i]] = "shutdown" /\ i < j => handled[j] \notin RequestLines
    BY <1>1, <1>4, <2>2 DEF BreaksInTime
  <2>5. ASSUME ~shuttingDown', NEW i \in 1 .. Len(handled) + 1
        PROVE  Kind[handled'[i]] # "shutdown"
    BY <1>2, <2>1, <2>2, <2>3, <2>5
  <2>6. ASSUME loop' \in {"starting", "reading"}, NEW i \in 1 .. Len(handled) + 1,
               NEW j \in 1 .. Len(handled) + 1, Kind[handled'[i]] = "shutdown", i < j
        PROVE  handled'[j] \notin RequestLines
    <3>1. i \in 1 .. Len(handled)
      BY <2>2, <2>6
    <3>2. Kind[handled[i]] = "shutdown" /\ shuttingDown
      BY <2>2, <2>3, <2>6, <3>1
    <3>3. l \notin RequestLines
      BY <2>1, <2>6, <3>2
    <3> QED
      BY <2>2, <2>4, <2>6, <3>1, <3>2, <3>3
  <2>7. BreaksInTime'
    <3>1. DOMAIN (handled') = 1 .. Len(handled) + 1
      BY <2>2
    <3> QED
      BY <2>5, <2>6, <3>1 DEF BreaksInTime
  <2>8. ASSUME NEW i \in 1 .. Len(handled) + 1, NEW j \in 1 .. Len(handled) + 1,
               Kind[handled'[i]] = "shutdown", i < j, handled'[j] \in RequestLines,
               NEW k \in j + 1 .. Len(handled')
        PROVE  handled'[k] \notin RequestLines
    <3>1. i \in 1 .. Len(handled) /\ j \in 1 .. Len(handled)
      BY <2>2, <2>8
    <3>2. handled[j] \notin RequestLines
      BY <2>2, <2>4, <2>8, <3>1
    <3> QED
      BY <2>2, <2>8, <3>1, <3>2
  <2>9. OneRequestAfterShutdown'
    <3>1. DOMAIN (handled') = 1 .. Len(handled) + 1
      BY <2>2
    <3> QED
      BY <2>8, <3>1 DEF OneRequestAfterShutdown
  <2> QED
    BY <2>7, <2>9
<1>5. CASE NextLine
  <2>1. loop = "reading"
    BY <1>5 DEF NextLine
  <2>2. \/ UNCHANGED <<handled, loop, shuttingDown>>
        \/ \E l \in Lines : Body(l)
    BY <1>1, <1>5, NextLineFrames
  <2> QED
    BY <1>3, <1>4, <2>1, <2>2
<1>6. CASE ~NextLine
  <2>1. handled' = handled /\ shuttingDown' = shuttingDown
    BY <1>6
    DEF Next, LoopStep, Ready, Crash, ReadChunk, EndOfStdin, CloseReturns, Drain,
        CloseNext,
        CloseGoesOn, ControlSettles, PumpEnds, CallElixir, CallTimeout, Write, CloseStdin,
        frameVars
  <2>2. loop' \in {"starting", "reading"} => loop \in {"starting", "reading"}
    BY <1>6
    DEF Next, LoopStep, Ready, Crash, ReadChunk, EndOfStdin, CloseReturns, Drain,
        CloseNext,
        CloseGoesOn, ControlSettles, PumpEnds, CallElixir, CallTimeout, Write, CloseStdin
  <2> QED
    BY <1>3, <2>1, <2>2
<1> QED
  BY <1>5, <1>6

LEMMA ToldStep ==
  ASSUME IInv, Next
  PROVE  ToldWasHandled'
<1>1. TypeOK /\ WrittenOnce /\ FramesAreWhole /\ ToldWasHandled
  BY DEF IInv
<1>2. handled \in Seq(Lines) /\ told \in [RequestLines -> {"unasked", "waiting"} \cup Told]
  BY <1>1 DEF TypeOK
<1>3. ASSUME handled' = handled,
             \A l \in RequestLines : told'[l] # "unasked" => told[l] # "unasked"
      PROVE  ToldWasHandled'
  BY <1>1, <1>3 DEF ToldWasHandled
<1>4. ASSUME NEW l \in Lines, Body(l) PROVE ToldWasHandled'
  <2>1. handled' = Append(handled, l)
    BY <1>1, <1>4, BodyIs
  <2>2. \/ told' = told
        \/ l \in RequestLines /\ \E answer \in {"waiting", "result", "error"} : Answered(l, answer)
    BY <1>1, <1>4, BodyIs
  <2>3. ToSet(handled') = ToSet(handled) \cup {l}
    <3>1. /\ DOMAIN handled = 1 .. Len(handled) /\ Len(handled) \in Nat
          /\ DOMAIN handled' = 1 .. Len(handled) + 1
          /\ \A i \in 1 .. Len(handled) : handled'[i] = handled[i]
          /\ handled'[Len(handled) + 1] = l
          /\ \A i \in 1 .. Len(handled) + 1 : i \in 1 .. Len(handled) \/ i = Len(handled) + 1
          /\ \A i \in 1 .. Len(handled) : i \in 1 .. Len(handled) + 1
          /\ Len(handled) + 1 \in 1 .. Len(handled) + 1
      BY <1>2, <2>1
    <3> QED
      BY <3>1 DEF ToSet
  <2>4. \A m \in RequestLines : told'[m] # "unasked" => told[m] # "unasked" \/ m = l
    BY <1>2, <2>2 DEF Answered
  <2>5. \A m \in RequestLines : told'[m] # "unasked" => m \in ToSet(handled')
    BY <1>1, <2>3, <2>4 DEF ToldWasHandled
  <2>6. ToSet(handled') = ToSet(handled)'
    BY DEF ToSet
  <2> QED
    BY <2>5, <2>6 DEF ToldWasHandled
<1>5. CASE NextLine
  <2>1. \/ UNCHANGED <<handled, told>>
        \/ \E l \in Lines : Body(l)
    BY <1>1, <1>5, NextLineFrames
  <2> QED
    BY <1>3, <1>4, <2>1
<1>6. CASE ~NextLine
  <2>1. handled' = handled
    BY <1>6
    DEF Next, LoopStep, Ready, Crash, ReadChunk, EndOfStdin, CloseReturns, Drain,
        CloseNext,
        CloseGoesOn, ControlSettles, PumpEnds, CallElixir, CallTimeout, Write, CloseStdin,
        frameVars
  <2>2. CASE told' = told
    BY <1>3, <2>1, <2>2
  <2>3. CASE told' = Lost(told)
    <3>1. \A l \in RequestLines : told'[l] # "unasked" => told[l] # "unasked"
      BY <1>2, <2>3 DEF Lost
    <3> QED
      BY <1>3, <2>1, <3>1
  <2>4. CASE \E l \in RequestLines, answer \in {"result", "error"} :
               told[l] = "waiting" /\ Answered(l, answer)
    <3>1. \A l \in RequestLines : told'[l] # "unasked" => told[l] # "unasked"
      BY <1>2, <2>4 DEF Answered
    <3> QED
      BY <1>3, <2>1, <3>1
  <2>5. \/ told' = told
        \/ told' = Lost(told)
        \/ \E l \in RequestLines, answer \in {"result", "error"} :
              told[l] = "waiting" /\ Answered(l, answer)
    <3>1. ASSUME NEW l \in RequestLines, CloseGoesOn(l) \/ ControlSettles(l)
          PROVE  \E answer \in {"result", "error"} : told[l] = "waiting" /\ Answered(l,
                 answer)
      BY <3>1 DEF CloseGoesOn, ControlSettles
    <3>2. CASE \E l \in RequestLines : CloseGoesOn(l) \/ ControlSettles(l)
      BY <3>1, <3>2
    <3>3. CASE ~ \E l \in RequestLines : CloseGoesOn(l) \/ ControlSettles(l)
      BY <1>6, <3>3
      DEF Next, LoopStep, Ready, Crash, ReadChunk, EndOfStdin, CloseReturns, Drain,
          CloseNext,
          PumpEnds, CallElixir, CallTimeout, Write, CloseStdin
    <3> QED
      BY <3>2, <3>3
  <2> QED
    BY <2>2, <2>3, <2>4, <2>5
<1> QED
  BY <1>5, <1>6

\* The facts about one session that a step has to keep.
LEMMA SessionKept ==
  ASSUME NEW s \in Sessions, SessionInv(s), ToSet(handled) \subseteq ToSet(handled'),
         pump'[s] = pump[s], closed'[s] = closed[s],
         s \in sessions' <=> s \in sessions, s \in visited' <=> s \in visited,
         loop' \notin {"exited", "crashed"} => Up,
         loop' \notin {"exited", "crashed"} /\ closing = s =>
           closing' = s \/ pump[s] # "running",
         loop' \notin {"exited", "crashed"} /\ BeingClosed(s) => BeingClosed(s)'
  PROVE  SessionInv(s)'
<1>1. WasCreated(s) => WasCreated(s)'
  <2>1. ToSet(handled)' = ToSet(handled')
    BY DEF ToSet
  <2> QED
    BY <2>1 DEF WasCreated
<1>2. Up' <=> loop' \notin {"exited", "crashed"}
  BY DEF Up
<1>3. ASSUME Up', pump'[s] = "running"
      PROVE  /\ s \in sessions' \/ BeingClosed(s)'
             /\ closed'[s] => closing' = s \/ BeingClosed(s)'
  BY <1>2, <1>3 DEF SessionInv
<1>4. /\ pump'[s] = "none" => ~closed'[s] /\ s \notin sessions'
      /\ pump'[s] # "none" => WasCreated(s)'
      /\ s \in visited' => closed'[s]
  BY <1>1 DEF SessionInv
<1> QED
  BY <1>3, <1>4 DEF SessionInv

LEMMA BodySessions ==
  ASSUME IInv, loop = "reading", NEW l \in Lines \ ToSet(handled), Body(l),
         UNCHANGED endVars, NEW s \in Sessions
  PROVE  SessionInv(s)'
<1>1. /\ TypeOK /\ ToldWasHandled /\ SessionInv(s)
  BY DEF IInv
<1>2. visited' = visited /\ closing' = closing
  BY DEF endVars
<1>3. handled' = Append(handled, l)
  BY <1>1, BodyIs
<1>4. ToSet(handled') = ToSet(handled) \cup {l}
  <2>1. handled \in Seq(Lines)
    BY <1>1 DEF TypeOK
  <2>2. /\ DOMAIN handled = 1 .. Len(handled) /\ Len(handled) \in Nat
        /\ DOMAIN handled' = 1 .. Len(handled) + 1
        /\ \A i \in 1 .. Len(handled) : handled'[i] = handled[i]
        /\ handled'[Len(handled) + 1] = l
        /\ \A i \in 1 .. Len(handled) + 1 : i \in 1 .. Len(handled) \/ i = Len(handled) + 1
        /\ \A i \in 1 .. Len(handled) : i \in 1 .. Len(handled) + 1
        /\ Len(handled) + 1 \in 1 .. Len(handled) + 1
    BY <1>3, <2>1
  <2> QED
    BY <2>2 DEF ToSet
<1>5. Up
  BY DEF Up
<1>6. told \in [RequestLines -> {"unasked", "waiting"} \cup Told]
      /\ closed \in [Sessions -> BOOLEAN]
      /\ pump \in [Sessions -> {"none", "running", "ended"}]
  BY <1>1 DEF TypeOK
\* l has been told nothing yet, so that its answer is not taken from any other.
<1>7. BeingClosed(s) => BeingClosed(s)'
  <2> SUFFICES ASSUME BeingClosed(s) PROVE BeingClosed(s)'
    OBVIOUS
  <2>1. PICK m \in RequestLines : Kind[m] = "session.close" /\ Target[m] = s /\ told[m] = "waiting"
    BY DEF BeingClosed
  <2>2. m # l
    BY <1>1, <2>1 DEF ToldWasHandled
  <2>3. \/ told' = told
        \/ \E answer \in {"waiting", "result", "error"} : Answered(l, answer)
    BY <1>1, BodyIs
  <2>4. told'[m] = "waiting"
    BY <1>6, <2>1, <2>2, <2>3 DEF Answered
  <2> QED
    BY <2>1, <2>4 DEF BeingClosed
<1>8. ASSUME pump'[s] = pump[s], closed'[s] = closed[s], s \in sessions' <=> s \in sessions
      PROVE  SessionInv(s)'
  BY <1>1, <1>2, <1>4, <1>5, <1>7, <1>8, SessionKept
<1>9. CASE UNCHANGED sessionVars
  BY <1>8, <1>9 DEF sessionVars
<1>10. CASE DispatchCreate(l)
  <2>1. CASE UNCHANGED sessionVars
    BY <1>8, <2>1 DEF sessionVars
  <2>2. CASE ~UNCHANGED sessionVars
    <3>1. /\ Kind[l] = "session.create"
          /\ sessions' = sessions \cup {Target[l]}
          /\ pump' = [pump EXCEPT ![Target[l]] = "running"]
          /\ closed' = closed
      BY <1>10, <2>2 DEF DispatchCreate
    <3>2. CASE s # Target[l]
      BY <1>6, <1>8, <3>1, <3>2
    <3>3. CASE s = Target[l]
      <4>1. ~WasCreated(s)
        <5> SUFFICES ASSUME NEW m \in ToSet(handled), Kind[m] = "session.create",
                            Target[m] = s
                     PROVE  FALSE
          BY DEF WasCreated
        <5>1. m \in Lines
          BY <1>1 DEF TypeOK, ToSet
        <5>2. \A x, y \in Lines : Kind[x] = "session.create" /\ Kind[y] = "session.create"
                                  /\ Target[x] = Target[y] => x = y
          BY SidecarLoopAssumption
        <5> QED
          BY <3>1, <3>3, <5>1, <5>2
      <4>2. pump[s] = "none" /\ ~closed[s] /\ s \notin visited
        BY <1>1, <1>6, <4>1 DEF SessionInv
      <4>3. pump'[s] = "running" /\ ~closed'[s] /\ s \in sessions' /\ s \notin visited'
        BY <1>2, <1>6, <3>1, <3>3, <4>2
      <4>4. WasCreated(s)'
        <5>1. l \in ToSet(handled)'
          BY <1>4 DEF ToSet
        <5> QED
          BY <3>1, <3>3, <5>1 DEF WasCreated
      <4> QED
        BY <4>3, <4>4 DEF SessionInv
    <3> QED
      BY <3>2, <3>3
  <2> QED
    BY <2>1, <2>2
<1>11. CASE DispatchClose(l)
  <2>1. /\ Kind[l] = "session.close" /\ pump' = pump
        /\ \/ UNCHANGED <<sessions, closed>>
           \/ /\ Target[l] \in sessions /\ closed[Target[l]]
              /\ sessions' = sessions \ {Target[l]} /\ closed' = closed
           \/ /\ Target[l] \in sessions /\ ~closed[Target[l]]
              /\ closed' = [closed EXCEPT ![Target[l]] = TRUE]
              /\ Answered(l, "waiting") /\ sessions' = sessions
    BY <1>11 DEF DispatchClose
  <2>2. l \in RequestLines
    BY <2>1 DEF RequestLines, ElixirMethods, SessionMethods
  <2>3. CASE s # Target[l]
    BY <1>6, <1>8, <2>1, <2>3
  <2>4. CASE s = Target[l] /\ UNCHANGED <<sessions, closed>>
    BY <1>8, <2>1, <2>4
  <2>5. CASE s = Target[l] /\ closed[s] /\ sessions' = sessions \ {s} /\ closed' = closed
    \* While loop = "reading" nothing is being closed but by a session.close.
    <3>1. WasCreated(s) => WasCreated(s)'
      <4>1. ToSet(handled)' = ToSet(handled')
        BY DEF ToSet
      <4> QED
        BY <1>4, <4>1 DEF WasCreated
    <3>2. Up /\ pump[s] = "running" => BeingClosed(s) \/ closing = s
      BY <1>1, <2>5 DEF SessionInv
    <3>3. closing # s
      BY SidecarLoopAssumption DEF IInv, ClosesAfterLoop
    <3> QED
      BY <1>1, <1>2, <1>5, <1>7, <2>1, <2>5, <3>1, <3>2, <3>3 DEF SessionInv
  <2>6. CASE s = Target[l] /\ ~closed[s] /\ s \in sessions
             /\ closed' = [closed EXCEPT ![s] = TRUE]
             /\ Answered(l, "waiting") /\ sessions' = sessions
    <3>1. BeingClosed(s)'
      <4>1. told'[l] = "waiting"
        BY <1>6, <2>2, <2>6 DEF Answered
      <4> QED
        BY <2>1, <2>2, <2>6, <4>1 DEF BeingClosed
    <3>2. pump'[s] # "none" /\ WasCreated(s)' /\ closed'[s]
      <4>1. WasCreated(s) => WasCreated(s)'
        <5>1. ToSet(handled)' = ToSet(handled')
          BY DEF ToSet
        <5> QED
          BY <1>4, <5>1 DEF WasCreated
      <4> QED
        BY <1>1, <1>6, <2>1, <2>6, <4>1 DEF SessionInv
    <3> QED
      BY <3>1, <3>2 DEF SessionInv
  <2> QED
    BY <2>1, <2>3, <2>4, <2>5, <2>6
<1> QED
  BY <1>1, <1>9, <1>10, <1>11, BodyIs

LEMMA Sessionwise ==
  ASSUME IInv, Next, NEW s \in Sessions
  PROVE  SessionInv(s)'
<1>1. TypeOK /\ WrittenOnce /\ FramesAreWhole /\ SessionInv(s)
  BY DEF IInv
<1>2. /\ told \in [RequestLines -> {"unasked", "waiting"} \cup Told]
      /\ closed \in [Sessions -> BOOLEAN]
      /\ pump \in [Sessions -> {"none", "running", "ended"}]
  BY <1>1 DEF TypeOK
<1>3. Up <=> loop \notin {"exited", "crashed"}
  BY DEF Up
<1>4. ASSUME handled' = handled
      PROVE  ToSet(handled) \subseteq ToSet(handled')
  BY <1>4
<1>5. ASSUME told' = told
      PROVE  BeingClosed(s) => BeingClosed(s)'
  BY <1>5 DEF BeingClosed
<1>6. ASSUME handled' = handled, UNCHANGED <<sessionVars, endVars, told>>,
             loop' \notin {"exited", "crashed"} => Up
      PROVE  SessionInv(s)'
  BY <1>1, <1>4, <1>5, <1>6, SessionKept DEF sessionVars, endVars
<1>7. CASE Ready
  BY <1>3, <1>6, <1>7 DEF Ready, frameVars
<1>8. CASE ReadChunk
  BY <1>3, <1>6, <1>8 DEF ReadChunk
<1>9. CASE EndOfStdin
  BY <1>3, <1>6, <1>9 DEF EndOfStdin, frameVars
<1>10. CASE CloseStdin
  BY <1>3, <1>6, <1>10 DEF CloseStdin, frameVars
<1>11. ASSUME NEW l \in Lines, Write(l) PROVE SessionInv(s)'
  BY <1>3, <1>6, <1>11 DEF Write, frameVars
<1>12. ASSUME NEW a \in Asks, CallElixir(a) \/ CallTimeout(a) PROVE SessionInv(s)'
  BY <1>3, <1>6, <1>12 DEF CallElixir, CallTimeout, frameVars
<1>13. CASE Crash
  <2>1. loop' = "crashed" /\ handled' = handled /\ UNCHANGED <<sessionVars, endVars>>
    BY <1>13 DEF Crash, frameVars
  <2> QED
    BY <1>1, <1>4, <2>1, SessionKept DEF sessionVars, endVars
<1>14. CASE Drain
  <2>1. /\ Up /\ handled' = handled /\ UNCHANGED <<sessionVars, endVars>>
        /\ loop' = "exited" \/ told' = told
    BY <1>14 DEF Drain, frameVars, Up
  <2> QED
    BY <1>1, <1>4, <1>5, <2>1, SessionKept DEF sessionVars, endVars
<1>15. CASE CloseReturns
  <2>1. /\ Up /\ handled' = handled /\ UNCHANGED <<sessionVars, told, visited>>
        /\ closing = s => pump[s] # "running"
    BY <1>15 DEF CloseReturns, frameVars
  <2> QED
    BY <1>1, <1>4, <1>5, <2>1, SessionKept DEF sessionVars
<1>16. CASE NextLine
  <2>1. loop = "reading" /\ UNCHANGED endVars
    BY <1>16 DEF NextLine
  <2>2. \/ UNCHANGED <<handled, loop, shuttingDown, sessionVars, told, ask>>
        \/ \E l \in Lines \ ToSet(handled) : Body(l)
    BY <1>1, <1>16, NextLineFrames
  <2>3. CASE UNCHANGED <<handled, loop, shuttingDown, sessionVars, told, ask>>
    BY <1>3, <1>6, <2>1, <2>3
  <2> QED
    BY <2>1, <2>2, <2>3, BodySessions
<1>17. ASSUME NEW l \in RequestLines, CloseGoesOn(l) PROVE SessionInv(s)'
  <2>1. /\ Up /\ handled' = handled /\ UNCHANGED <<closed, pump, endVars>>
        /\ Kind[l] = "session.close" /\ pump[Target[l]] = "ended"
        /\ sessions' = sessions \ {Target[l]}
        /\ Answered(l, "result")
    BY <1>17 DEF CloseGoesOn, frameVars
  <2>2. CASE s = Target[l]
    <3>1. WasCreated(s) => WasCreated(s)'
      BY <2>1 DEF WasCreated, ToSet
    <3>2. pump'[s] = "ended" /\ closed'[s] = closed[s] /\ visited' = visited
      BY <2>1, <2>2 DEF endVars
    <3> QED
      BY <1>1, <2>1, <2>2, <3>1, <3>2 DEF SessionInv
  <2>3. CASE s # Target[l]
    <3>1. BeingClosed(s) => BeingClosed(s)'
      <4> SUFFICES ASSUME NEW m \in RequestLines, Kind[m] = "session.close",
                          Target[m] = s, told[m] = "waiting"
                   PROVE  told'[m] = "waiting"
        BY DEF BeingClosed
      <4> QED
        BY <1>2, <2>1, <2>3 DEF Answered
    <3> QED
      BY <1>1, <1>4, <2>1, <2>3, <3>1, SessionKept DEF endVars
  <2> QED
    BY <2>2, <2>3
<1>18. ASSUME NEW l \in RequestLines, ControlSettles(l) PROVE SessionInv(s)'
  <2>1. /\ Up /\ handled' = handled /\ UNCHANGED <<sessionVars, endVars>>
        /\ Kind[l] = "session.control"
        /\ \E answer \in {"result", "error"} : Answered(l, answer)
    BY <1>18 DEF ControlSettles, frameVars
  <2>2. BeingClosed(s) => BeingClosed(s)'
    <3> SUFFICES ASSUME NEW m \in RequestLines, Kind[m] = "session.close",
                        Target[m] = s, told[m] = "waiting"
                 PROVE  told'[m] = "waiting"
      BY DEF BeingClosed
    <3> QED
      BY <1>2, <2>1 DEF Answered
  <2> QED
    BY <1>1, <1>4, <2>1, <2>2, SessionKept DEF sessionVars, endVars
<1>19. ASSUME NEW p \in Sessions, PumpEnds(p) PROVE SessionInv(s)'
  <2>1. /\ Up /\ handled' = handled /\ UNCHANGED <<sessions, told, endVars>>
        /\ pump[p] = "running"
        /\ pump' = [pump EXCEPT ![p] = "ended"]
        /\ closed' \in {closed, [closed EXCEPT ![p] = TRUE]}
    BY <1>19 DEF PumpEnds, frameVars
  <2>2. CASE s = p
    <3>1. WasCreated(s) => WasCreated(s)'
      BY <2>1 DEF WasCreated, ToSet
    <3>2. /\ pump'[s] = "ended" /\ pump[s] = "running" /\ visited' = visited
          /\ closed[s] => closed'[s]
      BY <1>2, <2>1, <2>2 DEF endVars
    <3> QED
      BY <1>1, <3>1, <3>2 DEF SessionInv
  <2>3. CASE s # p
    <3>1. pump'[s] = pump[s] /\ closed'[s] = closed[s]
      BY <1>2, <2>1, <2>3
    <3> QED
      BY <1>1, <1>4, <1>5, <2>1, <3>1, SessionKept DEF endVars
  <2> QED
    BY <2>2, <2>3
<1>20. ASSUME NEW p \in Sessions, CloseNext(p) PROVE SessionInv(s)'
  <2>1. /\ loop = "closing" /\ loop' = loop /\ closing = Nil /\ handled' = handled
        /\ UNCHANGED <<sessions, pump, told>>
        /\ p \in sessions
        /\ visited' = visited \cup {p}
        /\ closed' = [closed EXCEPT ![p] = TRUE]
        /\ closing' = IF closed[p] THEN Nil ELSE p
    BY <1>20 DEF CloseNext, AwaitClose, frameVars
  <2>2. CASE s = p
    <3>1. WasCreated(s) => WasCreated(s)'
      BY <2>1 DEF WasCreated, ToSet
    <3>2. /\ pump'[s] = pump[s] /\ pump[s] # "none" /\ closed'[s]
          /\ s \in sessions'
      BY <1>1, <1>2, <2>1, <2>2 DEF SessionInv
    <3>3. Up /\ closing # s
      BY <2>1, SidecarLoopAssumption DEF Up
    <3>4. pump[s] = "running" => closing' = s \/ BeingClosed(s)
      BY <1>1, <2>1, <2>2, <3>3 DEF SessionInv
    <3> QED
      BY <1>1, <1>5, <2>1, <3>1, <3>2, <3>4 DEF SessionInv
  <2>3. CASE s # p
    <3>1. closed'[s] = closed[s] /\ (s \in visited' <=> s \in visited) /\ Up /\ closing # s
      BY <1>2, <2>1, <2>3, SidecarLoopAssumption DEF Up
    <3> QED
      BY <1>1, <1>4, <1>5, <2>1, <3>1, SessionKept
  <2> QED
    BY <2>2, <2>3
<1> QED
  BY <1>7, <1>8, <1>9, <1>10, <1>11, <1>12, <1>13, <1>14, <1>15, <1>16, <1>17, <1>18,
     <1>19,
     <1>20
  DEF Next, LoopStep

LEMMA ClosesStep ==
  ASSUME IInv, Next
  PROVE  ClosesAfterLoop'
<1>1. TypeOK /\ WrittenOnce /\ FramesAreWhole /\ ClosesAfterLoop
  BY DEF IInv
<1>2. CASE NextLine
  <2>1. loop = "reading" /\ closing' = closing
    BY <1>2 DEF NextLine, endVars
  <2> QED
    BY <1>1, <2>1 DEF ClosesAfterLoop
<1>3. CASE \E s \in Sessions : CloseNext(s)
  BY <1>3 DEF CloseNext, ClosesAfterLoop
<1>4. CASE CloseReturns
  BY <1>4 DEF CloseReturns, ClosesAfterLoop
<1>5. CASE ~NextLine /\ ~CloseReturns /\ ~ \E s \in Sessions : CloseNext(s)
  <2>1. closing' = closing
    BY <1>5
    DEF Next, LoopStep, Ready, Crash, ReadChunk, EndOfStdin, Drain, CloseGoesOn,
        ControlSettles, PumpEnds, CallElixir, CallTimeout, Write, CloseStdin, endVars
  <2>2. loop' \in {"starting", "reading"} => loop \in {"starting", "reading"}
    BY <1>5
    DEF Next, LoopStep, Ready, Crash, ReadChunk, EndOfStdin, Drain, CloseGoesOn,
        ControlSettles, PumpEnds, CallElixir, CallTimeout, Write, CloseStdin
  <2> QED
    BY <1>1, <2>1, <2>2 DEF ClosesAfterLoop
<1> QED
  BY <1>2, <1>3, <1>4, <1>5

LEMMA ExitStep ==
  ASSUME IInv, Next
  PROVE  ExitIsClean'
<1>1. TypeOK /\ WrittenOnce /\ FramesAreWhole /\ \A s \in Sessions : SessionInv(s)
  BY DEF IInv
<1>2. CASE Drain
  <2> SUFFICES ASSUME loop' = "exited" PROVE ExitIsClean'
    BY DEF ExitIsClean
  <2>1. /\ loop = "closing" /\ closing = Nil /\ sessions \subseteq visited
        /\ ask' = [a \in Asks |-> IF ask[a] = "waiting" THEN "drained" ELSE ask[a]]
        /\ told' = Lost(told)
        /\ pump' = pump
    BY <1>2 DEF Drain, sessionVars
  <2>2. \A a \in Asks : ask'[a] # "waiting"
    BY <2>1
  <2>3. ASSUME NEW s \in Sessions, pump[s] = "running" PROVE CloseOvertaken(s)'
    <3>1. Up /\ closing # s
      BY <2>1, SidecarLoopAssumption DEF Up
    <3>2. BeingClosed(s)
      BY <1>1, <2>1, <2>3, <3>1 DEF SessionInv
    <3>3. PICK l \in RequestLines : Kind[l] = "session.close" /\ Target[l] = s /\ told[l] = "waiting"
      BY <3>2 DEF BeingClosed
    <3>4. told'[l] = "lost"
      <4>1. DOMAIN told = RequestLines
        BY <1>1 DEF TypeOK
      <4> QED
        BY <2>1, <3>3, <4>1 DEF Lost
    <3> QED
      BY <3>3, <3>4 DEF CloseOvertaken
  <2> QED
    BY <2>1, <2>2, <2>3 DEF ExitIsClean
<1>3. CASE ~Drain
  <2>1. loop' # "exited"
    <3>1. CASE NextLine
      <4>1. loop = "reading"
        BY <3>1 DEF NextLine
      <4>2. \/ loop' = loop
            \/ \E l \in Lines \ ToSet(handled) : Body(l)
        BY <1>1, <3>1, NextLineFrames
      <4> QED
        BY <1>1, <4>1, <4>2, BodyIs
    <3>2. CASE ~NextLine
      BY <1>3, <3>2
      DEF Next, LoopStep, Ready, Crash, ReadChunk, EndOfStdin, CloseReturns, CloseNext,
          CloseGoesOn, ControlSettles, PumpEnds, CallElixir, CallTimeout, Write, CloseStdin, Up
    <3> QED
      BY <3>1, <3>2
  <2> QED
    BY <2>1 DEF ExitIsClean
<1> QED
  BY <1>2, <1>3

-----------------------------------------------------------------------------
(***************************************************************************)
(* The theorems.                                                           *)
(***************************************************************************)

LEMMA InitInv == Init => IInv
<1> SUFFICES ASSUME Init PROVE IInv
  OBVIOUS
<1> USE DEF Init
<1>1. << >> \in Seq(Lines) /\ << >> \in Seq(Symbols)
  OBVIOUS
<1>2. TypeOK
  BY <1>1 DEF TypeOK
<1>3. /\ written = << >> /\ handled = << >> /\ buffer = << >> /\ stdin = << >>
      /\ DOMAIN written = {} /\ DOMAIN handled = {}
  OBVIOUS
<1>4. FramesAreWhole
  <2>1. SubSeq(<< >>, 1, 0) = << >> /\ Len(<< >>) = 0 /\ << >> \o << >> = << >>
    OBVIOUS
  <2>2. Encoded(<< >>) = << >>
    BY <1>1, EncodedType
  <2>3. ToSet(handled) = {} /\ 1 .. 0 = {}
    BY <1>3 DEF ToSet
  <2> HIDE DEF Init
  <2>4. GivenOf(0, handled, written)
    BY <1>3, <2>3 DEF GivenOf
  <2>5. Encoded(SubSeq(written, 0 + 1, Len(written))) = << >> /\ buffer \o stdin = << >>
    <3>1. Len(written) = 0 /\ 0 + 1 = 1
      BY <1>3, <2>1
    <3>2. SubSeq(written, 0 + 1, Len(written)) = << >>
      BY <1>3, <2>1, <3>1
    <3>3. buffer \o stdin = << >>
      BY <1>3, <2>1
    <3> QED
      BY <2>2, <3>2, <3>3
  <2>6. IsPrefix(<< >>, << >>)
    BY DEF IsPrefix
  <2>7. UnderWay(0, buffer \o stdin, written, eof)
    BY <2>5, <2>6 DEF UnderWay
  <2>8. 0 \in 0 .. Len(written)
    BY <1>3
  <2> QED
    BY <2>4, <2>7, <2>8, TwoParts
<1>5. WrittenOnce /\ BreaksInTime /\ OneRequestAfterShutdown
  BY <1>3 DEF WrittenOnce, BreaksInTime, OneRequestAfterShutdown
<1>6. ToldWasHandled /\ ExitIsClean /\ ClosesAfterLoop
  BY DEF ToldWasHandled, ExitIsClean, ClosesAfterLoop
<1>7. \A s \in Sessions : SessionInv(s)
  BY DEF SessionInv
<1> QED
  BY <1>2, <1>4, <1>5, <1>6, <1>7 DEF IInv

LEMMA StepInv == IInv /\ [Next]_vars => IInv'
<1> SUFFICES ASSUME IInv, [Next]_vars PROVE IInv'
  OBVIOUS
<1>1. CASE Next
  <2>1. TypeOK' /\ WrittenOnce' /\ FramesAreWhole'
    BY <1>1, TypeStep, FrameStep DEF IInv
  <2>2. ToldWasHandled' /\ ClosesAfterLoop' /\ ExitIsClean'
    BY <1>1, ToldStep, ClosesStep, ExitStep
  <2>3. BreaksInTime' /\ OneRequestAfterShutdown'
    BY <1>1, Breaks
  <2>4. \A s \in Sessions : SessionInv(s)'
    BY <1>1, Sessionwise
  <2> QED
    BY <2>1, <2>2, <2>3, <2>4 DEF IInv
<1>2. CASE UNCHANGED vars
  <2>1. /\ written' = written /\ stdin' = stdin /\ eof' = eof /\ buffer' = buffer
        /\ handled' = handled /\ loop' = loop /\ shuttingDown' = shuttingDown
        /\ sessions' = sessions /\ closed' = closed /\ pump' = pump
        /\ visited' = visited /\ closing' = closing /\ told' = told /\ ask' = ask
    BY <1>2 DEF vars, stdinVars, frameVars, sessionVars, endVars
  <2>2. TypeOK'
    BY <2>1 DEF IInv, TypeOK
  <2>3. WrittenOnce' /\ FramesAreWhole'
    BY <2>1, FlowKept DEF IInv
  <2>4. BreaksInTime' /\ OneRequestAfterShutdown'
    BY <2>1 DEF IInv, BreaksInTime, OneRequestAfterShutdown
  <2>5. ToldWasHandled' /\ ClosesAfterLoop'
    BY <2>1 DEF IInv, ToldWasHandled, ClosesAfterLoop, ToSet
  <2>6. ExitIsClean'
    BY <2>1 DEF IInv, ExitIsClean, CloseOvertaken
  <2>7. \A s \in Sessions : SessionInv(s)'
    BY <2>1 DEF IInv, SessionInv, WasCreated, BeingClosed, Up, ToSet
  <2> QED
    BY <2>2, <2>3, <2>4, <2>5, <2>6, <2>7 DEF IInv
<1> QED
  BY <1>1, <1>2

\* The invariant holds in every state of the process.
THEOREM Invariance == Spec => []IInv
<1> QED
  BY InitInv, StepInv, PTL DEF Spec

\* The state of main and readFrames keeps its shape (index.ts:46-99, framing.ts:24-48).
THEOREM TypeCorrect == Spec => []TypeOK
<1>1. IInv => TypeOK
  BY DEF IInv
<1> QED
  BY <1>1, Invariance, PTL

\* readFrames gives the loop every frame that was written, once and in order, for every
\* number of lines, order of lines and cutting into chunks (framing.ts:24-48).
THEOREM WholeFrames == Spec => []FramesAreWhole
<1>1. IInv => FramesAreWhole
  BY DEF IInv
<1> QED
  BY <1>1, Invariance, PTL

\* The loop dispatches one request at most after a shutdown (index.ts:80-84).
THEOREM OneMoreRequest == Spec => []OneRequestAfterShutdown
<1>1. IInv => OneRequestAfterShutdown
  BY DEF IInv
<1> QED
  BY <1>1, Invariance, PTL

\* process.exit leaves no query that runs, unless a session.close is closing it, and no
\* request to Elixir (index.ts:87-98).
THEOREM CleanExit == Spec => []ExitIsClean
<1>1. IInv => ExitIsClean
  BY DEF IInv
<1> QED
  BY <1>1, Invariance, PTL

=============================================================================
