-------------------------- MODULE FaceText_proofs --------------------------
(***************************************************************************)
(* Lemmas about the text of a face, for any font: what splitting, wrapping *)
(* and formatting return.  They are loops over runes, words and digits,    *)
(* which the module writes as recursive functions; what is known of them   *)
(* comes from an induction over the natural numbers, in the form that a    *)
(* non-empty set of them has a least element.                              *)
(***************************************************************************)
EXTENDS Face, SequenceTheorems, WellFoundedInduction, TLAPS

-----------------------------------------------------------------------------
(* Induction and recursion *)

(* A non-empty set of natural numbers has a least element. *)
LEMMA Least ==
  ASSUME NEW T \in SUBSET Nat, T # {}
  PROVE  \E x \in T : \A y \in T : x <= y
<1> DEFINE R == OpToRel(<, Nat)
<1>1. IsWellFoundedOn(R, Nat)
  BY NatLessThanWellFounded
<1> HIDE DEF R
<1>2. \E x \in T : \A y \in T : ~(<<y, x>> \in R)
  BY <1>1, WFMin, Zenon
<1>3. \A x, y \in Nat : y < x => <<y, x>> \in R
  BY DEF R, OpToRel
<1>4. PICK x \in T : \A y \in T : ~(<<y, x>> \in R)
  BY <1>2
<1>5. ASSUME NEW y \in T PROVE x <= y
  <2>1. x \in Nat /\ y \in Nat
    OBVIOUS
  <2>2. ~(y < x)
    BY <1>3, <1>4, <2>1, Zenon
  <2> QED
    BY <2>1, <2>2
<1> QED
  BY <1>5

(* Induction up to N, over a set in place of a predicate. *)
LEMMA Induction ==
  ASSUME NEW N \in Nat, NEW T,
         0 \in T, \A k \in 1 .. N : k - 1 \in T => k \in T
  PROVE  \A k \in 0 .. N : k \in T
<1> SUFFICES ASSUME NEW k \in 0 .. N, k \notin T PROVE FALSE
  OBVIOUS
<1> DEFINE U == {m \in 0 .. N : m \notin T}
<1>0. k \in U /\ U \in SUBSET Nat
  OBVIOUS
<1>1. PICK x \in U : \A y \in U : x <= y
  <2> HIDE DEF U
  <2> QED
    BY <1>0, Least
<1>2. x \in 1 .. N /\ x - 1 \in 0 .. N
  BY <1>1
<1>3. x - 1 \in T
  BY <1>1, <1>2
<1> QED
  BY <1>1, <1>2, <1>3

(* A loop that runs N times: F takes the state and the number of the turn. *)
IsLoop(g, N, V, c, F) ==
  /\ g \in [0 .. N -> V] /\ g[0] = c
  /\ \A k \in 1 .. N : g[k] = F[<<g[k - 1], k>>]

LEMMA Loop ==
  ASSUME NEW N \in Nat, NEW V, NEW c \in V, NEW F \in [V \X (1 .. N) -> V]
  PROVE  \E g : IsLoop(g, N, V, c, F)
<1> DEFINE Runs(g, n) ==
             /\ g \in [0 .. n -> V] /\ g[0] = c
             /\ \A k \in 1 .. n : g[k] = F[<<g[k - 1], k>>]
           T == {n \in 0 .. N : \E g : Runs(g, n)}
<1>1. 0 \in T
  <2>1. Runs([k \in 0 .. 0 |-> c], 0)
    OBVIOUS
  <2> HIDE DEF Runs
  <2> QED
    BY <2>1
<1>2. ASSUME NEW n \in 1 .. N, n - 1 \in T PROVE n \in T
  <2>1. PICK g : Runs(g, n - 1)
    BY <1>2
  <2> DEFINE h == [k \in 0 .. n |-> IF k = n THEN F[<<g[n - 1], n>>] ELSE g[k]]
  <2>2. F[<<g[n - 1], n>>] \in V
    BY <2>1
  <2>3. h \in [0 .. n -> V] /\ h[0] = c
    BY <2>1, <2>2
  <2>4. ASSUME NEW k \in 1 .. n PROVE h[k] = F[<<h[k - 1], k>>]
    <3>1. CASE k = n
      BY <3>1, <2>1
    <3>2. CASE k # n
      BY <3>2, <2>1
    <3> QED
      BY <3>1, <3>2
  <2>5. Runs(h, n)
    BY <2>3, <2>4
  <2> HIDE DEF Runs
  <2> QED
    BY <2>5
<1> HIDE DEF T
<1>3. N \in T
  BY <1>1, <1>2, Induction
<1> QED
  BY <1>3 DEF T, IsLoop

(* Two loops with the same start and the same turns run the same. *)
LEMMA Agree ==
  ASSUME NEW N \in Nat, NEW g, NEW h, h[0] = g[0],
         \A k \in 1 .. N : h[k - 1] = g[k - 1] => h[k] = g[k]
  PROVE  \A k \in 0 .. N : h[k] = g[k]
<1> DEFINE T == {k \in 0 .. N : h[k] = g[k]}
<1>1. 0 \in T /\ \A k \in 1 .. N : k - 1 \in T => k \in T
  OBVIOUS
<1> HIDE DEF T
<1>2. \A k \in 0 .. N : k \in T
  BY <1>1, Induction
<1> QED
  BY <1>2 DEF T

-----------------------------------------------------------------------------
(* Reading lines *)

(* The loop of Joined, over runes of any kind to which the blank belongs. *)
JoinLoop(g, lines, R) ==
  /\ g \in [0 .. Len(lines) -> Seq(R)]
  /\ g[0] = <<>>
  /\ \A k \in 1 .. Len(lines) :
       g[k] = IF k = 1 THEN lines[1] ELSE g[k - 1] \o <<Blank>> \o lines[k]

LEMMA JoinedLoops ==
  ASSUME NEW R, Blank \in R, NEW lines \in Seq(Seq(R))
  PROVE  \E g : JoinLoop(g, lines, R) /\ Joined(lines) = g[Len(lines)]
<1> DEFINE N == Len(lines)
           V == Seq(R)
           Body(g) == [k \in 0 .. N |->
                         IF k = 0 THEN <<>>
                         ELSE IF k = 1 THEN lines[1] ELSE g[k - 1] \o <<Blank>> \o lines[k]]
           F == [p \in V \X (1 .. N) |->
                   IF p[2] = 1 THEN lines[1] ELSE p[1] \o <<Blank>> \o lines[p[2]]]
           h == CHOOSE g : g = Body(g)
<1>0. N \in Nat /\ <<>> \in V
  OBVIOUS
<1>1. F \in [V \X (1 .. N) -> V]
  <2>1. ASSUME NEW s \in V, NEW k \in 1 .. N
        PROVE  lines[k] \in V /\ lines[1] \in V /\ s \o <<Blank>> \o lines[k] \in V
    <3>1. lines[k] \in V /\ lines[1] \in V
      BY <1>0
    <3>2. s \o <<Blank>> \in V
      OBVIOUS
    <3> QED
      BY <3>1, <3>2
  <2> HIDE DEF V, N
  <2> QED
    BY <2>1
<1>2. PICK g : IsLoop(g, N, V, <<>>, F)
  <2> HIDE DEF F, N, V
  <2> QED
    BY <1>0, <1>1, Loop
<1>a. /\ g \in [0 .. N -> V] /\ g[0] = <<>>
      /\ \A k \in 1 .. N : g[k] = F[<<g[k - 1], k>>]
  BY <1>2 DEF IsLoop
<1>3. ASSUME NEW k \in 1 .. N
      PROVE  g[k] = IF k = 1 THEN lines[1] ELSE g[k - 1] \o <<Blank>> \o lines[k]
  <2> HIDE DEF V, N
  <2>1. g[k - 1] \in V
    BY <1>0, <1>a
  <2> QED
    BY <1>a, <2>1
<1>4. g = Body(g)
  <2> HIDE DEF V, N
  <2>1. ASSUME NEW k \in 0 .. N PROVE g[k] = Body(g)[k]
    <3>1. CASE k = 0
      BY <1>a, <3>1
    <3>2. CASE k # 0
      <4>1. k \in 1 .. N
        BY <1>0, <3>2
      <4> QED
        BY <1>3, <3>2, <4>1
    <3> QED
      BY <3>1, <3>2
  <2> QED
    BY <1>a, <2>1
<1>5. h = Body(h)
  <2> HIDE DEF Body
  <2> QED
    BY <1>4
<1> HIDE DEF h, N, V, F
<1>6. \A k \in 0 .. N : h[k] = g[k]
  <2>1. h[0] = g[0]
    BY <1>0, <1>4, <1>5
  <2>2. ASSUME NEW k \in 1 .. N, h[k - 1] = g[k - 1] PROVE h[k] = g[k]
    <3>1. h[k] = Body(h)[k] /\ g[k] = Body(g)[k]
      BY <1>4, <1>5
    <3> QED
      BY <1>0, <2>2, <3>1
  <2> QED
    BY <1>0, <2>1, <2>2, Agree
<1>7. Joined(lines) = h[N]
  BY DEF Joined, h, N
<1>8. JoinLoop(g, lines, R)
  BY <1>a, <1>3 DEF JoinLoop, N, V
<1>9. Joined(lines) = g[Len(lines)]
  BY <1>0, <1>6, <1>7 DEF N
<1> QED
  BY <1>8, <1>9

LEMMA JoinedType ==
  ASSUME NEW R, Blank \in R, NEW lines \in Seq(Seq(R))
  PROVE  Joined(lines) \in Seq(R)
<1>1. PICK g : JoinLoop(g, lines, R) /\ Joined(lines) = g[Len(lines)]
  BY JoinedLoops
<1>2. Len(lines) \in 0 .. Len(lines)
  OBVIOUS
<1> QED
  BY <1>1, <1>2 DEF JoinLoop

LEMMA JoinedNone == Joined(<<>>) = <<>>
<1>1. PICK g : JoinLoop(g, <<>>, {Blank}) /\ Joined(<<>>) = g[Len(<<>>)]
  <2>1. Blank \in {Blank} /\ <<>> \in Seq(Seq({Blank}))
    OBVIOUS
  <2> QED
    BY <2>1, JoinedLoops
<1> QED
  BY <1>1 DEF JoinLoop

LEMMA JoinedAppend ==
  ASSUME NEW R, Blank \in R, NEW lines \in Seq(Seq(R)), NEW x \in Seq(R)
  PROVE  Joined(Append(lines, x)) =
           IF lines = <<>> THEN x ELSE Joined(lines) \o <<Blank>> \o x
<1> DEFINE N == Len(lines)
           all == Append(lines, x)
<1>1. /\ N \in Nat /\ all \in Seq(Seq(R)) /\ Len(all) = N + 1 /\ all[N + 1] = x
      /\ \A k \in 1 .. N : all[k] = lines[k]
      /\ lines = <<>> <=> N = 0
  OBVIOUS
<1>2. PICK g : JoinLoop(g, lines, R) /\ Joined(lines) = g[N]
  BY JoinedLoops
<1> HIDE DEF all
<1>3. PICK h : JoinLoop(h, all, R) /\ Joined(all) = h[N + 1]
  <2>1. PICK h : JoinLoop(h, all, R) /\ Joined(all) = h[Len(all)]
    BY <1>1, JoinedLoops
  <2> QED
    BY <1>1, <2>1
<1>4. \A k \in 0 .. N : h[k] = g[k]
  <2>1. h[0] = g[0]
    BY <1>2, <1>3 DEF JoinLoop
  <2>2. ASSUME NEW k \in 1 .. N, h[k - 1] = g[k - 1] PROVE h[k] = g[k]
    <3>1. k \in 1 .. N + 1 /\ all[k] = lines[k] /\ all[1] = lines[1]
      BY <1>1
    <3>2. h[k] = IF k = 1 THEN all[1] ELSE h[k - 1] \o <<Blank>> \o all[k]
      BY <1>1, <1>3, <3>1 DEF JoinLoop
    <3>3. g[k] = IF k = 1 THEN lines[1] ELSE g[k - 1] \o <<Blank>> \o lines[k]
      BY <1>2 DEF JoinLoop
    <3> QED
      BY <2>2, <3>1, <3>2, <3>3
  <2> HIDE DEF N
  <2> QED
    BY <1>1, <2>1, <2>2, Agree
<1>5. h[N + 1] = IF N + 1 = 1 THEN all[1] ELSE h[N + 1 - 1] \o <<Blank>> \o all[N + 1]
  <2> DEFINE m == N + 1
  <2>1. m \in 1 .. Len(all)
    BY <1>1
  <2> HIDE DEF m
  <2>2. h[m] = IF m = 1 THEN all[1] ELSE h[m - 1] \o <<Blank>> \o all[m]
    BY <1>3, <2>1 DEF JoinLoop
  <2> QED
    BY <2>2 DEF m
<1>6. N + 1 - 1 = N /\ (N + 1 = 1 <=> N = 0)
  BY <1>1
<1>7. h[N] = g[N]
  BY <1>1, <1>4
<1>8. CASE N = 0
  BY <1>1, <1>3, <1>5, <1>8 DEF all
<1>9. CASE N # 0
  <2>1. h[N + 1] = g[N] \o <<Blank>> \o x
    BY <1>1, <1>5, <1>6, <1>7, <1>9
  <2> QED
    BY <1>1, <1>2, <1>3, <1>9, <2>1 DEF all
<1> QED
  BY <1>8, <1>9

(* Words that are not empty make a text longer. *)
Longer(s, t) == Len(s) < Len(t) /\ \A i \in 1 .. Len(s) : s[i] = t[i]

LEMMA LongerTransitive ==
  ASSUME NEW R, NEW s \in Seq(R), NEW t \in Seq(R), NEW u \in Seq(R),
         Longer(s, t), Longer(t, u)
  PROVE  Longer(s, u)
<1>1. Len(s) \in Nat /\ Len(t) \in Nat /\ Len(u) \in Nat
  OBVIOUS
<1>2. \A i \in 1 .. Len(s) : i \in 1 .. Len(t)
  BY <1>1 DEF Longer
<1> QED
  BY <1>1, <1>2 DEF Longer

LEMMA LongerByWord ==
  ASSUME NEW R, NEW s \in Seq(R), NEW b \in R, NEW t \in Seq(R)
  PROVE  Longer(s, s \o <<b>> \o t)
<1> DEFINE u == s \o <<b>>
<1>1. u \in Seq(R) /\ Len(u) = Len(s) + 1 /\ \A i \in 1 .. Len(s) : u[i] = s[i]
  OBVIOUS
<1> HIDE DEF u
<1>2. Len(u \o t) = Len(u) + Len(t) /\ \A i \in 1 .. Len(u) : (u \o t)[i] = u[i]
  BY <1>1
<1>3. Longer(s, u \o t)
  BY <1>1, <1>2 DEF Longer
<1> QED
  BY <1>3 DEF u

LEMMA JoinedGrows ==
  ASSUME NEW R, NEW words \in Seq(Seq(R)), \A i \in 1 .. Len(words) : words[i] # <<>>,
         NEW g, JoinLoop(g, words, R), Blank \in R
  PROVE  \A j, k \in 0 .. Len(words) : j < k => Longer(g[j], g[k])
<1> DEFINE N == Len(words)
<1>0. N \in Nat /\ \A i \in 1 .. N : words[i] \in Seq(R)
  OBVIOUS
<1>a. \A k \in 0 .. N : g[k] \in Seq(R)
  BY DEF JoinLoop
<1>b. /\ g[0] = <<>>
      /\ \A k \in 1 .. N :
           g[k] = IF k = 1 THEN words[1] ELSE g[k - 1] \o <<Blank>> \o words[k]
  BY DEF JoinLoop
<1> HIDE DEF N
<1>1. ASSUME NEW k \in 1 .. N PROVE Longer(g[k - 1], g[k])
  <2>0. k - 1 \in 0 .. N /\ k \in 0 .. N
    BY <1>0
  <2>1. words[k] \in Seq(R) /\ words[k] # <<>> /\ g[k - 1] \in Seq(R)
    BY <1>0, <1>a, <2>0 DEF N
  <2>2. CASE k = 1
    <3>1. g[k - 1] = <<>> /\ g[k] = words[k]
      BY <1>b, <2>2
    <3> QED
      BY <2>1, <3>1 DEF Longer
  <2>3. CASE k # 1
    <3>1. g[k] = g[k - 1] \o <<Blank>> \o words[k]
      BY <1>b, <2>3
    <3> QED
      BY <2>1, <3>1, LongerByWord
  <2> QED
    BY <2>2, <2>3
<1> SUFFICES ASSUME NEW j \in 0 .. N
             PROVE  \A k \in 0 .. N : j < k => Longer(g[j], g[k])
  BY DEF N
<1> DEFINE T == {k \in 0 .. N : j < k => Longer(g[j], g[k])}
<1>2. 0 \in T
  BY <1>0
<1>3. ASSUME NEW k \in 1 .. N, k - 1 \in T PROVE k \in T
  <2>0. k - 1 \in 0 .. N /\ k \in 0 .. N
    BY <1>0
  <2>1. g[j] \in Seq(R) /\ g[k - 1] \in Seq(R) /\ g[k] \in Seq(R)
    BY <1>0, <1>a, <2>0
  <2>2. CASE j = k - 1
    BY <1>1, <2>0, <2>2
  <2>3. CASE j < k - 1
    <3>1. Longer(g[j], g[k - 1]) /\ Longer(g[k - 1], g[k])
      BY <1>1, <1>3, <2>3
    <3> QED
      BY <2>0, <2>1, <3>1, LongerTransitive
  <2>4. CASE ~(j < k)
    BY <2>0, <2>4
  <2> QED
    BY <1>0, <2>2, <2>3, <2>4
<1> HIDE DEF T, N
<1>4. \A k \in 0 .. N : k \in T
  BY <1>0, <1>2, <1>3, Induction
<1> QED
  BY <1>4 DEF T

-----------------------------------------------------------------------------
(* Splitting *)

Runes == Int \ {Ellipsis}
Letters == Runes \ {Blank}
Words == Seq(Letters) \ {<<>>}

(* The words of a name have letters, and at least one of them. *)
LEMMA SplitType ==
  ASSUME NEW s \in Seq(Runes)
  PROVE  SplitWords(s) \in Seq(Words)
<1> DEFINE N == Len(s)
           V == [out : Seq(Words), cur : Seq(Letters)]
           c == [out |-> <<>>, cur |-> <<>>]
           Body(g) == [k \in 0 .. N |-> IF k = 0 THEN c ELSE Read(g[k - 1], s[k])]
           F == [p \in V \X (1 .. N) |-> Read(p[1], s[p[2]])]
           h == CHOOSE g : g = Body(g)
<1>0. N \in Nat /\ c \in V /\ \A k \in 1 .. N : s[k] \in Runes
  OBVIOUS
<1>1. \A a \in V : Cut(a) \in V
  <2>1. ASSUME NEW a \in V PROVE Cut(a) \in V
    <3>1. a.cur # <<>> => Append(a.out, a.cur) \in Seq(Words)
      BY DEF Words
    <3> QED
      BY <3>1 DEF Cut
  <2> QED
    BY <2>1
<1>2. \A a \in V, r \in Runes : Read(a, r) \in V
  <2>1. ASSUME NEW a \in V, NEW r \in Runes, r # Blank
        PROVE  [a EXCEPT !.cur = Append(@, r)] \in V
    <3>1. r \in Letters
      BY <2>1 DEF Letters
    <3>2. Append(a.cur, r) \in Seq(Letters)
      BY <3>1
    <3> QED
      BY <3>2
  <2> HIDE DEF V
  <2> QED
    BY <1>1, <2>1 DEF Read
<1>3. F \in [V \X (1 .. N) -> V]
  <2> HIDE DEF V, N
  <2> QED
    BY <1>0, <1>2
<1> HIDE DEF N, V, c
<1>4. PICK g : IsLoop(g, N, V, c, F)
  <2> HIDE DEF F
  <2> QED
    BY <1>0, <1>3, Loop
<1>5. /\ g \in [0 .. N -> V] /\ g[0] = c
      /\ \A k \in 1 .. N : g[k] = F[<<g[k - 1], k>>]
  BY <1>4 DEF IsLoop
<1>6. \A k \in 1 .. N : g[k] = Read(g[k - 1], s[k])
  <2>1. \A k \in 1 .. N : g[k - 1] \in V
    BY <1>0, <1>5
  <2> QED
    BY <1>5, <2>1
<1>7. g = Body(g)
  <2>1. ASSUME NEW k \in 0 .. N PROVE g[k] = Body(g)[k]
    <3>1. CASE k = 0
      BY <1>5, <3>1
    <3>2. CASE k # 0
      <4>1. k \in 1 .. N
        BY <1>0, <3>2
      <4> QED
        BY <1>6, <3>2, <4>1
    <3> QED
      BY <3>1, <3>2
  <2> QED
    BY <1>5, <2>1
<1>8. h = Body(h)
  <2> HIDE DEF Body
  <2> QED
    BY <1>7
<1> HIDE DEF h, F
<1>9. \A k \in 0 .. N : h[k] = g[k]
  <2>1. h[0] = g[0]
    BY <1>0, <1>7, <1>8
  <2>2. ASSUME NEW k \in 1 .. N, h[k - 1] = g[k - 1] PROVE h[k] = g[k]
    <3>1. h[k] = Body(h)[k] /\ g[k] = Body(g)[k]
      BY <1>7, <1>8
    <3> QED
      BY <1>0, <2>2, <3>1
  <2> QED
    BY <1>0, <2>1, <2>2, Agree
<1>10. SplitWords(s) = Cut(h[N]).out
  BY DEF SplitWords, h, N, c
<1>11. h[N] \in V
  BY <1>0, <1>5, <1>9
<1>12. Cut(h[N]) \in V
  BY <1>1, <1>11
<1> QED
  BY <1>10, <1>12 DEF V

-----------------------------------------------------------------------------
(* Wrapping *)

(* The loop over the words. *)
PlaceLoop(g, words, maxW, max) ==
  /\ g \in [0 .. Len(words) -> [lines : Seq(Seq(Runes)), line : Seq(Runes)]]
  /\ g[0] = [lines |-> <<>>, line |-> <<>>]
  /\ \A k \in 1 .. Len(words) : g[k] = Place(g[k - 1], words[k], maxW, max)

LEMMA PlacedLoops ==
  ASSUME NEW words \in Seq(Words), NEW maxW, NEW max
  PROVE  \E g : PlaceLoop(g, words, maxW, max) /\ Placed(words, maxW, max) = g[Len(words)]
<1> DEFINE N == Len(words)
           V == [lines : Seq(Seq(Runes)), line : Seq(Runes)]
           c == [lines |-> <<>>, line |-> <<>>]
           Body(g) == [k \in 0 .. N |->
                         IF k = 0 THEN c ELSE Place(g[k - 1], words[k], maxW, max)]
           F == [p \in V \X (1 .. N) |-> Place(p[1], words[p[2]], maxW, max)]
           h == CHOOSE g : g = Body(g)
<1>0. N \in Nat /\ c \in V /\ \A k \in 1 .. N : words[k] \in Words
  OBVIOUS
<1>1. ASSUME NEW a \in V, NEW w \in Words PROVE Place(a, w, maxW, max) \in V
  <2>1. w \in Seq(Runes)
    BY DEF Words, Letters
  <2>2. a.line \o <<Blank>> \o w \in Seq(Runes)
    <3>1. Blank \in Runes
      BY DEF Runes, Blank, Ellipsis
    <3> QED
      BY <2>1, <3>1
  <2>3. Append(a.lines, a.line) \in Seq(Seq(Runes))
    OBVIOUS
  <2> DEFINE try == IF a.line = <<>> THEN w ELSE a.line \o <<Blank>> \o w
  <2>4. try \in Seq(Runes)
    BY <2>1, <2>2
  <2> HIDE DEF try
  <2>5. /\ [lines |-> Append(a.lines, a.line), line |-> w] \in V
        /\ [a EXCEPT !.line = try] \in V
    BY <2>1, <2>3, <2>4
  <2> HIDE DEF V
  <2> QED
    BY <2>5 DEF Place, try
<1>3. F \in [V \X (1 .. N) -> V]
  <2> HIDE DEF V, N
  <2> QED
    BY <1>0, <1>1
<1> HIDE DEF N, V, c
<1>4. PICK g : IsLoop(g, N, V, c, F)
  <2> HIDE DEF F
  <2> QED
    BY <1>0, <1>3, Loop
<1>5. /\ g \in [0 .. N -> V] /\ g[0] = c
      /\ \A k \in 1 .. N : g[k] = F[<<g[k - 1], k>>]
  BY <1>4 DEF IsLoop
<1>6. \A k \in 1 .. N : g[k] = Place(g[k - 1], words[k], maxW, max)
  <2>1. \A k \in 1 .. N : g[k - 1] \in V
    BY <1>0, <1>5
  <2> QED
    BY <1>5, <2>1
<1>7. g = Body(g)
  <2>1. ASSUME NEW k \in 0 .. N PROVE g[k] = Body(g)[k]
    <3>1. CASE k = 0
      BY <1>5, <3>1
    <3>2. CASE k # 0
      <4>1. k \in 1 .. N
        BY <1>0, <3>2
      <4> QED
        BY <1>6, <3>2, <4>1
    <3> QED
      BY <3>1, <3>2
  <2> QED
    BY <1>5, <2>1
<1>8. h = Body(h)
  <2> HIDE DEF Body
  <2> QED
    BY <1>7
<1> HIDE DEF h, F
<1>9. \A k \in 0 .. N : h[k] = g[k]
  <2>1. h[0] = g[0]
    BY <1>0, <1>7, <1>8
  <2>2. ASSUME NEW k \in 1 .. N, h[k - 1] = g[k - 1] PROVE h[k] = g[k]
    <3>1. h[k] = Body(h)[k] /\ g[k] = Body(g)[k]
      BY <1>7, <1>8
    <3> QED
      BY <1>0, <2>2, <3>1
  <2> QED
    BY <1>0, <2>1, <2>2, Agree
<1>10. Placed(words, maxW, max) = h[N]
  BY DEF Placed, h, N, c
<1>11. PlaceLoop(g, words, maxW, max)
  BY <1>5, <1>6 DEF PlaceLoop, N, V, c
<1>12. Placed(words, maxW, max) = g[Len(words)]
  BY <1>0, <1>9, <1>10 DEF N
<1> QED
  BY <1>11, <1>12

(* What is true of a line that is written, and of the words still to come.  *)
Fits(line, maxW) == line # <<>> /\ (TTFWidth(line) > maxW => Blank \notin ToSet(line))

(* After k words: all of them are read from the lines and the open line, or *)
(* the lines are full and read as fewer; j is the loop of Joined.           *)
WrapInv(a, k, j, N, maxW, max) ==
  /\ Len(a.lines) <= max
  /\ \A i \in 1 .. Len(a.lines) : Fits(a.lines[i], maxW)
  /\ a.line # <<>> => Fits(a.line, maxW)
  /\ Len(a.lines) < max =>
       IF k = 0 THEN a.line = <<>> /\ a.lines = <<>>
       ELSE a.line # <<>> /\ Joined(Append(a.lines, a.line)) = j[k]
  /\ Len(a.lines) = max => \E i \in 0 .. N : i < k /\ Joined(a.lines) = j[i]

LEMMA BlankRune == Blank \in Runes
  BY DEF Runes, Blank, Ellipsis

LEMMA WordRunes ==
  ASSUME NEW w \in Words
  PROVE  w \in Seq(Runes) /\ w # <<>> /\ Blank \notin ToSet(w)
<1>1. w \in Seq(Letters) /\ w # <<>>
  BY DEF Words
<1>2. w \in Seq(Runes)
  BY <1>1 DEF Letters
<1>3. \A i \in 1 .. Len(w) : w[i] # Blank
  BY <1>1 DEF Letters
<1> QED
  BY <1>1, <1>2, <1>3 DEF ToSet

(* Reading a line that is one word longer. *)
LEMMA JoinedWord ==
  ASSUME NEW lines \in Seq(Seq(Runes)), NEW line \in Seq(Runes), NEW w \in Seq(Runes)
  PROVE  Joined(Append(lines, line \o <<Blank>> \o w)) =
           Joined(Append(lines, line)) \o <<Blank>> \o w
<1>0. Blank \in Runes
  BY BlankRune
<1> DEFINE b == <<Blank>>
           l == line \o b \o w
<1>1. b \in Seq(Runes) /\ l \in Seq(Runes)
  BY <1>0
<1> HIDE DEF b
<1>2. CASE lines = <<>>
  BY <1>0, <1>1, <1>2, JoinedAppend DEF b
<1>3. CASE lines # <<>>
  <2> DEFINE J == Joined(lines)
  <2>1. J \in Seq(Runes)
    BY <1>0, JoinedType
  <2>2. Joined(Append(lines, l)) = J \o b \o l
    BY <1>0, <1>1, <1>3, JoinedAppend DEF b
  <2>3. Joined(Append(lines, line)) = J \o b \o line
    BY <1>0, <1>3, JoinedAppend DEF b
  <2> HIDE DEF J
  <2>4. (J \o b) \o ((line \o b) \o w) = (((J \o b) \o line) \o b) \o w
    <3> DEFINE p == J \o b
               q == line \o b
    <3>1. p \in Seq(Runes) /\ q \in Seq(Runes)
      BY <1>1, <2>1
    <3> HIDE DEF p, q, l
    <3>2. (p \o q) \o w = p \o (q \o w)
      BY <3>1, ConcatAssociative
    <3>3. (p \o line) \o b = p \o (line \o b)
      BY <1>1, <3>1, ConcatAssociative
    <3>4. p \o q = (p \o line) \o b
      BY <3>3 DEF q
    <3>5. p \o (q \o w) = ((p \o line) \o b) \o w
      BY <3>2, <3>4
    <3> QED
      BY <3>5 DEF p, q, l
  <2> QED
    BY <2>2, <2>3, <2>4 DEF b
<1> QED
  BY <1>2, <1>3

(* A line more reads as a word more. *)
LEMMA ReadOneMore ==
  ASSUME NEW words \in Seq(Words), NEW j, JoinLoop(j, words, Runes),
         NEW k \in 1 .. Len(words)
  PROVE  /\ j[k - 1] \in Seq(Runes)
         /\ k = 1 => j[k] = words[1]
         /\ k # 1 => j[k] = j[k - 1] \o <<Blank>> \o words[k]
<1>1. k - 1 \in 0 .. Len(words)
  OBVIOUS
<1> QED
  BY <1>1 DEF JoinLoop

LEMMA AppendLine ==
  ASSUME NEW S, NEW lines \in Seq(S), NEW line \in S
  PROVE  LET all == Append(lines, line) IN
         /\ all \in Seq(S) /\ Len(all) = Len(lines) + 1 /\ all # <<>>
         /\ \A i \in 1 .. Len(lines) : all[i] = lines[i]
         /\ all[Len(lines) + 1] = line
<1> DEFINE all == Append(lines, line)
<1>1. all \in Seq(S) /\ Len(all) = Len(lines) + 1 /\ Len(lines) \in Nat
  OBVIOUS
<1>2. \A i \in 1 .. Len(lines) : all[i] = lines[i]
  OBVIOUS
<1>3. all[Len(lines) + 1] = line
  OBVIOUS
<1>4. all # <<>>
  BY <1>1
<1> QED
  BY <1>1, <1>2, <1>3, <1>4

LEMMA PlaceKeeps ==
  ASSUME NEW words \in Seq(Words), NEW maxW, NEW max \in Nat \ {0},
         NEW j, JoinLoop(j, words, Runes),
         NEW a \in [lines : Seq(Seq(Runes)), line : Seq(Runes)],
         NEW k \in 1 .. Len(words), WrapInv(a, k - 1, j, Len(words), maxW, max)
  PROVE  WrapInv(Place(a, words[k], maxW, max), k, j, Len(words), maxW, max)
<1> DEFINE N == Len(words)
           w == words[k]
           n == Len(a.lines)
           b == Place(a, w, maxW, max)
           more == Append(a.lines, a.line)
<1>0. /\ k \in Nat /\ k - 1 \in 0 .. N /\ n \in Nat /\ w \in Words
      /\ a.lines \in Seq(Seq(Runes)) /\ a.line \in Seq(Runes)
  OBVIOUS
<1>1. w \in Seq(Runes) /\ w # <<>> /\ Fits(w, maxW)
  BY <1>0, WordRunes DEF Fits
<1>2. /\ n <= max /\ \A i \in 1 .. n : Fits(a.lines[i], maxW)
      /\ a.line # <<>> => Fits(a.line, maxW)
      /\ n < max => IF k - 1 = 0 THEN a.line = <<>> /\ a.lines = <<>>
                    ELSE a.line # <<>> /\ Joined(more) = j[k - 1]
      /\ n = max => \E i \in 0 .. N : i < k - 1 /\ Joined(a.lines) = j[i]
  BY DEF WrapInv
<1>3. Blank \in Runes
  BY BlankRune
<1>a. /\ k - 1 = 0 => j[k] = w
      /\ k - 1 # 0 => j[k] = j[k - 1] \o <<Blank>> \o w
  <2>1. /\ k = 1 => j[k] = words[1]
        /\ k # 1 => j[k] = j[k - 1] \o <<Blank>> \o words[k]
    BY ReadOneMore
  <2>2. k - 1 = 0 <=> k = 1
    BY <1>0
  <2> QED
    BY <2>1, <2>2
<1>4. CASE n = max
  <2>1. b = a
    BY <1>4 DEF Place
  <2>2. \E i \in 0 .. N : i < k /\ Joined(a.lines) = j[i]
    <3>1. PICK i \in 0 .. N : i < k - 1 /\ Joined(a.lines) = j[i]
      BY <1>2, <1>4
    <3> QED
      BY <1>0, <3>1
  <2>3. WrapInv(a, k, j, N, maxW, max)
    <3> HIDE DEF N, n
    <3> QED
      BY <1>0, <1>2, <1>4, <2>2 DEF WrapInv, n
  <2> QED
    BY <2>1, <2>3
<1>5. CASE n # max /\ a.line # <<>> /\ TTFWidth(a.line \o <<Blank>> \o w) > maxW
  <2>1. b = [lines |-> more, line |-> w]
    BY <1>5 DEF Place
  <2>2. b.lines = more /\ b.line = w
    BY <2>1
  <2>3. /\ more \in Seq(Seq(Runes)) /\ Len(more) = n + 1 /\ more # <<>>
        /\ \A i \in 1 .. n : more[i] = a.lines[i]
        /\ more[n + 1] = a.line
    <3> DEFINE S == Seq(Runes)
               ls == a.lines
               l == a.line
    <3>1. ls \in Seq(S) /\ l \in S
      BY <1>0
    <3> HIDE DEF S, ls, l
    <3>2. /\ Append(ls, l) \in Seq(S) /\ Len(Append(ls, l)) = Len(ls) + 1
          /\ Append(ls, l) # <<>>
          /\ \A i \in 1 .. Len(ls) : Append(ls, l)[i] = ls[i]
          /\ Append(ls, l)[Len(ls) + 1] = l
      BY <3>1, AppendLine
    <3> QED
      BY <3>2 DEF S, ls, l
  <2>4. k - 1 # 0 /\ Joined(more) = j[k - 1]
    BY <1>0, <1>2, <1>5
  <2>5. Joined(Append(more, w)) = j[k]
    <3>1. Joined(Append(more, w)) = Joined(more) \o <<Blank>> \o w
      <4> HIDE DEF w, more
      <4> QED
        BY <1>1, <1>3, <2>3, JoinedAppend
    <3>2. j[k] = j[k - 1] \o <<Blank>> \o w
      BY <1>a, <2>4
    <3> QED
      BY <2>4, <3>1, <3>2
  <2>6. \A i \in 1 .. n + 1 : Fits(more[i], maxW)
    BY <1>0, <1>2, <1>5, <2>3
  <2> HIDE DEF N, n, more, w, b
  <2>7. n + 1 <= max
    BY <1>0, <1>2, <1>5
  <2>8. k - 1 \in 0 .. N /\ k - 1 < k /\ k # 0
    BY <1>0
  <2>9. WrapInv(b, k, j, N, maxW, max)
    BY <1>1, <2>2, <2>3, <2>4, <2>5, <2>6, <2>7, <2>8 DEF WrapInv
  <2> QED
    BY <2>9 DEF b, w, N
<1>6. CASE n # max /\ ~(a.line # <<>> /\ TTFWidth(a.line \o <<Blank>> \o w) > maxW)
  <2> DEFINE try == IF a.line = <<>> THEN w ELSE a.line \o <<Blank>> \o w
  <2>1. b = [a EXCEPT !.line = try]
    <3>1. ~(TTFWidth(try) > maxW /\ a.line # <<>>)
      BY <1>6
    <3> HIDE DEF try
    <3>2. b = IF n = max THEN a
              ELSE IF TTFWidth(try) > maxW /\ a.line # <<>>
              THEN [lines |-> more, line |-> w] ELSE [a EXCEPT !.line = try]
      BY DEF Place, try
    <3> QED
      BY <1>6, <3>1, <3>2
  <2>2. b.lines = a.lines /\ b.line = try
    <3> HIDE DEF try
    <3> QED
      BY <2>1
  <2>3. n < max
    BY <1>0, <1>2, <1>6
  <2>4. Fits(try, maxW) /\ Joined(Append(a.lines, try)) = j[k]
    <3>1. CASE k - 1 = 0
      <4>1. a.line = <<>> /\ a.lines = <<>> /\ try = w
        BY <1>2, <2>3, <3>1
      <4>2. <<>> \in Seq(Seq(Runes))
        OBVIOUS
      <4>3. Joined(Append(<<>>, w)) = w
        <5> HIDE DEF w
        <5> QED
          BY <1>1, <1>3, <4>2, JoinedAppend
      <4>4. j[k] = w
        BY <1>a, <3>1
      <4> QED
        BY <1>1, <4>1, <4>3, <4>4
    <3>2. CASE k - 1 # 0
      <4>1. a.line # <<>> /\ Joined(more) = j[k - 1]
        BY <1>2, <2>3, <3>2
      <4>2. try = a.line \o <<Blank>> \o w
        BY <4>1
      <4>3. ~(TTFWidth(try) > maxW)
        BY <1>6, <4>1
      <4>4. try # <<>>
        <5>1. <<Blank>> \in Seq(Runes)
          BY <1>3
        <5>2. a.line \o <<Blank>> \in Seq(Runes) /\ Len(a.line \o <<Blank>>) # 0
          BY <1>0, <5>1
        <5> QED
          BY <1>1, <4>2, <5>2
      <4>5. Joined(Append(a.lines, try)) = Joined(more) \o <<Blank>> \o w
        <5> DEFINE ls == a.lines
                   l == a.line
        <5>1. ls \in Seq(Seq(Runes)) /\ l \in Seq(Runes) /\ w \in Seq(Runes)
          BY <1>0, <1>1
        <5> HIDE DEF ls, l, w
        <5>2. Joined(Append(ls, l \o <<Blank>> \o w)) = Joined(Append(ls, l)) \o <<Blank>> \o w
          BY <5>1, JoinedWord
        <5> QED
          BY <4>2, <5>2 DEF ls, l
      <4>6. j[k] = j[k - 1] \o <<Blank>> \o w
        BY <1>a, <3>2
      <4> QED
        BY <4>1, <4>3, <4>4, <4>5, <4>6 DEF Fits
    <3> QED
      BY <3>1, <3>2
  <2>5. try # <<>> /\ k # 0
    BY <1>0, <2>4 DEF Fits
  <2> HIDE DEF N, n, b, try
  <2>6. WrapInv(b, k, j, N, maxW, max)
    BY <1>0, <1>2, <2>2, <2>3, <2>4, <2>5 DEF WrapInv, n
  <2> QED
    BY <2>6 DEF b, N
<1> QED
  BY <1>4, <1>5, <1>6

(* After the loop: all words are on the lines, or the lines are full and    *)
(* read as a shorter text.                                                  *)
LEMMA PlacedReads ==
  ASSUME NEW words \in Seq(Words), NEW maxW, NEW max \in Nat \ {0}
  PROVE  LET end == Placed(words, maxW, max) IN
         /\ end.lines \in Seq(Seq(Runes)) /\ end.line \in Seq(Runes)
         /\ Len(end.lines) <= max
         /\ \A i \in 1 .. Len(end.lines) : Fits(end.lines[i], maxW)
         /\ end.line # <<>> => Fits(end.line, maxW)
         /\ Len(end.lines) # max =>
              Joined(words) = IF end.line = <<>> THEN Joined(end.lines)
                              ELSE Joined(Append(end.lines, end.line))
         /\ Len(end.lines) = max => Longer(Joined(end.lines), Joined(words))
<1> DEFINE N == Len(words)
           V == [lines : Seq(Seq(Runes)), line : Seq(Runes)]
           end == Placed(words, maxW, max)
<1>0. /\ N \in Nat /\ Blank \in Runes
      /\ words \in Seq(Seq(Runes)) /\ \A i \in 1 .. N : words[i] # <<>>
  BY BlankRune DEF Words, Letters
<1>1. PICK g : PlaceLoop(g, words, maxW, max) /\ end = g[N]
  BY PlacedLoops
<1>2. PICK j : JoinLoop(j, words, Runes) /\ Joined(words) = j[N]
  BY <1>0, JoinedLoops
<1> HIDE DEF end
<1>3. /\ g \in [0 .. N -> V] /\ g[0] = [lines |-> <<>>, line |-> <<>>]
      /\ \A k \in 1 .. N : g[k] = Place(g[k - 1], words[k], maxW, max)
  BY <1>1 DEF PlaceLoop
<1> DEFINE T == {k \in 0 .. N : WrapInv(g[k], k, j, N, maxW, max)}
<1>4. 0 \in T
  <2>1. /\ g[0].lines = <<>> /\ g[0].line = <<>> /\ Len(<<>>) = 0
        /\ 0 < max /\ 0 # max
    BY <1>3
  <2>2. WrapInv(g[0], 0, j, N, maxW, max)
    <3> HIDE DEF N
    <3> QED
      BY <2>1 DEF WrapInv
  <2> QED
    BY <1>0, <2>2
<1>5. ASSUME NEW k \in 1 .. N, k - 1 \in T PROVE k \in T
  <2>1. g[k - 1] \in V /\ g[k] = Place(g[k - 1], words[k], maxW, max)
    <3> HIDE DEF V, N
    <3>1. k - 1 \in 0 .. N
      BY <1>0
    <3> QED
      BY <1>3, <3>1
  <2>2. WrapInv(g[k - 1], k - 1, j, N, maxW, max)
    BY <1>5
  <2>3. WrapInv(g[k], k, j, N, maxW, max)
    BY <1>2, <2>1, <2>2, PlaceKeeps
  <2> QED
    BY <1>0, <2>3
<1>6. N \in T
  <2> HIDE DEF T, N
  <2>1. \A k \in 0 .. N : k \in T
    BY <1>0, <1>4, <1>5, Induction
  <2> QED
    BY <1>0, <2>1
<1>7. end \in V /\ WrapInv(end, N, j, N, maxW, max)
  BY <1>0, <1>1, <1>3, <1>6
<1>8. Len(end.lines) \in Nat
  BY <1>7
<1>9. ASSUME Len(end.lines) # max
      PROVE  Joined(words) = IF end.line = <<>> THEN Joined(end.lines)
                             ELSE Joined(Append(end.lines, end.line))
  <2> HIDE DEF N
  <2>1. Len(end.lines) < max
    BY <1>7, <1>8, <1>9 DEF WrapInv
  <2>2. CASE N = 0
    <3>1. end.line = <<>> /\ end.lines = <<>>
      BY <1>7, <2>1, <2>2 DEF WrapInv
    <3>2. words = <<>>
      BY <2>2 DEF N
    <3> QED
      BY <3>1, <3>2
  <2>3. CASE N # 0
    BY <1>2, <1>7, <2>1, <2>3 DEF WrapInv
  <2> QED
    BY <2>2, <2>3
<1>10. ASSUME Len(end.lines) = max
       PROVE  Longer(Joined(end.lines), Joined(words))
  <2>1. PICK i \in 0 .. N : i < N /\ Joined(end.lines) = j[i]
    <3> HIDE DEF N
    <3> QED
      BY <1>7, <1>10 DEF WrapInv
  <2>2. \A m, k \in 0 .. N : m < k => Longer(j[m], j[k])
    BY <1>0, <1>2, JoinedGrows
  <2>3. N \in 0 .. N
    BY <1>0
  <2> QED
    BY <1>2, <2>1, <2>2, <2>3
<1>11. /\ end.lines \in Seq(Seq(Runes)) /\ end.line \in Seq(Runes)
       /\ Len(end.lines) <= max
       /\ \A i \in 1 .. Len(end.lines) : Fits(end.lines[i], maxW)
       /\ end.line # <<>> => Fits(end.line, maxW)
  <2> HIDE DEF N
  <2>1. end.lines \in Seq(Seq(Runes)) /\ end.line \in Seq(Runes)
    BY <1>7
  <2> QED
    BY <1>7, <2>1 DEF WrapInv
<1> QED
  BY <1>9, <1>10, <1>11 DEF end

(* A set of numbers up to a bound has a greatest element. *)
LEMMA Greatest ==
  ASSUME NEW N \in Nat, NEW S \in SUBSET (0 .. N), S # {}
  PROVE  Max(S) \in S
<1> DEFINE T == {m \in 0 .. N : N - m \in S}
<1>1. T \in SUBSET Nat /\ T # {}
  <2>1. PICK x \in S : TRUE
    OBVIOUS
  <2>2. N - x \in 0 .. N /\ N - (N - x) = x
    BY <2>1
  <2>3. N - x \in T
    BY <2>1, <2>2
  <2>4. T \in SUBSET Nat
    OBVIOUS
  <2> HIDE DEF T
  <2> QED
    BY <2>3, <2>4
<1>2. PICK m \in T : \A y \in T : m <= y
  <2> HIDE DEF T
  <2> QED
    BY <1>1, Least
<1>3. ASSUME NEW y \in S PROVE N - m >= y
  <2>1. N - y \in 0 .. N /\ N - (N - y) = y
    OBVIOUS
  <2>2. N - y \in T
    BY <2>1
  <2>3. m <= N - y
    BY <1>2, <2>2
  <2> QED
    BY <1>2, <2>3
<1>4. \E x \in S : \A y \in S : x >= y
  BY <1>2, <1>3
<1> QED
  BY <1>4 DEF Max

(* The ellipsis stands behind what is left of the line, and where any of    *)
(* it is left they fit.                                                     *)
LEMMA EllipsizedIs ==
  ASSUME NEW line \in Seq(Runes), NEW maxW
  PROVE  \E n \in 0 .. Len(line) :
           /\ Ellipsized(line, maxW) = SubSeq(line, 1, n) \o <<Ellipsis>>
           /\ n # 0 => ~ (TTFWidth(Ellipsized(line, maxW)) > maxW)
<1> DEFINE Cutting(n) == SubSeq(line, 1, n) \o <<Ellipsis>>
           fits == {n \in 1 .. Len(line) : ~ (TTFWidth(Cutting(n)) > maxW)}
           n == Max(fits \cup {0})
<1>1. Ellipsized(line, maxW) = Cutting(n)
  BY DEF Ellipsized
<1>2. Len(line) \in Nat
  OBVIOUS
<1> HIDE DEF Cutting
<1>3. fits \cup {0} \in SUBSET (0 .. Len(line)) /\ fits \cup {0} # {}
  BY <1>2
<1> DEFINE S == fits \cup {0}
           N == Len(line)
<1>4. n \in fits \cup {0}
  <2>1. S \in SUBSET (0 .. N) /\ S # {} /\ N \in Nat
    BY <1>2, <1>3
  <2> HIDE DEF S, N
  <2>2. Max(S) \in S
    BY <2>1, Greatest
  <2> QED
    BY <2>2 DEF S
<1> HIDE DEF n, S, N
<1>5. n \in 0 .. Len(line) /\ (n # 0 => ~ (TTFWidth(Cutting(n)) > maxW))
  BY <1>2, <1>4
<1> QED
  BY <1>1, <1>5 DEF Cutting

(* Lines read as what stands before the last of them, and then the last.    *)
LEMMA JoinedLast ==
  ASSUME NEW R, Blank \in R, NEW lines \in Seq(Seq(R))
  PROVE  \E h \in Seq(R) : \A x \in Seq(R) : Joined(Append(lines, x)) = h \o x
<1>1. CASE lines = <<>>
  <2>1. \A x \in Seq(R) : Joined(Append(lines, x)) = x
    BY <1>1, JoinedAppend
  <2>2. <<>> \in Seq(R) /\ \A x \in Seq(R) : <<>> \o x = x
    OBVIOUS
  <2> QED
    BY <2>1, <2>2
<1>2. CASE lines # <<>>
  <2> DEFINE b == <<Blank>>
             h == Joined(lines) \o b
  <2>1. Joined(lines) \in Seq(R)
    BY JoinedType
  <2>2. h \in Seq(R)
    BY <2>1
  <2>3. \A x \in Seq(R) : Joined(Append(lines, x)) = h \o x
    BY <1>2, JoinedAppend
  <2> QED
    BY <2>2, <2>3
<1> QED
  BY <1>1, <1>2

LEMMA LinesOf ==
  ASSUME NEW S, NEW lines \in Seq(S), NEW line \in ToSet(lines)
  PROVE  \E i \in 1 .. Len(lines) : line = lines[i]
BY DEF ToSet

LEMMA Behind ==
  ASSUME NEW R, NEW s \in Seq(R), NEW t \in Seq(R)
  PROVE  /\ s \o t \in Seq(R) /\ Len(s \o t) = Len(s) + Len(t)
         /\ \A i \in 1 .. Len(s) : (s \o t)[i] = s[i]
         /\ \A i \in 1 .. Len(t) : (s \o t)[Len(s) + i] = t[i]
<1>1. s \o t \in Seq(R) /\ Len(s \o t) = Len(s) + Len(t)
  OBVIOUS
<1>2. \A i \in 1 .. Len(s) : (s \o t)[i] = s[i]
  OBVIOUS
<1>3. \A i \in 1 .. Len(t) : (s \o t)[Len(s) + i] = t[i]
  OBVIOUS
<1> QED
  BY <1>1, <1>2, <1>3

(* A text cut off and marked, against the text it was cut from. *)
LEMMA CutText ==
  ASSUME NEW h \in Seq(Int), NEW x \in Seq(Int), NEW n \in 0 .. Len(x), NEW e \in Int,
         NEW words \in Seq(Int), Longer(h \o x, words)
  PROVE  LET w == h \o (SubSeq(x, 1, n) \o <<e>>)
         IN w # <<>> /\ Last(w) = e /\ IsStrictPrefix(Front(w), words)
<1> DEFINE p == SubSeq(x, 1, n)
           y == p \o <<e>>
           w == h \o y
           m == Len(h) + n
<1>1. p \in Seq(Int) /\ Len(p) = n /\ \A i \in 1 .. n : p[i] = x[i]
  OBVIOUS
<1>0. n \in Nat /\ Len(h) \in Nat /\ Len(x) \in Nat /\ n <= Len(x) /\ Len(words) \in Nat
  OBVIOUS
<1> HIDE DEF p
<1>2. /\ y \in Seq(Int) /\ Len(y) = n + 1 /\ y[n + 1] = e
      /\ \A i \in 1 .. n : y[i] = x[i]
  BY <1>0, <1>1
<1> HIDE DEF y
<1>3. /\ w \in Seq(Int) /\ Len(w) = m + 1
      /\ \A i \in 1 .. Len(h) : w[i] = h[i]
      /\ \A i \in 1 .. n + 1 : w[Len(h) + i] = y[i]
  <2>1. /\ w \in Seq(Int) /\ Len(w) = Len(h) + Len(y)
        /\ \A i \in 1 .. Len(h) : w[i] = h[i]
        /\ \A i \in 1 .. Len(y) : w[Len(h) + i] = y[i]
    <3> DEFINE R == Int
    <3>1. h \in Seq(R) /\ y \in Seq(R)
      BY <1>2
    <3> HIDE DEF R
    <3> QED
      BY <3>1, Behind DEF R
  <2> HIDE DEF w
  <2> QED
    BY <1>0, <1>2, <2>1
<1> DEFINE u == h \o x
<1>4. /\ u \in Seq(Int) /\ Len(u) = Len(h) + Len(x)
      /\ \A i \in 1 .. Len(h) : u[i] = h[i]
      /\ \A i \in 1 .. Len(x) : u[Len(h) + i] = x[i]
  BY <1>0
<1> HIDE DEF w, u
<1>5. \A i \in 1 .. m : w[i] = u[i]
  <2>1. ASSUME NEW i \in 1 .. m, ~(i <= Len(h)) PROVE w[i] = u[i]
    <3>1. i - Len(h) \in 1 .. n /\ i = Len(h) + (i - Len(h))
      BY <1>0, <2>1
    <3>2. i - Len(h) \in 1 .. n + 1 /\ i - Len(h) \in 1 .. Len(x)
      BY <1>0, <3>1
    <3>3. w[Len(h) + (i - Len(h))] = y[i - Len(h)]
      BY <1>3, <3>2
    <3>4. u[Len(h) + (i - Len(h))] = x[i - Len(h)]
      BY <1>4, <3>2
    <3>5. y[i - Len(h)] = x[i - Len(h)]
      BY <1>2, <3>1
    <3> QED
      BY <3>1, <3>3, <3>4, <3>5
  <2> QED
    BY <1>0, <1>3, <1>4, <2>1
<1>6. Len(u) < Len(words) /\ \A i \in 1 .. Len(u) : u[i] = words[i]
  BY DEF Longer, u
<1>7. m \in Nat /\ m < Len(words) /\ \A i \in 1 .. m : w[i] = words[i]
  BY <1>0, <1>4, <1>5, <1>6
<1>8. w # <<>> /\ Last(w) = e
  <2>1. w[Len(h) + (n + 1)] = y[n + 1]
    BY <1>0, <1>3
  <2>2. Len(w) = Len(h) + (n + 1)
    BY <1>0, <1>3
  <2> QED
    BY <1>0, <1>2, <1>3, <2>1, <2>2 DEF Last
<1> DEFINE f == SubSeq(w, 1, m)
<1>9. Front(w) = f
  <2>1. Len(w) - 1 = m
    BY <1>3, <1>7
  <2> QED
    BY <2>1 DEF Front
<1> HIDE DEF m
<1>10. f \in Seq(Int) /\ Len(f) = m /\ \A i \in 1 .. m : f[i] = w[i]
  BY <1>3, <1>7
<1> DEFINE v == SubSeq(words, 1, m)
<1>11. v \in Seq(Int) /\ Len(v) = m /\ \A i \in 1 .. m : v[i] = words[i]
  BY <1>7
<1> HIDE DEF f
<1>12. SubSeq(f, 1, m) = v
  <2> DEFINE z == SubSeq(f, 1, m)
  <2>1. z \in Seq(Int) /\ Len(z) = m /\ \A i \in 1 .. m : z[i] = f[i]
    BY <1>7, <1>10
  <2> HIDE DEF z, v
  <2>2. z = v
    BY <1>7, <1>10, <1>11, <2>1, SeqEqual
  <2> QED
    BY <2>2 DEF z
<1>13. IsStrictPrefix(f, words)
  BY <1>7, <1>10, <1>12 DEF IsStrictPrefix, IsPrefix
<1> QED
  BY <1>8, <1>9, <1>13 DEF w, y, p

(* The title, for any font: TitleReads as an operator of its text. *)
LEMMA WrapReads ==
  ASSUME NEW s \in Seq(Runes), NEW maxW, NEW max \in Nat \ {0}
  PROVE  LET lines == WrapTTF(s, maxW, max)
             written == Joined(lines)
             cut == written # <<>> /\ Last(written) = Ellipsis
             words == Joined(SplitWords(s))
         IN /\ Len(lines) <= max
            /\ IF cut THEN IsStrictPrefix(Front(written), words) ELSE written = words
            /\ \A line \in ToSet(lines) : Fits(line, maxW)
<1> DEFINE split == SplitWords(s)
           words == Joined(split)
           end == Placed(split, maxW, max)
           lines == WrapTTF(s, maxW, max)
           written == Joined(lines)
           cut == written # <<>> /\ Last(written) = Ellipsis
           Shown == /\ Len(lines) <= max
                    /\ IF cut THEN IsStrictPrefix(Front(written), words)
                              ELSE written = words
                    /\ \A line \in ToSet(lines) : Fits(line, maxW)
<1>0. split \in Seq(Words) /\ split \in Seq(Seq(Runes)) /\ Blank \in Runes
  <2>1. split \in Seq(Words)
    BY SplitType
  <2> QED
    BY <2>1, BlankRune DEF Words, Letters
<1>1. lines = IF Len(end.lines) = max
              THEN Append(Front(end.lines), Ellipsized(Last(end.lines), maxW))
              ELSE IF end.line = <<>> THEN end.lines ELSE Append(end.lines, end.line)
  BY DEF WrapTTF
<1> HIDE DEF split, end, lines
<1>2. /\ end.lines \in Seq(Seq(Runes)) /\ end.line \in Seq(Runes)
      /\ Len(end.lines) <= max
      /\ \A i \in 1 .. Len(end.lines) : Fits(end.lines[i], maxW)
      /\ end.line # <<>> => Fits(end.line, maxW)
      /\ Len(end.lines) # max =>
           words = IF end.line = <<>> THEN Joined(end.lines)
                   ELSE Joined(Append(end.lines, end.line))
      /\ Len(end.lines) = max => Longer(Joined(end.lines), words)
  BY <1>0, PlacedReads DEF end
<1> DEFINE ls == end.lines
           l == end.line
           n == Len(ls)
<1>3. n \in Nat /\ ls \in Seq(Seq(Runes)) /\ l \in Seq(Runes)
  BY <1>2
<1> HIDE DEF ls, l
<1>4. ASSUME n = max PROVE Shown
  <2> DEFINE pre == Front(ls)
             last == Last(ls)
             e == Ellipsized(last, maxW)
  <2>1. /\ pre \in Seq(Seq(Runes)) /\ Len(pre) = n - 1 /\ last \in Seq(Runes)
        /\ \A i \in 1 .. n - 1 : pre[i] = ls[i]
        /\ last = ls[n]
    BY <1>3, <1>4 DEF Front, Last
  <2>2. lines = Append(pre, e)
    BY <1>1, <1>4 DEF ls
  <2>3. ls = Append(pre, last)
    <3> HIDE DEF pre, last
    <3> DEFINE a == Append(pre, last)
    <3>1. /\ a \in Seq(Seq(Runes)) /\ Len(a) = Len(pre) + 1
          /\ \A i \in 1 .. Len(pre) : a[i] = pre[i]
          /\ a[Len(pre) + 1] = last
      BY <2>1, AppendLine
    <3> HIDE DEF a
    <3>2. Len(a) = n /\ a[n] = last /\ \A i \in 1 .. n - 1 : a[i] = ls[i]
      BY <1>3, <1>4, <2>1, <3>1
    <3>3. \A i \in 1 .. n : a[i] = ls[i]
      BY <1>3, <2>1, <3>2
    <3>4. a = ls
      BY <1>3, <3>1, <3>2, <3>3, SeqEqual
    <3> QED
      BY <3>4 DEF a
  <2> HIDE DEF pre, last
  <2>4. PICK m \in 0 .. Len(last) :
          /\ e = SubSeq(last, 1, m) \o <<Ellipsis>>
          /\ m # 0 => ~ (TTFWidth(e) > maxW)
    BY <2>1, EllipsizedIs
  <2> HIDE DEF e
  <2>5. pre \in Seq(Seq(Int)) /\ last \in Seq(Int) /\ Blank \in Int /\ Ellipsis \in Int
    BY <2>1 DEF Runes, Blank, Ellipsis
  <2>6. e \in Seq(Int)
    BY <2>4, <2>5
  <2>7. PICK h \in Seq(Int) : \A x \in Seq(Int) : Joined(Append(pre, x)) = h \o x
    BY <2>5, JoinedLast
  <2>8. written = h \o e /\ Joined(ls) = h \o last
    BY <2>2, <2>3, <2>5, <2>6, <2>7
  <2>9. Longer(h \o last, words) /\ words \in Seq(Int)
    <3>1. words \in Seq(Runes)
      BY <1>0, JoinedType
    <3> HIDE DEF words
    <3> QED
      BY <1>2, <1>4, <2>8, <3>1 DEF ls, Runes
  <2>10. /\ h \o (SubSeq(last, 1, m) \o <<Ellipsis>>) # <<>>
         /\ Last(h \o (SubSeq(last, 1, m) \o <<Ellipsis>>)) = Ellipsis
         /\ IsStrictPrefix(Front(h \o (SubSeq(last, 1, m) \o <<Ellipsis>>)), words)
    <3> HIDE DEF words
    <3> QED
      BY <2>5, <2>9, CutText
  <2>11. cut /\ IsStrictPrefix(Front(written), words)
    <3> HIDE DEF words, written
    <3> QED
      BY <2>4, <2>8, <2>10
  <2>12. Fits(e, maxW)
    <3>1. e # <<>>
      BY <2>4, <2>5
    <3>2. m = 0 => e = <<Ellipsis>>
      <4>1. SubSeq(last, 1, 0) = <<>> /\ <<>> \o <<Ellipsis>> = <<Ellipsis>>
        OBVIOUS
      <4> QED
        BY <2>4, <4>1
    <3>3. m = 0 => Blank \notin ToSet(e)
      <4>1. ToSet(<<Ellipsis>>) = {Ellipsis} /\ Blank # Ellipsis
        BY DEF ToSet, Blank, Ellipsis
      <4> QED
        BY <3>2, <4>1
    <3> QED
      BY <2>4, <3>1, <3>3 DEF Fits
  <2>13. \A line \in ToSet(lines) : Fits(line, maxW)
    <3>1. /\ lines \in Seq(Seq(Int)) /\ Len(lines) = Len(pre) + 1
          /\ \A i \in 1 .. Len(pre) : lines[i] = pre[i]
          /\ lines[Len(pre) + 1] = e
      BY <2>2, <2>5, <2>6, AppendLine
    <3>a. Len(pre) = n - 1 /\ Len(pre) + 1 = n
      BY <1>3, <2>1
    <3>b. /\ Len(lines) = n /\ lines[n] = e
          /\ \A i \in 1 .. n - 1 : lines[i] = ls[i]
      BY <2>1, <3>1, <3>a
    <3>2. \A i \in 1 .. n : Fits(ls[i], maxW)
      BY <1>2 DEF ls
    <3> HIDE DEF n
    <3>3. ASSUME NEW i \in 1 .. n PROVE Fits(lines[i], maxW)
      <4>1. i = n \/ i \in 1 .. n - 1
        BY <1>3
      <4> QED
        BY <2>12, <3>2, <3>b, <4>1
    <3> QED
      BY <3>1, <3>b, <3>3, LinesOf
  <2>14. Len(lines) <= max
    BY <1>3, <1>4, <2>1, <2>2, <2>5, <2>6
  <2> QED
    BY <2>11, <2>13, <2>14
<1>5. ASSUME n # max PROVE Shown
  <2>1. n < max
    BY <1>2, <1>3, <1>5 DEF ls
  <2>2. lines = IF l = <<>> THEN ls ELSE Append(ls, l)
    BY <1>1, <1>5 DEF ls, l
  <2>3. written = words
    BY <1>2, <1>5, <2>2 DEF ls, l
  <2>4. lines \in Seq(Seq(Runes)) /\ Len(lines) <= max
    BY <1>3, <2>1, <2>2
  <2>5. \A i \in 1 .. Len(lines) : Fits(lines[i], maxW)
    <3>1. CASE l = <<>>
      BY <1>2, <2>2, <3>1 DEF ls, l
    <3>2. CASE l # <<>>
      <4>1. /\ Len(lines) = n + 1 /\ lines[n + 1] = l
            /\ \A i \in 1 .. n : lines[i] = ls[i]
        BY <1>3, <2>2, <3>2, AppendLine
      <4>2. \A i \in 1 .. n : Fits(ls[i], maxW)
        BY <1>2 DEF ls
      <4>3. Fits(l, maxW)
        BY <1>2, <3>2 DEF l
      <4> HIDE DEF n
      <4>4. ASSUME NEW i \in 1 .. n + 1 PROVE Fits(lines[i], maxW)
        <5>1. i = n + 1 \/ i \in 1 .. n
          BY <1>3
        <5> QED
          BY <4>1, <4>2, <4>3, <5>1
      <4> QED
        BY <4>1, <4>4
    <3> QED
      BY <3>1, <3>2
  <2>6. ~cut
    <3>1. written \in Seq(Runes)
      BY <1>0, <2>4, JoinedType
    <3> HIDE DEF written
    <3>2. written # <<>> => written[Len(written)] \in Runes
      BY <3>1
    <3> QED
      BY <3>2 DEF Last, Runes
  <2>7. \A line \in ToSet(lines) : Fits(line, maxW)
    BY <2>4, <2>5, LinesOf
  <2> QED
    BY <2>3, <2>4, <2>6, <2>7
<1>6. Shown
  BY <1>4, <1>5
<1> QED
  BY <1>6 DEF lines, split

-----------------------------------------------------------------------------
(* Prices *)

(* The loop of Value. *)
ValueLoop(g, s) ==
  /\ g \in [0 .. Len(s) -> Int]
  /\ g[0] = 0
  /\ \A k \in 1 .. Len(s) : g[k] = IF s[k] < 0 THEN g[k - 1] ELSE 10 * g[k - 1] + s[k]

LEMMA ValueLoops ==
  ASSUME NEW s \in Seq(Int)
  PROVE  \E g : ValueLoop(g, s) /\ Value(s) = g[Len(s)]
<1> DEFINE N == Len(s)
           Body(g) == [k \in 0 .. N |->
                         IF k = 0 THEN 0
                         ELSE IF s[k] < 0 THEN g[k - 1] ELSE 10 * g[k - 1] + s[k]]
           F == [p \in Int \X (1 .. N) |->
                   IF s[p[2]] < 0 THEN p[1] ELSE 10 * p[1] + s[p[2]]]
           h == CHOOSE g : g = Body(g)
<1>0. N \in Nat /\ \A k \in 1 .. N : s[k] \in Int
  OBVIOUS
<1> HIDE DEF N
<1>1. F \in [Int \X (1 .. N) -> Int]
  BY <1>0
<1>2. PICK g : IsLoop(g, N, Int, 0, F)
  <2> DEFINE V == Int
  <2>1. 0 \in V /\ F \in [V \X (1 .. N) -> V]
    BY <1>1
  <2> HIDE DEF V, F
  <2>2. \E g : IsLoop(g, N, V, 0, F)
    BY <1>0, <2>1, Loop
  <2> QED
    BY <2>2 DEF V
<1>3. /\ g \in [0 .. N -> Int] /\ g[0] = 0
      /\ \A k \in 1 .. N : g[k] = F[<<g[k - 1], k>>]
  BY <1>2 DEF IsLoop
<1>4. ASSUME NEW k \in 1 .. N
      PROVE  g[k] = IF s[k] < 0 THEN g[k - 1] ELSE 10 * g[k - 1] + s[k]
  <2>1. g[k - 1] \in Int
    BY <1>0, <1>3
  <2> QED
    BY <1>3, <2>1
<1>5. g = Body(g)
  <2>1. ASSUME NEW k \in 0 .. N PROVE g[k] = Body(g)[k]
    <3>1. CASE k = 0
      BY <1>3, <3>1
    <3>2. CASE k # 0
      <4>1. k \in 1 .. N
        BY <1>0, <3>2
      <4> QED
        BY <1>4, <3>2, <4>1
    <3> QED
      BY <3>1, <3>2
  <2> QED
    BY <1>3, <2>1
<1>6. h = Body(h)
  <2> HIDE DEF Body
  <2> QED
    BY <1>5
<1> HIDE DEF h, F
<1>7. \A k \in 0 .. N : h[k] = g[k]
  <2>1. h[0] = g[0]
    BY <1>0, <1>5, <1>6
  <2>2. ASSUME NEW k \in 1 .. N, h[k - 1] = g[k - 1] PROVE h[k] = g[k]
    <3>1. h[k] = Body(h)[k] /\ g[k] = Body(g)[k]
      BY <1>5, <1>6
    <3> QED
      BY <1>0, <2>2, <3>1
  <2> QED
    BY <1>0, <2>1, <2>2, Agree
<1>8. Value(s) = h[N]
  BY DEF Value, h, N
<1>9. ValueLoop(g, s)
  BY <1>3, <1>4 DEF ValueLoop, N
<1>10. Value(s) = g[Len(s)]
  BY <1>0, <1>7, <1>8 DEF N
<1> QED
  BY <1>9, <1>10

LEMMA ValueType ==
  ASSUME NEW s \in Seq(Int)
  PROVE  Value(s) \in Int
<1>1. PICK g : ValueLoop(g, s) /\ Value(s) = g[Len(s)]
  BY ValueLoops
<1>2. Len(s) \in 0 .. Len(s)
  OBVIOUS
<1> QED
  BY <1>1, <1>2 DEF ValueLoop

LEMMA ValueNone == Value(<<>>) = 0
<1>1. <<>> \in Seq(Int) /\ Len(<<>>) = 0
  OBVIOUS
<1>2. PICK g : ValueLoop(g, <<>>) /\ Value(<<>>) = g[Len(<<>>)]
  BY <1>1, ValueLoops
<1> QED
  BY <1>1, <1>2 DEF ValueLoop

(* One rune more: a digit counts, a sign does not. *)
LEMMA ValueAppend ==
  ASSUME NEW s \in Seq(Int), NEW x \in Int
  PROVE  Value(s \o <<x>>) = IF x < 0 THEN Value(s) ELSE 10 * Value(s) + x
<1> DEFINE N == Len(s)
           all == s \o <<x>>
<1>1. /\ N \in Nat /\ all \in Seq(Int) /\ Len(all) = N + 1 /\ all[N + 1] = x
      /\ \A k \in 1 .. N : all[k] = s[k]
  OBVIOUS
<1>2. PICK g : ValueLoop(g, s) /\ Value(s) = g[N]
  BY ValueLoops
<1> HIDE DEF all
<1>3. PICK h : ValueLoop(h, all) /\ Value(all) = h[N + 1]
  <2>1. PICK h : ValueLoop(h, all) /\ Value(all) = h[Len(all)]
    BY <1>1, ValueLoops
  <2> QED
    BY <1>1, <2>1
<1>4. \A k \in 0 .. N : h[k] = g[k]
  <2>1. h[0] = g[0]
    BY <1>2, <1>3 DEF ValueLoop
  <2>2. ASSUME NEW k \in 1 .. N, h[k - 1] = g[k - 1] PROVE h[k] = g[k]
    <3>1. k \in 1 .. N + 1 /\ all[k] = s[k]
      BY <1>1
    <3>2. h[k] = IF all[k] < 0 THEN h[k - 1] ELSE 10 * h[k - 1] + all[k]
      BY <1>1, <1>3, <3>1 DEF ValueLoop
    <3>3. g[k] = IF s[k] < 0 THEN g[k - 1] ELSE 10 * g[k - 1] + s[k]
      BY <1>2 DEF ValueLoop
    <3> QED
      BY <2>2, <3>1, <3>2, <3>3
  <2> HIDE DEF N
  <2> QED
    BY <1>1, <2>1, <2>2, Agree
<1>5. h[N + 1] = IF x < 0 THEN h[N] ELSE 10 * h[N] + x
  <2> DEFINE m == N + 1
  <2>1. m \in 1 .. Len(all) /\ m - 1 = N
    BY <1>1
  <2> HIDE DEF m
  <2>2. h[m] = IF all[m] < 0 THEN h[m - 1] ELSE 10 * h[m - 1] + all[m]
    BY <1>3, <2>1 DEF ValueLoop
  <2> QED
    BY <1>1, <2>1, <2>2 DEF m
<1>6. h[N] = g[N]
  BY <1>1, <1>4
<1> QED
  BY <1>2, <1>3, <1>5, <1>6 DEF all

(* Text behind other text, a rune at a time. *)
LEMMA ValueBehind ==
  ASSUME NEW p \in Seq(Int), NEW s \in Seq(Int), NEW x \in Int
  PROVE  Value(p \o (s \o <<x>>)) =
           IF x < 0 THEN Value(p \o s) ELSE 10 * Value(p \o s) + x
<1> DEFINE q == p \o s
           t == <<x>>
<1>1. q \in Seq(Int) /\ t \in Seq(Int)
  OBVIOUS
<1>2. p \o (s \o t) = (p \o s) \o t
  <2> HIDE DEF t
  <2> QED
    BY <1>1, ConcatAssociative
<1> HIDE DEF q
<1>3. Value(q \o <<x>>) = IF x < 0 THEN Value(q) ELSE 10 * Value(q) + x
  BY <1>1, ValueAppend
<1> QED
  BY <1>2, <1>3 DEF q, t

(* The digits of a number, by the ones of its tenth. *)
DigitLoop(g, N) ==
  /\ g \in [0 .. N -> Seq(0 .. 9)]
  /\ \A m \in 0 .. N : g[m] = (IF m < 10 THEN <<>> ELSE g[m \div 10]) \o <<m % 10>>

LEMMA Tenth ==
  ASSUME NEW m \in Nat
  PROVE  /\ m % 10 \in 0 .. 9 /\ m \div 10 \in Nat /\ m = 10 * (m \div 10) + (m % 10)
         /\ m >= 10 => m \div 10 < m /\ m \div 10 # 0
         /\ m < 10 => m % 10 = m
  OBVIOUS

LEMMA DigitLoops ==
  ASSUME NEW N \in Nat
  PROVE  \E g : DigitLoop(g, N)
<1> DEFINE T == {n \in 0 .. N : \E g : DigitLoop(g, n)}
           V == Seq(0 .. 9)
<1>1. 0 \in T
  <2> DEFINE g == [m \in 0 .. 0 |-> <<>> \o <<0>>]
  <2>1. <<>> \o <<0>> \in V
    OBVIOUS
  <2>2. 0 % 10 = 0 /\ 0 < 10
    OBVIOUS
  <2> HIDE DEF V
  <2>3. g \in [0 .. 0 -> V] /\ \A m \in 0 .. 0 : m = 0 /\ g[m] = <<>> \o <<0>>
    BY <2>1
  <2> HIDE DEF g
  <2>4. DigitLoop(g, 0)
    BY <2>2, <2>3 DEF DigitLoop, V
  <2> QED
    BY <2>4
<1>2. ASSUME NEW n \in 1 .. N, n - 1 \in T PROVE n \in T
  <2>1. PICK g : DigitLoop(g, n - 1)
    BY <1>2
  <2> DEFINE s == (IF n < 10 THEN <<>> ELSE g[n \div 10]) \o <<n % 10>>
             h == [m \in 0 .. n |-> IF m = n THEN s ELSE g[m]]
  <2>2. /\ n \in Nat /\ n # 0 /\ n % 10 \in 0 .. 9
        /\ n >= 10 => n \div 10 \in 0 .. n - 1
    <3>1. n \in Nat
      OBVIOUS
    <3> QED
      BY <3>1, Tenth
  <2>3. s \in V
    <3>1. (IF n < 10 THEN <<>> ELSE g[n \div 10]) \in V
      BY <2>1, <2>2 DEF DigitLoop
    <3>2. <<n % 10>> \in V
      BY <2>2
    <3> QED
      BY <3>1, <3>2
  <2> HIDE DEF s, V
  <2>4. h \in [0 .. n -> V]
    <3>1. \A m \in 0 .. n - 1 : g[m] \in V
      BY <2>1 DEF DigitLoop, V
    <3>2. \A m \in 0 .. n : m # n => m \in 0 .. n - 1
      BY <2>2
    <3> QED
      BY <2>3, <3>1, <3>2
  <2>5. ASSUME NEW m \in 0 .. n
        PROVE  h[m] = (IF m < 10 THEN <<>> ELSE h[m \div 10]) \o <<m % 10>>
    <3>0. m >= 10 => m \div 10 \in 0 .. n - 1 /\ h[m \div 10] = g[m \div 10]
      <4>1. m \in Nat
        OBVIOUS
      <4>2. m >= 10 => m \div 10 < m
        BY <4>1, Tenth
      <4>3. m >= 10 => m \div 10 \in Nat
        BY <4>1, Tenth
      <4>4. m >= 10 => m \div 10 \in 0 .. n - 1
        <5> DEFINE k == m \div 10
        <5> HIDE DEF k
        <5>1. m >= 10 => k < m /\ k \in Nat
          BY <4>2, <4>3 DEF k
        <5>2. m >= 10 => k \in 0 .. n - 1
          BY <2>2, <4>1, <5>1
        <5> QED
          BY <5>2 DEF k
      <4> QED
        BY <2>2, <4>4
    <3>1. CASE m = n
      <4>1. h[m] = (IF m < 10 THEN <<>> ELSE g[m \div 10]) \o <<m % 10>>
        BY <3>1 DEF s
      <4> HIDE DEF h
      <4>2. CASE m < 10
        BY <4>1, <4>2
      <4>3. CASE ~ (m < 10)
        <5>1. m >= 10
          BY <4>3
        <5> QED
          BY <3>0, <4>1, <4>3, <5>1
      <4> QED
        BY <4>2, <4>3
    <3>2. CASE m # n
      <4>1. m \in 0 .. n - 1 /\ h[m] = g[m]
        BY <2>2, <3>2
      <4>2. g[m] = (IF m < 10 THEN <<>> ELSE g[m \div 10]) \o <<m % 10>>
        BY <2>1, <4>1 DEF DigitLoop
      <4> HIDE DEF h
      <4>3. CASE m < 10
        BY <4>1, <4>2, <4>3
      <4>4. CASE ~ (m < 10)
        <5>1. m >= 10
          BY <4>4
        <5> QED
          BY <3>0, <4>1, <4>2, <4>4, <5>1
      <4> QED
        BY <4>3, <4>4
    <3> QED
      BY <3>1, <3>2
  <2> HIDE DEF h
  <2>6. DigitLoop(h, n)
    BY <2>4, <2>5 DEF DigitLoop, V
  <2> QED
    BY <2>2, <2>6
<1> HIDE DEF T
<1>3. \A n \in 0 .. N : n \in T
  BY <1>1, <1>2, Induction
<1>4. N \in 0 .. N
  OBVIOUS
<1> QED
  BY <1>3, <1>4 DEF T

LEMMA DigitsAreRunes ==
  ASSUME NEW s \in Seq(0 .. 9)
  PROVE  s \in Seq(Int)
<1>1. 0 .. 9 \subseteq Int
  OBVIOUS
<1> QED
  BY <1>1, SeqMonotonic

LEMMA Pair ==
  ASSUME NEW x \in Int, NEW y \in Int
  PROVE  <<x>> \o <<y>> = <<x, y>> /\ <<>> \o <<x>> = <<x>>
<1> DEFINE s == <<x>>
           t == <<y>>
           u == s \o t
           v == <<x, y>>
<1>1. s \in Seq(Int) /\ t \in Seq(Int) /\ Len(s) = 1 /\ Len(t) = 1 /\ s[1] = x /\ t[1] = y
  OBVIOUS
<1>2. v \in Seq(Int) /\ Len(v) = 2 /\ v[1] = x /\ v[2] = y
  OBVIOUS
<1> HIDE DEF s, t, v
<1>3. u \in Seq(Int) /\ Len(u) = 2 /\ u[1] = s[1] /\ u[2] = t[1]
  <2> DEFINE R == Int
  <2>1. s \in Seq(R) /\ t \in Seq(R)
    BY <1>1
  <2> HIDE DEF R
  <2>2. /\ u \in Seq(R) /\ Len(u) = Len(s) + Len(t)
        /\ \A i \in 1 .. Len(s) : u[i] = s[i]
        /\ \A i \in 1 .. Len(t) : u[Len(s) + i] = t[i]
    BY <2>1, Behind
  <2> HIDE DEF u
  <2> QED
    BY <1>1, <2>2 DEF R
<1> HIDE DEF u
<1>4. \A i \in 1 .. Len(u) : u[i] = v[i]
  <2>1. \A i \in 1 .. 2 : i = 1 \/ i = 2
    OBVIOUS
  <2> QED
    BY <1>1, <1>2, <1>3, <2>1
<1>5. u = v
  BY <1>2, <1>3, <1>4, SeqEqual
<1>6. <<>> \o s = s
  BY <1>1, ConcatEmptySeq
<1> QED
  BY <1>5, <1>6 DEF u, v, s, t

LEMMA ItoaDigits ==
  ASSUME NEW n \in Int
  PROVE  LET N == IF n < 0 THEN - n ELSE n IN
         \E g : DigitLoop(g, N) /\ Itoa(n) = IF n < 0 THEN <<Minus>> \o g[N] ELSE g[N]
<1> DEFINE N == IF n < 0 THEN - n ELSE n
           Body(g) == [m \in 0 .. N |->
                         (IF m < 10 THEN <<>> ELSE g[m \div 10]) \o <<m % 10>>]
           h == CHOOSE g : g = Body(g)
<1>0. N \in Nat
  OBVIOUS
<1>1. Itoa(n) = IF n < 0 THEN <<Minus>> \o h[N] ELSE h[N]
  BY DEF Itoa
<1> HIDE DEF N
<1>2. PICK g : DigitLoop(g, N)
  BY <1>0, DigitLoops
<1>3. g = Body(g)
  BY <1>2 DEF DigitLoop
<1>4. h = Body(h)
  <2> HIDE DEF Body
  <2> QED
    BY <1>3
<1> HIDE DEF h
<1>5. \A m \in 0 .. N : h[m] = g[m]
  <2> SUFFICES ASSUME NEW k \in 0 .. N, h[k] # g[k] PROVE FALSE
    OBVIOUS
  <2> DEFINE U == {m \in 0 .. N : h[m] # g[m]}
  <2>1. U \in SUBSET Nat /\ U # {}
    OBVIOUS
  <2>2. PICK m \in U : \A y \in U : m <= y
    <3> HIDE DEF U
    <3> QED
      BY <2>1, Least
  <2>3. m \in 0 .. N /\ m \in Nat
    BY <2>2
  <2> HIDE DEF U
  <2>4. /\ h[m] = (IF m < 10 THEN <<>> ELSE h[m \div 10]) \o <<m % 10>>
        /\ g[m] = (IF m < 10 THEN <<>> ELSE g[m \div 10]) \o <<m % 10>>
    <3>1. h[m] = Body(h)[m] /\ g[m] = Body(g)[m]
      BY <1>3, <1>4
    <3> QED
      BY <2>3, <3>1
  <2>5. h[m] # g[m]
    BY <2>2 DEF U
  <2>6. ~ (m < 10) /\ h[m \div 10] # g[m \div 10]
    BY <2>4, <2>5
  <2>7. m \div 10 \in Nat /\ m \div 10 < m
    BY <2>3, <2>6, Tenth
  <2> DEFINE t == m \div 10
  <2> HIDE DEF t
  <2>8. t \in 0 .. N /\ h[t] # g[t] /\ t < m
    BY <1>0, <2>3, <2>6, <2>7 DEF t
  <2>9. t \in U
    BY <2>8 DEF U
  <2> QED
    BY <2>2, <2>3, <2>8, <2>9
<1>6. h[N] = g[N]
  BY <1>0, <1>5
<1> QED
  BY <1>1, <1>2, <1>6 DEF N

(* Behind signs, the digits of a number read as the number. *)
LEMMA DigitsRead ==
  ASSUME NEW N \in Nat, NEW g, DigitLoop(g, N), NEW p \in Seq(Int), Value(p) = 0
  PROVE  \A m \in 0 .. N : Value(p \o g[m]) = m
<1> SUFFICES ASSUME NEW k \in 0 .. N, Value(p \o g[k]) # k PROVE FALSE
  OBVIOUS
<1> DEFINE U == {m \in 0 .. N : Value(p \o g[m]) # m}
<1>1. U \in SUBSET Nat /\ U # {}
  OBVIOUS
<1>2. PICK m \in U : \A y \in U : m <= y
  <2> HIDE DEF U
  <2> QED
    BY <1>1, Least
<1>3. m \in 0 .. N /\ m \in Nat /\ Value(p \o g[m]) # m
  BY <1>2
<1> DEFINE t == m \div 10
           d == m % 10
           s == IF m < 10 THEN <<>> ELSE g[t]
<1>4. /\ d \in 0 .. 9 /\ t \in Nat /\ m = 10 * t + d
      /\ m >= 10 => t < m
      /\ m < 10 => d = m
  BY <1>3, Tenth
<1>5. g[m] = s \o <<d>>
  BY <1>3 DEF DigitLoop
<1> HIDE DEF t, d, U
<1>6. s \in Seq(Int)
  <2>1. m >= 10 => t \in 0 .. N
    BY <1>3, <1>4
  <2>2. m >= 10 => g[t] \in Seq(0 .. 9)
    BY <2>1 DEF DigitLoop
  <2>3. m >= 10 => g[t] \in Seq(Int)
    BY <2>2, DigitsAreRunes
  <2> QED
    BY <1>3, <2>3
<1> HIDE DEF s
<1>7. Value(p \o (s \o <<d>>)) = 10 * Value(p \o s) + d
  <2>1. d \in Int /\ ~ (d < 0)
    BY <1>4
  <2> QED
    BY <1>6, <2>1, ValueBehind
<1>8. CASE m < 10
  <2>1. s = <<>> /\ p \o <<>> = p
    BY <1>8 DEF s
  <2> QED
    BY <1>3, <1>4, <1>5, <1>7, <1>8, <2>1
<1>9. CASE ~ (m < 10)
  <2>1. s = g[t]
    BY <1>9 DEF s
  <2>2. t \in 0 .. N /\ t < m
    BY <1>3, <1>4, <1>9
  <2>3. t \notin U
    BY <1>2, <1>3, <1>4, <2>2
  <2>4. Value(p \o s) = t
    BY <2>1, <2>2, <2>3 DEF U
  <2> QED
    BY <1>3, <1>4, <1>5, <1>7, <2>4
<1> QED
  BY <1>8, <1>9

LEMMA ItoaSmall ==
  ASSUME NEW n \in 0 .. 99
  PROVE  Itoa(n) = IF n < 10 THEN <<n>> ELSE <<n \div 10, n % 10>>
<1>1. n \in Nat /\ n \in Int /\ ~ (n < 0) /\ n \in 0 .. n /\ n <= 99
  OBVIOUS
<1>2. PICK g : DigitLoop(g, n) /\ Itoa(n) = g[n]
  <2> DEFINE N == IF n < 0 THEN - n ELSE n
  <2>1. N = n
    BY <1>1
  <2> HIDE DEF N
  <2>2. \E g : DigitLoop(g, N) /\ Itoa(n) = IF n < 0 THEN <<Minus>> \o g[N] ELSE g[N]
    BY <1>1, ItoaDigits DEF N
  <2> QED
    BY <1>1, <2>1, <2>2
<1>3. g[n] = (IF n < 10 THEN <<>> ELSE g[n \div 10]) \o <<n % 10>>
  BY <1>1, <1>2 DEF DigitLoop
<1>4. CASE n < 10
  <2>1. n % 10 = n /\ <<>> \o <<n>> = <<n>>
    BY <1>1, <1>4, Tenth
  <2> QED
    BY <1>2, <1>3, <1>4, <2>1
<1>5. CASE ~ (n < 10)
  <2> DEFINE t == n \div 10
             d == n % 10
  <2>1. t \in 0 .. 9 /\ t \in 0 .. n /\ t % 10 = t
    BY <1>1, <1>5
  <2> HIDE DEF t
  <2>2. g[t] = (IF t < 10 THEN <<>> ELSE g[t \div 10]) \o <<t % 10>>
    BY <1>2, <2>1 DEF DigitLoop
  <2>3. g[t] = <<t>>
    <3>1. <<>> \o <<t>> = <<t>>
      BY <2>1, Pair
    <3>2. t < 10
      BY <2>1
    <3> QED
      BY <2>1, <2>2, <3>1, <3>2
  <2>4. <<t>> \o <<d>> = <<t, d>>
    <3>1. d \in Int
      BY <1>1, Tenth
    <3> HIDE DEF d
    <3> QED
      BY <2>1, <3>1, Pair
  <2> QED
    BY <1>2, <1>3, <1>5, <2>3, <2>4 DEF t
<1> QED
  BY <1>4, <1>5

LEMMA Pad2Is ==
  ASSUME NEW n \in 0 .. 99
  PROVE  /\ Pad2(n) = <<n \div 10, n % 10>>
         /\ n \div 10 \in 0 .. 9 /\ n % 10 \in 0 .. 9 /\ n = 10 * (n \div 10) + (n % 10)
<1>1. n \div 10 \in 0 .. 9 /\ n % 10 \in 0 .. 9 /\ n = 10 * (n \div 10) + (n % 10)
  OBVIOUS
<1>2. CASE n < 10
  <2>1. Itoa(n) = <<n>> /\ n \div 10 = 0 /\ n % 10 = n
    BY <1>2, ItoaSmall
  <2>2. Itoa(0) = <<0>>
    <3>1. 0 \in 0 .. 99 /\ 0 < 10
      OBVIOUS
    <3> QED
      BY <3>1, ItoaSmall
  <2>3. <<0>> \o <<n>> = <<0, n>>
    BY Pair
  <2> QED
    BY <1>1, <1>2, <2>1, <2>2, <2>3 DEF Pad2
<1>3. CASE ~ (n < 10)
  BY <1>1, <1>3, ItoaSmall DEF Pad2
<1> QED
  BY <1>2, <1>3

LEMMA BothSets ==
  ASSUME NEW R, NEW s \in Seq(R), NEW t \in Seq(R)
  PROVE  ToSet(s \o t) = ToSet(s) \cup ToSet(t)
<1> DEFINE u == s \o t
<1>1. /\ u \in Seq(R) /\ Len(u) = Len(s) + Len(t)
      /\ \A i \in 1 .. Len(s) : u[i] = s[i]
      /\ \A i \in 1 .. Len(t) : u[Len(s) + i] = t[i]
  BY Behind
<1>2. Len(s) \in Nat /\ Len(t) \in Nat
  OBVIOUS
<1> HIDE DEF u
<1>3. /\ ToSet(u) = {u[i] : i \in 1 .. Len(u)}
      /\ ToSet(s) = {s[i] : i \in 1 .. Len(s)}
      /\ ToSet(t) = {t[i] : i \in 1 .. Len(t)}
  <2>1. DOMAIN u = 1 .. Len(u) /\ DOMAIN s = 1 .. Len(s) /\ DOMAIN t = 1 .. Len(t)
    BY <1>1, LenProperties
  <2> QED
    BY <2>1 DEF ToSet
<1>4. ASSUME NEW i \in 1 .. Len(u) PROVE u[i] \in ToSet(s) \cup ToSet(t)
  <2>1. CASE i \in 1 .. Len(s)
    BY <1>1, <1>3, <2>1
  <2>2. CASE i \notin 1 .. Len(s)
    <3> DEFINE k == i - Len(s)
    <3>1. k \in 1 .. Len(t) /\ i = Len(s) + k
      BY <1>1, <1>2, <2>2
    <3> HIDE DEF k
    <3> QED
      BY <1>1, <1>3, <3>1
  <2> QED
    BY <2>1, <2>2
<1>5. ASSUME NEW i \in 1 .. Len(s) PROVE s[i] \in ToSet(u)
  <2>1. i \in 1 .. Len(u)
    BY <1>1, <1>2
  <2> QED
    BY <1>1, <1>3, <2>1
<1>6. ASSUME NEW i \in 1 .. Len(t) PROVE t[i] \in ToSet(u)
  <2>1. Len(s) + i \in 1 .. Len(u)
    BY <1>1, <1>2
  <2> QED
    BY <1>1, <1>3, <2>1
<1>7. ToSet(u) = ToSet(s) \cup ToSet(t)
  BY <1>3, <1>4, <1>5, <1>6
<1> QED
  BY <1>7 DEF u

LEMMA Hundreds ==
  ASSUME NEW cents \in Int
  PROVE  LET m == IF cents < 0 THEN - cents ELSE cents
             d == Quotient(cents, 100)
             c == cents - 100 * d
         IN /\ m \in Nat /\ d \in Int
            /\ m \div 100 \in Nat /\ m % 100 \in 0 .. 99
            /\ m = 100 * (m \div 100) + (m % 100)
            /\ d = IF cents < 0 THEN - (m \div 100) ELSE m \div 100
            /\ (IF c < 0 THEN - c ELSE c) = m % 100
            /\ cents \notin -99 .. -1 => (d < 0 <=> cents < 0)
<1> DEFINE m == IF cents < 0 THEN - cents ELSE cents
           d == Quotient(cents, 100)
           c == cents - 100 * d
           q == m \div 100
           z == m % 100
<1>1. m \in Nat
  OBVIOUS
<1>2. d = IF cents < 0 THEN - q ELSE q
  BY DEF Quotient
<1> HIDE DEF d
<1>3. q \in Nat /\ z \in 0 .. 99 /\ m = 100 * q + z
  <2> HIDE DEF m
  <2> QED
    BY <1>1
<1> HIDE DEF q, z
<1>4. d \in Int /\ (IF c < 0 THEN - c ELSE c) = z
  BY <1>2, <1>3
<1>5. cents \notin -99 .. -1 => (d < 0 <=> cents < 0)
  BY <1>2, <1>3
<1> QED
  BY <1>1, <1>2, <1>3, <1>4, <1>5 DEF q, z, d

(* The dollars of a price, behind their sign. *)
LEMMA DollarsRead ==
  ASSUME NEW d \in Int
  PROVE  LET q == <<Dollar>> \o Itoa(d) IN
         /\ q \in Seq(Int)
         /\ Value(q) = IF d < 0 THEN - d ELSE d
         /\ Minus \in ToSet(q) <=> d < 0
<1> DEFINE N == IF d < 0 THEN - d ELSE d
           dollar == <<Dollar>>
           minus == <<Minus>>
           q == dollar \o Itoa(d)
           both == dollar \o minus
<1>0. N \in Nat /\ Dollar \in Int /\ Minus \in Int
  BY DEF Dollar, Minus
<1>1. PICK g : DigitLoop(g, N) /\ Itoa(d) = IF d < 0 THEN <<Minus>> \o g[N] ELSE g[N]
  BY ItoaDigits
<1> DEFINE s == g[N]
<1> HIDE DEF N
<1>2. s \in Seq(0 .. 9) /\ s \in Seq(Int)
  <2>1. s \in Seq(0 .. 9)
    BY <1>0, <1>1 DEF DigitLoop
  <2> QED
    BY <2>1, DigitsAreRunes
<1>3. /\ dollar \in Seq(Int) /\ minus \in Seq(Int) /\ both \in Seq(Int)
      /\ ToSet(dollar) = {Dollar} /\ ToSet(minus) = {Minus}
  <2>1. dollar \in Seq(Int) /\ minus \in Seq(Int)
    BY <1>0
  <2>2. ToSet(dollar) = {Dollar} /\ ToSet(minus) = {Minus}
    BY DEF ToSet
  <2> HIDE DEF dollar, minus
  <2> QED
    BY <2>1, <2>2
<1>4. Value(dollar) = 0
  <2>1. <<>> \in Seq(Int) /\ <<>> \o dollar = dollar
    BY <1>3, ConcatEmptySeq
  <2> DEFINE none == <<>>
  <2>2. none \in Seq(Int) /\ Dollar < 0
    BY DEF Dollar
  <2> HIDE DEF none
  <2>3. Value(none \o <<Dollar>>) = Value(none)
    BY <1>0, <2>2, ValueAppend
  <2> QED
    BY <2>1, <2>3, ValueNone DEF none
<1>5. Value(both) = 0
  <2>1. Value(dollar \o <<Minus>>) = Value(dollar)
    <3> HIDE DEF dollar
    <3> QED
      BY <1>0, <1>3, ValueAppend DEF Minus
  <2> QED
    BY <1>4, <2>1
<1>6. \A x \in ToSet(s) : x \in 0 .. 9
  <2>1. \A i \in 1 .. Len(s) : s[i] \in 0 .. 9
    BY <1>2
  <2> QED
    BY <1>2, <2>1 DEF ToSet
<1>a. Minus \notin ToSet(s) /\ Minus # Dollar
  <2>1. Minus \notin 0 .. 9 /\ Minus # Dollar
    BY DEF Minus, Dollar
  <2> QED
    BY <1>6, <2>1
<1>b. N \in 0 .. N
  BY <1>0
<1>7. CASE d < 0
  <2>1. q = dollar \o (minus \o s)
    BY <1>1, <1>7
  <2> HIDE DEF s, q, dollar, minus
  <2>2. q = both \o s
    BY <1>2, <1>3, <2>1, ConcatAssociative
  <2>3. ToSet(both) = ToSet(dollar) \cup ToSet(minus)
    BY <1>3, BothSets
  <2> HIDE DEF both
  <2>4. q \in Seq(Int) /\ ToSet(q) = ToSet(both) \cup ToSet(s)
    BY <1>2, <1>3, <2>2, BothSets
  <2>5. Value(both \o g[N]) = N
    BY <1>0, <1>1, <1>3, <1>5, <1>b, DigitsRead
  <2> QED
    BY <1>3, <1>7, <2>2, <2>3, <2>4, <2>5 DEF N, s, q, dollar
<1>8. CASE ~ (d < 0)
  <2>1. q = dollar \o s
    BY <1>1, <1>8
  <2> HIDE DEF s, q, dollar
  <2>2. q \in Seq(Int) /\ ToSet(q) = ToSet(dollar) \cup ToSet(s)
    BY <1>2, <1>3, <2>1, BothSets
  <2>3. Value(dollar \o g[N]) = N
    BY <1>0, <1>1, <1>3, <1>4, <1>b, DigitsRead
  <2> QED
    BY <1>3, <1>8, <1>a, <2>1, <2>2, <2>3 DEF N, s, q, dollar
<1> QED
  BY <1>7, <1>8

(* The price, of any number of cents: PriceReads as an operator of its      *)
(* text.                                                                    *)
LEMMA FormatReads ==
  ASSUME NEW cents \in Int, cents \notin -99 .. -1
  PROVE  LET price == FormatPrice(cents) IN
         /\ Value(price) = (IF cents < 0 THEN - cents ELSE cents)
         /\ Minus \in ToSet(price) <=> cents < 0
         /\ price[Len(price) - 2] = Dot
<1> DEFINE m == IF cents < 0 THEN - cents ELSE cents
           d == Quotient(cents, 100)
           c == cents - 100 * d
           r == IF c < 0 THEN - c ELSE c
           q == <<Dollar>> \o Itoa(d)
           dot == <<Dot>>
           qd == q \o dot
           a == r \div 10
           b == r % 10
           end == <<a, b>>
           price == FormatPrice(cents)
<1>1. /\ m \in Nat /\ d \in Int /\ r \in 0 .. 99
      /\ m = 100 * (IF d < 0 THEN - d ELSE d) + r
      /\ d < 0 <=> cents < 0
  <2> DEFINE u == m \div 100
             v == m % 100
  <2>1. /\ m \in Nat /\ d \in Int /\ u \in Nat /\ v \in 0 .. 99 /\ m = 100 * u + v
        /\ d = IF cents < 0 THEN - u ELSE u
        /\ r = v
        /\ d < 0 <=> cents < 0
    BY Hundreds
  <2> HIDE DEF u, v, r, d, m
  <2> QED
    BY <2>1
<1>2. price = (<<Dollar>> \o Itoa(d) \o <<Dot>>) \o Pad2(r)
  BY DEF FormatPrice
<1> HIDE DEF m, d, r, price
<1>3. /\ Pad2(r) = end
      /\ a \in 0 .. 9 /\ b \in 0 .. 9 /\ r = 10 * a + b
  BY <1>1, Pad2Is
<1>4. /\ q \in Seq(Int) /\ Value(q) = (IF d < 0 THEN - d ELSE d)
      /\ Minus \in ToSet(q) <=> d < 0
  BY <1>1, DollarsRead
<1>5. price = qd \o end
  BY <1>2, <1>3
<1> HIDE DEF q, a, b
<1>6. /\ dot \in Seq(Int) /\ Len(dot) = 1 /\ dot[1] = Dot /\ ToSet(dot) = {Dot}
      /\ end \in Seq(Int) /\ Len(end) = 2 /\ ToSet(end) = {a, b}
      /\ Dot \in Int /\ Dot < 0 /\ Minus # Dot /\ Minus < 0
  <2>1. dot \in Seq(Int) /\ Len(dot) = 1 /\ dot[1] = Dot /\ Dot \in Int /\ Dot < 0
    BY DEF Dot
  <2>2. end \in Seq(Int) /\ Len(end) = 2
    BY <1>3
  <2>3. ToSet(dot) = {Dot}
    BY DEF ToSet
  <2>4. ToSet(end) = {a, b}
    <3>1. DOMAIN end = {1, 2} /\ end[1] = a /\ end[2] = b
      OBVIOUS
    <3> HIDE DEF end
    <3> QED
      BY <3>1 DEF ToSet
  <2>5. Minus # Dot /\ Minus < 0
    BY DEF Minus, Dot
  <2> QED
    BY <2>1, <2>2, <2>3, <2>4, <2>5
<1>7. Value(qd) = Value(q)
  BY <1>4, <1>6, ValueAppend
<1> DEFINE one == <<a>>
<1>8. end = one \o <<b>> /\ one \in Seq(Int)
  <2>1. a \in Int /\ b \in Int
    BY <1>3
  <2>2. <<a>> \o <<b>> = <<a, b>>
    BY <2>1, Pair, Zenon
  <2>3. one \in Seq(Int)
    BY <2>1
  <2> QED
    BY <2>2, <2>3
<1>9. qd \in Seq(Int) /\ Len(qd) = Len(q) + 1 /\ qd[Len(q) + 1] = Dot
  <2> HIDE DEF dot
  <2>1. /\ qd \in Seq(Int) /\ Len(qd) = Len(q) + Len(dot)
        /\ \A i \in 1 .. Len(dot) : qd[Len(q) + i] = dot[i]
    <3> DEFINE R == Int
    <3>1. q \in Seq(R) /\ dot \in Seq(R)
      BY <1>4, <1>6
    <3> HIDE DEF R
    <3> QED
      BY <3>1, Behind DEF R
  <2> HIDE DEF qd
  <2> QED
    BY <1>6, <2>1
<1>10. ToSet(qd) = ToSet(q) \cup {Dot}
  <2> HIDE DEF dot
  <2> QED
    BY <1>4, <1>6, BothSets
<1> HIDE DEF qd
<1>11. Value(price) = 100 * Value(q) + r
  <2>1. Value(qd \o <<a>>) = 10 * Value(qd) + a
    BY <1>3, <1>9, ValueAppend
  <2> HIDE DEF one, end
  <2>2. Value(qd \o (one \o <<b>>)) = 10 * Value(qd \o one) + b
    BY <1>3, <1>8, <1>9, ValueBehind
  <2>3. Value(q) \in Int
    BY <1>4, ValueType
  <2>4. Value(price) = 10 * (10 * Value(q) + a) + b
    BY <1>5, <1>7, <1>8, <2>1, <2>2 DEF one
  <2> HIDE DEF price
  <2> QED
    BY <1>3, <2>3, <2>4
<1> HIDE DEF end, one
<1>12. Minus \in ToSet(price) <=> cents < 0
  <2>1. ToSet(price) = ToSet(qd) \cup ToSet(end)
    BY <1>5, <1>6, <1>9, BothSets
  <2>2. Minus \notin {a, b}
    BY <1>3, <1>6
  <2> QED
    BY <1>1, <1>4, <1>6, <1>10, <2>1, <2>2
<1>13. price[Len(price) - 2] = Dot
  <2>0. Len(qd \o end) = Len(qd) + Len(end)
    <3> DEFINE R == Int
    <3>1. qd \in Seq(R) /\ end \in Seq(R)
      BY <1>6, <1>9
    <3> HIDE DEF R
    <3> QED
      BY <3>1, Behind
  <2>1. Len(qd \o end) = Len(qd) + 2 /\ Len(qd) \in Nat /\ Len(q) \in Nat
    BY <1>4, <1>6, <1>9, <2>0
  <2>2. Len(qd) \in 1 .. Len(qd) /\ Len(price) - 2 = Len(qd)
    BY <1>5, <1>9, <2>1
  <2>3. (qd \o end)[Len(qd)] = qd[Len(qd)]
    <3> DEFINE k == Len(qd)
    <3>1. \A i \in 1 .. Len(qd) : (qd \o end)[i] = qd[i]
      BY <1>6, <1>9, Behind
    <3> QED
      BY <2>2, <3>1
  <2> QED
    BY <1>5, <1>9, <2>2, <2>3
<1> QED
  BY <1>1, <1>4, <1>11, <1>12, <1>13 DEF m, price
=============================================================================
