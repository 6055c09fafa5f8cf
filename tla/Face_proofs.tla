---------------------------- MODULE Face_proofs ----------------------------
(***************************************************************************)
(* Face keeps what it promises, for any font, any sizes of faces and       *)
(* panels, any drawing and any query: the text of a face from the lemmas   *)
(* of FaceText_proofs, its picture from lemmas about the walk over the     *)
(* bits, quarter turns, and the scaling and reshaping of points.           *)
(***************************************************************************)
EXTENDS FaceText_proofs

-----------------------------------------------------------------------------
(* Pictures *)

IsPicture(g) ==
  /\ g = [w |-> g.w, h |-> g.h, ink |-> g.ink]
  /\ g.w \in Nat /\ g.h \in Nat /\ g.ink \subseteq Grid(g.w, g.h)

LEMMA GridPoint ==
  ASSUME NEW w, NEW h, NEW p
  PROVE  p \in Grid(w, h) <=>
           p = <<p[1], p[2]>> /\ p[1] \in 0 .. w - 1 /\ p[2] \in 0 .. h - 1
  BY DEF Grid

LEMMA TurnIs ==
  ASSUME NEW g, IsPicture(g)
  PROVE  /\ IsPicture(Turn(g)) /\ Turn(g).w = g.h /\ Turn(g).h = g.w
         /\ \A x \in 0 .. g.h - 1, y \in 0 .. g.w - 1 :
              <<x, y>> \in Turn(g).ink <=> <<g.w - 1 - y, x>> \in g.ink
<1>1. Turn(g) = [w |-> g.h, h |-> g.w,
                 ink |-> {p \in Grid(g.h, g.w) : <<g.w - 1 - p[2], p[1]>> \in g.ink}]
  BY DEF Turn, Picture
<1>2. \A x \in 0 .. g.h - 1, y \in 0 .. g.w - 1 : <<x, y>> \in Grid(g.h, g.w)
  BY DEF Grid
<1> QED
  BY <1>1, <1>2 DEF IsPicture

(* Two pictures of a size with the same points are the same. *)
LEMMA SamePicture ==
  ASSUME NEW f, NEW g, IsPicture(f), IsPicture(g), f.w = g.w, f.h = g.h,
         \A x \in 0 .. g.w - 1, y \in 0 .. g.h - 1 : <<x, y>> \in f.ink <=> <<x, y>> \in g.ink
  PROVE  f = g
<1>1. \A p \in f.ink : p \in g.ink
  BY GridPoint DEF IsPicture
<1>2. \A p \in g.ink : p \in f.ink
  BY GridPoint DEF IsPicture
<1>3. f.ink = g.ink
  BY <1>1, <1>2
<1> QED
  BY <1>3 DEF IsPicture

(* Four quarter turns bring a picture back. *)
LEMMA FourTurns ==
  ASSUME NEW g, IsPicture(g)
  PROVE  Turn(Turn(Turn(Turn(g)))) = g
<1> DEFINE a == Turn(g)
           b == Turn(a)
           c == Turn(b)
           d == Turn(c)
<1>1. /\ IsPicture(a) /\ a.w = g.h /\ a.h = g.w
      /\ \A x \in 0 .. g.h - 1, y \in 0 .. g.w - 1 :
           <<x, y>> \in a.ink <=> <<g.w - 1 - y, x>> \in g.ink
  BY TurnIs
<1> HIDE DEF a
<1>2. /\ IsPicture(b) /\ b.w = a.h /\ b.h = a.w
      /\ \A x \in 0 .. a.h - 1, y \in 0 .. a.w - 1 :
           <<x, y>> \in b.ink <=> <<a.w - 1 - y, x>> \in a.ink
  BY <1>1, TurnIs
<1> HIDE DEF b
<1>3. /\ IsPicture(c) /\ c.w = b.h /\ c.h = b.w
      /\ \A x \in 0 .. b.h - 1, y \in 0 .. b.w - 1 :
           <<x, y>> \in c.ink <=> <<b.w - 1 - y, x>> \in b.ink
  BY <1>2, TurnIs
<1> HIDE DEF c
<1>4. /\ IsPicture(d) /\ d.w = c.h /\ d.h = c.w
      /\ \A x \in 0 .. c.h - 1, y \in 0 .. c.w - 1 :
           <<x, y>> \in d.ink <=> <<c.w - 1 - y, x>> \in c.ink
  BY <1>3, TurnIs
<1> HIDE DEF d
<1>5. g.w \in Nat /\ g.h \in Nat
  BY DEF IsPicture
<1>6. ASSUME NEW x \in 0 .. g.w - 1, NEW y \in 0 .. g.h - 1
      PROVE  <<x, y>> \in d.ink <=> <<x, y>> \in g.ink
  <2>1. <<x, y>> \in d.ink <=> <<g.h - 1 - y, x>> \in c.ink
    BY <1>1, <1>2, <1>3, <1>4
  <2>2. g.h - 1 - y \in 0 .. g.h - 1
    BY <1>5
  <2>3. <<g.h - 1 - y, x>> \in c.ink <=> <<g.w - 1 - x, g.h - 1 - y>> \in b.ink
    BY <1>1, <1>2, <1>3, <2>2
  <2>4. g.w - 1 - x \in 0 .. g.w - 1
    BY <1>5
  <2>5. <<g.w - 1 - x, g.h - 1 - y>> \in b.ink <=>
          <<g.h - 1 - (g.h - 1 - y), g.w - 1 - x>> \in a.ink
    BY <1>1, <1>2, <2>2, <2>4
  <2>6. g.h - 1 - (g.h - 1 - y) = y /\ g.w - 1 - (g.w - 1 - x) = x
    BY <1>5
  <2>7. <<y, g.w - 1 - x>> \in a.ink <=> <<g.w - 1 - (g.w - 1 - x), y>> \in g.ink
    BY <1>1, <2>4
  <2> QED
    BY <2>1, <2>3, <2>5, <2>6, <2>7
<1>7. d = g
  BY <1>1, <1>2, <1>3, <1>4, <1>6, SamePicture
<1> QED
  BY <1>7 DEF a, b, c, d

LEMMA RotateCCWIs ==
  ASSUME NEW g, IsPicture(g), NEW k \in 0 .. 3
  PROVE  /\ IsPicture(RotateCCW(g, k))
         /\ RotateCCW(g, k).w = IF k % 2 # 0 THEN g.h ELSE g.w
         /\ RotateCCW(g, k).h = IF k % 2 # 0 THEN g.w ELSE g.h
         /\ RotateCCW(RotateCCW(g, k), 4 - k) = g
<1>1. /\ IsPicture(Turn(g)) /\ Turn(g).w = g.h /\ Turn(g).h = g.w
  BY TurnIs
<1>2. /\ IsPicture(Turn(Turn(g))) /\ Turn(Turn(g)).w = g.w /\ Turn(Turn(g)).h = g.h
  BY <1>1, TurnIs
<1>3. /\ IsPicture(Turn(Turn(Turn(g))))
      /\ Turn(Turn(Turn(g))).w = g.h /\ Turn(Turn(Turn(g))).h = g.w
  BY <1>2, TurnIs
<1>4. Turn(Turn(Turn(Turn(g)))) = g
  BY FourTurns
<1>5. CASE k = 0
  <2>1. k % 4 = 0 /\ k % 2 = 0 /\ (4 - k) % 4 = 0
    BY <1>5
  <2>2. \A p : RotateCCW(p, k) = p /\ RotateCCW(p, 4 - k) = p
    BY <2>1 DEF RotateCCW
  <2> QED
    BY <2>1, <2>2
<1>6. CASE k = 1
  <2>1. k % 4 = 1 /\ k % 2 = 1 /\ (4 - k) % 4 = 3
    BY <1>6
  <2>2. \A p : RotateCCW(p, k) = Turn(p) /\ RotateCCW(p, 4 - k) = Turn(Turn(Turn(p)))
    BY <2>1 DEF RotateCCW
  <2> QED
    BY <1>1, <1>4, <2>1, <2>2
<1>7. CASE k = 2
  <2>1. k % 4 = 2 /\ k % 2 = 0 /\ (4 - k) % 4 = 2
    BY <1>7
  <2>2. \A p : RotateCCW(p, k) = Turn(Turn(p)) /\ RotateCCW(p, 4 - k) = Turn(Turn(p))
    BY <2>1 DEF RotateCCW
  <2> QED
    BY <1>2, <1>4, <2>1, <2>2
<1>8. CASE k = 3
  <2>1. k % 4 = 3 /\ k % 2 = 1 /\ (4 - k) % 4 = 1
    BY <1>8
  <2>2. \A p : RotateCCW(p, k) = Turn(Turn(Turn(p))) /\ RotateCCW(p, 4 - k) = Turn(p)
    BY <2>1 DEF RotateCCW
  <2> QED
    BY <1>3, <1>4, <2>1, <2>2
<1> QED
  BY <1>5, <1>6, <1>7, <1>8

-----------------------------------------------------------------------------
(* The walk *)

LEMMA Coordinates ==
  ASSUME NEW w \in Nat, NEW h \in Nat, NEW x \in 0 .. w - 1, NEW y \in 0 .. h - 1
  PROVE  /\ y * w + x \in 0 .. w * h - 1
         /\ (y * w + x) % w = x /\ (y * w + x) \div w = y
<1>1. w > 0 /\ w \in Int /\ x \in Int /\ y \in Int
  OBVIOUS
<1>2. (y * w + x) % w = x /\ (y * w + x) \div w = y
  BY <1>1
<1>3. y * w + x \in 0 .. w * h - 1
  BY <1>1
<1> QED
  BY <1>2, <1>3

LEMMA StepPoint ==
  ASSUME NEW w \in Nat, NEW h \in Nat, NEW i \in 0 .. w * h - 1
  PROVE  i % w \in 0 .. w - 1 /\ i \div w \in 0 .. h - 1
<1>1. w > 0 /\ h > 0
  OBVIOUS
<1>2. i % w \in 0 .. w - 1
  BY <1>1
<1>3. i \div w \in 0 .. h - 1
  BY <1>1
<1> QED
  BY <1>2, <1>3

(* The walk comes by every point, and leaves the grid nowhere. *)
LEMMA WalkComesBy ==
  ASSUME NEW w \in Nat, NEW h \in Nat, NEW o
  PROVE  /\ \A n \in 1 .. w * h : WalkAt(w, h, o, n - 1) \in Grid(w, h)
         /\ \A p \in Grid(w, h) : \E n \in 1 .. w * h : WalkAt(w, h, o, n - 1) = p
<1>0. w * h \in Nat
  OBVIOUS
<1>1. ASSUME NEW n \in 1 .. w * h PROVE WalkAt(w, h, o, n - 1) \in Grid(w, h)
  <2>1. n - 1 \in 0 .. w * h - 1
    BY <1>0
  <2> DEFINE x == (n - 1) % w
             y == (n - 1) \div w
  <2>2. x \in 0 .. w - 1 /\ y \in 0 .. h - 1
    BY <2>1, StepPoint
  <2> HIDE DEF x, y
  <2>3. w - 1 - x \in 0 .. w - 1 /\ h - 1 - y \in 0 .. h - 1
    BY <2>2
  <2> QED
    BY <2>2, <2>3 DEF WalkAt, Grid, x, y
<1>2. ASSUME NEW p \in Grid(w, h)
      PROVE  \E n \in 1 .. w * h : WalkAt(w, h, o, n - 1) = p
  <2>1. p = <<p[1], p[2]>> /\ p[1] \in 0 .. w - 1 /\ p[2] \in 0 .. h - 1
    BY GridPoint
  <2> DEFINE x == IF o.mirrorX THEN w - 1 - p[1] ELSE p[1]
             y == IF o.mirrorY THEN h - 1 - p[2] ELSE p[2]
             i == y * w + x
             n == i + 1
  <2>2. x \in 0 .. w - 1 /\ y \in 0 .. h - 1
    BY <2>1
  <2>3. /\ p[1] = IF o.mirrorX THEN w - 1 - x ELSE x
        /\ p[2] = IF o.mirrorY THEN h - 1 - y ELSE y
    BY <2>1
  <2> HIDE DEF x, y
  <2>4. i \in 0 .. w * h - 1 /\ i % w = x /\ i \div w = y
    BY <2>2, Coordinates
  <2> HIDE DEF i
  <2>5. n \in 1 .. w * h /\ n - 1 = i
    BY <1>0, <2>4
  <2> HIDE DEF n
  <2>6. WalkAt(w, h, o, n - 1) = <<p[1], p[2]>>
    BY <2>3, <2>4, <2>5 DEF WalkAt
  <2> QED
    BY <2>1, <2>5, <2>6
<1> QED
  BY <1>1, <1>2

(* The bits of a picture fill whole bytes. *)
LEMMA StreamIs ==
  ASSUME NEW g, IsPicture(g), NEW o
  PROVE  LET s == Stream(g, o) IN
         /\ s \in Seq({0, 1}) /\ Len(s) % 8 = 0
         /\ g.w * g.h \in Nat /\ g.w * g.h <= Len(s)
         /\ \A n \in 1 .. g.w * g.h :
              s[n] = IF (WalkAt(g.w, g.h, o, n - 1) \in g.ink) = o.invert THEN 1 ELSE 0
<1> DEFINE m == g.w * g.h
           b == (m + 7) \div 8
           k == 8 * b
           s == Stream(g, o)
<1>1. m \in Nat
  BY DEF IsPicture
<1>2. s = [n \in 1 .. k |->
             IF n <= m /\ (WalkAt(g.w, g.h, o, n - 1) \in g.ink) = o.invert THEN 1 ELSE 0]
  BY DEF Stream
<1> HIDE DEF m, s
<1>3. b \in Nat /\ m <= 8 * b
  BY <1>1
<1> HIDE DEF b
<1>4. k \in Nat /\ m <= k /\ k % 8 = 0
  BY <1>3
<1> HIDE DEF k
<1>5. s \in Seq({0, 1}) /\ Len(s) = k
  <2>1. \A n \in 1 .. k : s[n] \in {0, 1}
    BY <1>2
  <2>2. s \in [1 .. k -> {0, 1}]
    BY <1>2, <2>1
  <2> QED
    BY <1>4, <2>2
<1>6. ASSUME NEW n \in 1 .. m
      PROVE  s[n] = IF (WalkAt(g.w, g.h, o, n - 1) \in g.ink) = o.invert THEN 1 ELSE 0
  <2>1. n \in 1 .. k /\ n <= m
    BY <1>1, <1>4
  <2> QED
    BY <1>2, <2>1
<1> QED
  BY <1>1, <1>4, <1>5, <1>6 DEF m, s

(* The preview of a picture's bits is the picture, or its negative. *)
LEMMA PreviewIs ==
  ASSUME NEW g, IsPicture(g), NEW o, o.invert \in BOOLEAN,
         EncodedDims(o) = [w |-> g.w, h |-> g.h]
  PROVE  EncodedPreview(Stream(g, o), o) =
           [w |-> g.w, h |-> g.h,
            ink |-> IF o.invert THEN Grid(g.w, g.h) \ g.ink ELSE g.ink]
<1> DEFINE enc == Stream(g, o)
           w == g.w
           h == g.h
           At(n) == WalkAt(w, h, o, n - 1)
           seen == {m \in 1 .. w * h : m <= Len(enc) /\ enc[m] = 1}
           white == {At(n) : n \in seen}
           ink == {p \in Grid(w, h) : <<p[1], p[2]>> \notin white}
<1>1. EncodedPreview(enc, o) = [w |-> w, h |-> h, ink |-> ink]
  BY DEF EncodedPreview, Picture
<1>2. w \in Nat /\ h \in Nat /\ g.ink \subseteq Grid(w, h)
  BY DEF IsPicture
<1>3. /\ w * h \in Nat /\ w * h <= Len(enc) /\ Len(enc) \in Nat
      /\ \A n \in 1 .. w * h : enc[n] = IF (At(n) \in g.ink) = o.invert THEN 1 ELSE 0
  <2>1. enc \in Seq({0, 1})
    BY StreamIs
  <2>2. Len(enc) \in Nat
    BY <2>1
  <2> QED
    BY <2>2, StreamIs
<1> HIDE DEF enc
<1>4. \A n \in 1 .. w * h : n \in seen <=> (At(n) \in g.ink) = o.invert
  BY <1>3
<1>5. \A n \in seen : n \in 1 .. w * h
  OBVIOUS
<1>6. \A p \in Grid(w, h) : \E n \in 1 .. w * h : At(n) = p
  <2> HIDE DEF w, h
  <2> QED
    BY <1>2, WalkComesBy
<1> HIDE DEF seen, At, w, h
<1>7. ASSUME NEW p \in Grid(w, h) PROVE p \in white <=> (p \in g.ink) = o.invert
  <2>1. ASSUME p \in white PROVE (p \in g.ink) = o.invert
    <3>1. PICK n \in seen : p = At(n)
      BY <2>1
    <3> QED
      BY <1>4, <1>5, <3>1
  <2>2. ASSUME (p \in g.ink) = o.invert PROVE p \in white
    <3>1. PICK n \in 1 .. w * h : At(n) = p
      BY <1>6
    <3>2. n \in seen
      BY <1>4, <2>2, <3>1
    <3> QED
      BY <3>1, <3>2
  <2> QED
    BY <2>1, <2>2
<1> HIDE DEF white
<1>8. \A p \in Grid(w, h) : p \in ink <=> (p \in g.ink) # o.invert
  <2>1. \A p \in Grid(w, h) : p = <<p[1], p[2]>>
    BY GridPoint
  <2> QED
    BY <1>7, <2>1
<1>9. ink \subseteq Grid(w, h)
  OBVIOUS
<1> HIDE DEF ink
<1>10. CASE o.invert
  <2>1. \A p \in Grid(w, h) : p \in ink <=> p \notin g.ink
    BY <1>8, <1>10
  <2>2. ink = Grid(w, h) \ g.ink
    BY <1>9, <2>1
  <2> QED
    BY <1>1, <1>10, <2>2 DEF enc, w, h
<1>11. CASE ~ o.invert
  <2>1. \A p \in Grid(w, h) : p \in ink <=> p \in g.ink
    BY <1>8, <1>11
  <2>2. ink = g.ink
    BY <1>2, <1>9, <2>1
  <2> QED
    BY <1>1, <1>11, <2>2 DEF enc, w, h
<1> QED
  BY <1>10, <1>11

(* The panel makes of the bits of a picture the picture. *)
LEMMA ReceivedIs ==
  ASSUME NEW g, IsPicture(g), options.invert \in BOOLEAN, bits = Stream(g, options)
  PROVE  Received(g.w, g.h) = g
<1> DEFINE w == g.w
           h == g.h
           At(n) == WalkAt(w, h, options, n - 1)
           black == {m \in 1 .. w * h : (bits[m] = 0) # options.invert}
           ink == {At(n) : n \in black}
<1>1. Received(w, h) = [w |-> w, h |-> h, ink |-> ink]
  BY DEF Received
<1>2. w \in Nat /\ h \in Nat /\ g.ink \subseteq Grid(w, h)
  BY DEF IsPicture
<1>3. \A n \in 1 .. w * h :
        bits[n] = IF (At(n) \in g.ink) = options.invert THEN 1 ELSE 0
  BY StreamIs
<1>4. ASSUME NEW n \in 1 .. w * h PROVE n \in black <=> At(n) \in g.ink
  <2>1. bits[n] = IF (At(n) \in g.ink) = options.invert THEN 1 ELSE 0
    BY <1>3
  <2>2. bits[n] = 0 <=> ~ ((At(n) \in g.ink) = options.invert)
    <3> HIDE DEF At
    <3> QED
      BY <2>1
  <2>3. n \in black <=> (bits[n] = 0) # options.invert
    OBVIOUS
  <2> HIDE DEF At, black
  <2>4. CASE options.invert = TRUE
    BY <2>2, <2>3, <2>4, Zenon
  <2>5. CASE options.invert = FALSE
    <3>1. bits[n] = 0 <=> At(n) \in g.ink
      BY <2>2, <2>5
    <3>2. n \in black <=> bits[n] = 0
      BY <2>3, <2>5
    <3> QED
      BY <3>1, <3>2
  <2> QED
    BY <2>4, <2>5
<1>5. \A n \in black : n \in 1 .. w * h
  OBVIOUS
<1>6. \A p \in Grid(w, h) : \E n \in 1 .. w * h : At(n) = p
  <2> DEFINE o == options
  <2> HIDE DEF w, h, o
  <2>1. \A p \in Grid(w, h) : \E n \in 1 .. w * h : WalkAt(w, h, o, n - 1) = p
    BY <1>2, WalkComesBy
  <2> QED
    BY <2>1 DEF o
<1> HIDE DEF black, At, w, h
<1>7. \A p \in ink : p \in g.ink
  BY <1>4, <1>5
<1>8. ASSUME NEW p \in g.ink PROVE p \in ink
  <2>1. PICK n \in 1 .. w * h : At(n) = p
    BY <1>2, <1>6
  <2> QED
    BY <1>4, <2>1
<1>9. ink = g.ink
  BY <1>7, <1>8
<1> QED
  BY <1>1, <1>9 DEF IsPicture, w, h

-----------------------------------------------------------------------------
(* Points *)

LEMMA TurnedInk ==
  ASSUME NEW g, IsPicture(g)
  PROVE  Turn(g).ink = {<<q[2], g.w - 1 - q[1]>> : q \in g.ink}
<1> DEFINE w == g.w
           h == g.h
           t == Turn(g)
           turned == {<<q[2], w - 1 - q[1]>> : q \in g.ink}
<1>1. /\ IsPicture(t) /\ t.w = h /\ t.h = w
      /\ \A x \in 0 .. h - 1, y \in 0 .. w - 1 :
           <<x, y>> \in t.ink <=> <<w - 1 - y, x>> \in g.ink
  BY TurnIs
<1> HIDE DEF t
<1>2. w \in Nat /\ h \in Nat
  BY DEF IsPicture
<1>3. ASSUME NEW p \in t.ink PROVE p \in turned
  <2>1. p = <<p[1], p[2]>> /\ p[1] \in 0 .. h - 1 /\ p[2] \in 0 .. w - 1
    BY <1>1, GridPoint DEF IsPicture
  <2> DEFINE q == <<w - 1 - p[2], p[1]>>
  <2>2. q \in g.ink
    BY <1>1, <2>1
  <2>3. q[2] = p[1] /\ w - 1 - q[1] = p[2]
    BY <1>2, <2>1
  <2> HIDE DEF q
  <2>4. p = <<q[2], w - 1 - q[1]>>
    BY <2>1, <2>3
  <2> QED
    BY <2>2, <2>4
<1>4. ASSUME NEW q \in g.ink PROVE <<q[2], w - 1 - q[1]>> \in t.ink
  <2>1. q = <<q[1], q[2]>> /\ q[1] \in 0 .. w - 1 /\ q[2] \in 0 .. h - 1
    BY GridPoint DEF IsPicture
  <2>2. w - 1 - q[1] \in 0 .. w - 1 /\ w - 1 - (w - 1 - q[1]) = q[1]
    BY <1>2, <2>1
  <2> QED
    BY <1>1, <2>1, <2>2
<1>5. t.ink = turned
  BY <1>3, <1>4
<1> QED
  BY <1>5 DEF t

LEMMA RotatedInk ==
  ASSUME NEW g, IsPicture(g), NEW k \in 0 .. 3
  PROVE  RotateCCW(g, k).ink = {TurnedPoint(q, g.w, g.h, k) : q \in g.ink}
<1> DEFINE w == g.w
           h == g.h
           a == Turn(g)
           b == Turn(a)
           c == Turn(b)
<1>0. /\ w \in Nat /\ h \in Nat
      /\ \A q \in g.ink : q = <<q[1], q[2]>> /\ q[1] \in 0 .. w - 1 /\ q[2] \in 0 .. h - 1
  BY GridPoint DEF IsPicture
<1>1. /\ IsPicture(a) /\ a.w = h /\ a.h = w
      /\ a.ink = {<<q[2], w - 1 - q[1]>> : q \in g.ink}
  BY TurnIs, TurnedInk
<1> HIDE DEF a
<1>2. /\ IsPicture(b) /\ b.w = w /\ b.h = h
      /\ b.ink = {<<q[2], h - 1 - q[1]>> : q \in a.ink}
  BY <1>1, TurnIs, TurnedInk
<1> HIDE DEF b
<1>3. c.ink = {<<q[2], w - 1 - q[1]>> : q \in b.ink}
  BY <1>2, TurnedInk
<1> HIDE DEF c
<1>4. CASE k = 0
  <2>1. RotateCCW(g, k) = g
    <3>1. k % 4 = 0
      BY <1>4
    <3> QED
      BY <3>1 DEF RotateCCW
  <2>2. \A q : TurnedPoint(q, w, h, k) = q
    BY <1>4 DEF TurnedPoint
  <2> QED
    BY <2>1, <2>2
<1>5. CASE k = 1
  <2>1. RotateCCW(g, k) = a
    <3>1. k % 4 = 1
      BY <1>5
    <3> QED
      BY <3>1 DEF RotateCCW, a
  <2>2. \A q : TurnedPoint(q, w, h, k) = <<q[2], w - 1 - q[1]>>
    BY <1>5 DEF TurnedPoint
  <2> QED
    BY <1>1, <2>1, <2>2
<1>6. b.ink = {<<w - 1 - q[1], h - 1 - q[2]>> : q \in g.ink}
  <2>1. ASSUME NEW q \in g.ink PROVE <<w - 1 - q[1], h - 1 - q[2]>> \in b.ink
    <3> DEFINE p == <<q[2], w - 1 - q[1]>>
    <3>1. p \in a.ink
      BY <1>1
    <3>2. <<p[2], h - 1 - p[1]>> \in b.ink
      BY <1>2, <3>1
    <3> QED
      BY <3>2
  <2>2. ASSUME NEW r \in b.ink
        PROVE  \E q \in g.ink : r = <<w - 1 - q[1], h - 1 - q[2]>>
    <3>1. PICK p \in a.ink : r = <<p[2], h - 1 - p[1]>>
      BY <1>2
    <3>2. PICK q \in g.ink : p = <<q[2], w - 1 - q[1]>>
      BY <1>1
    <3>3. p[2] = w - 1 - q[1] /\ p[1] = q[2]
      BY <3>2
    <3> QED
      BY <3>1, <3>3
  <2> QED
    BY <2>1, <2>2
<1>7. CASE k = 2
  <2>1. RotateCCW(g, k) = b
    <3>1. k % 4 = 2
      BY <1>7
    <3> QED
      BY <3>1 DEF RotateCCW, a, b
  <2>2. \A q : TurnedPoint(q, w, h, k) = <<w - 1 - q[1], h - 1 - q[2]>>
    BY <1>7 DEF TurnedPoint
  <2> QED
    BY <1>6, <2>1, <2>2
<1>8. CASE k = 3
  <2>1. RotateCCW(g, k) = c
    <3>1. k % 4 = 3
      BY <1>8
    <3> QED
      BY <3>1 DEF RotateCCW, a, b, c
  <2>2. \A q : TurnedPoint(q, w, h, k) = <<h - 1 - q[2], q[1]>>
    BY <1>8 DEF TurnedPoint
  <2>3. \A q \in g.ink : w - 1 - (w - 1 - q[1]) = q[1]
    BY <1>0
  <2>4. c.ink = {<<h - 1 - q[2], q[1]>> : q \in g.ink}
    <3>1. ASSUME NEW q \in g.ink PROVE <<h - 1 - q[2], q[1]>> \in c.ink
      <4> DEFINE p == <<w - 1 - q[1], h - 1 - q[2]>>
      <4>1. p \in b.ink
        BY <1>6
      <4>2. <<p[2], w - 1 - p[1]>> \in c.ink
        BY <1>3, <4>1
      <4> QED
        BY <2>3, <4>2
    <3>2. ASSUME NEW r \in c.ink PROVE \E q \in g.ink : r = <<h - 1 - q[2], q[1]>>
      <4>1. PICK p \in b.ink : r = <<p[2], w - 1 - p[1]>>
        BY <1>3
      <4>2. PICK q \in g.ink : p = <<w - 1 - q[1], h - 1 - q[2]>>
        BY <1>6
      <4>3. p[2] = h - 1 - q[2] /\ w - 1 - p[1] = q[1]
        BY <2>3, <4>2
      <4> QED
        BY <4>1, <4>3
    <3> QED
      BY <3>1, <3>2
  <2> QED
    BY <2>1, <2>2, <2>4
<1> QED
  BY <1>4, <1>5, <1>7, <1>8

(* What a query can make of the options. *)
IsOptions(o) ==
  o \in [tft : BOOLEAN, rotation : 0 .. 3, mirrorX : BOOLEAN, mirrorY : BOOLEAN,
         invert : BOOLEAN, srcW : Int, scale : Nat, off : Int \X Int]

LEMMA PanelIs ==
  ASSUME NEW img, NEW o, IsOptions(o)
  PROVE  LET panel == GrayPanel(img, o) IN
         /\ IsPicture(panel)
         /\ panel.w = SrcDims(o).w /\ panel.h = SrcDims(o).h
<1> DEFINE s == SrcDims(o)
           cw == (Width * o.scale) \div 100
           ch == (Height * o.scale) \div 100
           ox == Quotient(s.w - cw, 2) + o.off[1]
           oy == Quotient(s.h - ch, 2) + o.off[2]
           Black(tx, ty) ==
             /\ tx - ox \in 0 .. cw - 1 /\ ty - oy \in 0 .. ch - 1
             /\ <<((tx - ox) * Width) \div cw, ((ty - oy) * Height) \div ch>> \in img.ink
           panel == GrayPanel(img, o)
<1>1. panel = [w |-> s.w, h |-> s.h, ink |-> {p \in Grid(s.w, s.h) : Black(p[1], p[2])}]
  BY DEF GrayPanel, Picture
<1>2. s.w \in Nat /\ s.h \in Nat
  BY FaceAssumption DEF SrcDims, IsOptions
<1> HIDE DEF panel, s, Black
<1>3. {p \in Grid(s.w, s.h) : Black(p[1], p[2])} \subseteq Grid(s.w, s.h)
  OBVIOUS
<1>4. IsPicture(panel) /\ panel.w = s.w /\ panel.h = s.h
  BY <1>1, <1>2, <1>3 DEF IsPicture
<1> QED
  BY <1>4 DEF panel, s

LEMMA Divides ==
  ASSUME NEW W \in Nat \ {0}, NEW a \in Int
  PROVE  (a * W) \div W = a
<1>1. W \in Int /\ W > 0
  OBVIOUS
<1> QED
  BY <1>1

(* At full size the face is only moved. *)
LEMMA PanelInk ==
  ASSUME NEW img, NEW o, IsOptions(o), o.scale = 100,
         IsPicture(img), img.w = Width, img.h = Height
  PROVE  LET s == SrcDims(o)
             ox == Quotient(s.w - Width, 2) + o.off[1]
             oy == Quotient(s.h - Height, 2) + o.off[2]
         IN /\ ox \in Int /\ oy \in Int
            /\ \A p \in Grid(s.w, s.h) :
                 p \in GrayPanel(img, o).ink <=> <<p[1] - ox, p[2] - oy>> \in img.ink
<1> DEFINE s == SrcDims(o)
           cw == (Width * o.scale) \div 100
           ch == (Height * o.scale) \div 100
           ox == Quotient(s.w - cw, 2) + o.off[1]
           oy == Quotient(s.h - ch, 2) + o.off[2]
           Black(tx, ty) ==
             /\ tx - ox \in 0 .. cw - 1 /\ ty - oy \in 0 .. ch - 1
             /\ <<((tx - ox) * Width) \div cw, ((ty - oy) * Height) \div ch>> \in img.ink
           panel == GrayPanel(img, o)
<1>1. panel = [w |-> s.w, h |-> s.h, ink |-> {p \in Grid(s.w, s.h) : Black(p[1], p[2])}]
  BY DEF GrayPanel, Picture
<1>2. s.w \in Nat /\ s.h \in Nat /\ Width \in Nat \ {0} /\ Height \in Nat \ {0}
  BY FaceAssumption DEF SrcDims, IsOptions
<1>3. cw = Width /\ ch = Height
  BY <1>2
<1> HIDE DEF cw, ch, s, panel
<1>4. ox \in Int /\ oy \in Int
  <2>1. o.off[1] \in Int /\ o.off[2] \in Int
    BY DEF IsOptions
  <2>2. Quotient(s.w - cw, 2) \in Int /\ Quotient(s.h - ch, 2) \in Int
    BY <1>2, <1>3 DEF Quotient
  <2> QED
    BY <2>1, <2>2
<1> HIDE DEF ox, oy
<1>5. ASSUME NEW p \in Grid(s.w, s.h)
      PROVE  p \in panel.ink <=> <<p[1] - ox, p[2] - oy>> \in img.ink
  <2> DEFINE a == p[1] - ox
             b == p[2] - oy
  <2>1. a \in Int /\ b \in Int
    BY <1>2, <1>4, GridPoint
  <2>2. p \in panel.ink <=> Black(p[1], p[2])
    <3> HIDE DEF Black
    <3> QED
      BY <1>1
  <2> HIDE DEF a, b
  <2>3. (a * Width) \div Width = a /\ (b * Height) \div Height = b
    BY <1>2, <2>1, Divides
  <2>4. Black(p[1], p[2]) <=>
          a \in 0 .. Width - 1 /\ b \in 0 .. Height - 1 /\ <<a, b>> \in img.ink
    BY <1>3, <2>3 DEF a, b
  <2>5. <<a, b>> \in img.ink => a \in 0 .. Width - 1 /\ b \in 0 .. Height - 1
    BY GridPoint DEF IsPicture
  <2> QED
    BY <2>2, <2>4, <2>5 DEF a, b
<1> QED
  BY <1>3, <1>4, <1>5 DEF ox, oy, s, panel

LEMMA ReshapeIs ==
  ASSUME NEW g, IsPicture(g)
  PROVE  LET r == Reshape(g) IN
         /\ IsPicture(r) /\ r.w = g.w \div 2 /\ r.h = 2 * g.h
         /\ \A p \in Grid(g.w \div 2, 2 * g.h) :
              p \in r.ink <=> \/ <<2 * p[1], p[2] \div 2>> \in g.ink
                              \/ <<2 * p[1] + 1, p[2] \div 2>> \in g.ink
<1> DEFINE w == g.w \div 2
           h == 2 * g.h
           Black(x, y) == \E c \in {2 * x, 2 * x + 1} : <<c, y \div 2>> \in g.ink
           r == Reshape(g)
<1>1. r = [w |-> w, h |-> h, ink |-> {p \in Grid(w, h) : Black(p[1], p[2])}]
  BY DEF Reshape, Picture
<1>2. w \in Nat /\ h \in Nat
  BY DEF IsPicture
<1> HIDE DEF w, h, r
<1>3. \A p \in Grid(w, h) : p \in r.ink <=> Black(p[1], p[2])
  <2> HIDE DEF Black
  <2> QED
    BY <1>1
<1>4. \A x, y : Black(x, y) <=> \/ <<2 * x, y \div 2>> \in g.ink
                                \/ <<2 * x + 1, y \div 2>> \in g.ink
  OBVIOUS
<1> HIDE DEF Black
<1>5. IsPicture(r) /\ r.w = w /\ r.h = h
  BY <1>1, <1>2 DEF IsPicture
<1> QED
  BY <1>3, <1>4, <1>5 DEF w, h, r

(* What is sent of a face, before it is turned. *)
Sent(img, o) == IF o.tft THEN Reshape(GrayPanel(img, o)) ELSE GrayPanel(img, o)

LEMMA SentIs ==
  ASSUME NEW img, NEW o, IsOptions(o)
  PROVE  LET d == SentDims(o)
             sent == Sent(img, o)
         IN /\ IsPicture(sent)
            /\ d = [w |-> sent.w, h |-> sent.h]
            /\ sent.w = IF o.tft THEN SrcDims(o).w \div 2 ELSE SrcDims(o).w
            /\ sent.h = IF o.tft THEN 2 * SrcDims(o).h ELSE SrcDims(o).h
<1> DEFINE panel == GrayPanel(img, o)
           s == SrcDims(o)
           sent == Sent(img, o)
<1>1. IsPicture(panel) /\ panel.w = SrcDims(o).w /\ panel.h = SrcDims(o).h
  BY PanelIs
<1> HIDE DEF panel
<1>2. IsPicture(Reshape(panel)) /\ Reshape(panel).w = panel.w \div 2 /\ Reshape(panel).h = 2 * panel.h
  BY <1>1, ReshapeIs
<1>3. sent = IF o.tft THEN Reshape(panel) ELSE panel
  BY DEF Sent, panel
<1>4. SentDims(o) = IF o.tft THEN [w |-> s.w \div 2, h |-> 2 * s.h] ELSE s
  BY DEF SentDims
<1>5. s = [w |-> s.w, h |-> s.h]
  BY DEF SrcDims
<1> HIDE DEF sent, s
<1>6. CASE o.tft
  BY <1>1, <1>2, <1>3, <1>4, <1>6 DEF sent, s
<1>7. CASE ~ o.tft
  BY <1>1, <1>3, <1>4, <1>5, <1>7 DEF sent, s
<1> QED
  BY <1>6, <1>7

(* The ink of a face at full size, at its places in what is sent. *)
LEMMA SentInk ==
  ASSUME NEW img, NEW o, IsOptions(o), o.scale = 100,
         IsPicture(img), img.w = Width, img.h = Height
  PROVE  LET s == SrcDims(o)
             d == SentDims(o)
             At(p) == <<p[1] + Quotient(s.w - Width, 2) + o.off[1],
                        p[2] + Quotient(s.h - Height, 2) + o.off[2]>>
             Places(q) == IF o.tft THEN {<<q[1] \div 2, 2 * q[2]>>,
                                         <<q[1] \div 2, 2 * q[2] + 1>>}
                                   ELSE {q}
         IN (UNION {Places(At(p)) : p \in img.ink}) \cap Grid(d.w, d.h) = Sent(img, o).ink
<1> DEFINE s == SrcDims(o)
           sw == s.w
           sh == s.h
           d == SentDims(o)
           w == d.w
           h == d.h
           At(p) == <<p[1] + Quotient(s.w - Width, 2) + o.off[1],
                      p[2] + Quotient(s.h - Height, 2) + o.off[2]>>
           Places(q) == IF o.tft THEN {<<q[1] \div 2, 2 * q[2]>>,
                                       <<q[1] \div 2, 2 * q[2] + 1>>}
                                 ELSE {q}
           ox == Quotient(s.w - Width, 2) + o.off[1]
           oy == Quotient(s.h - Height, 2) + o.off[2]
           panel == GrayPanel(img, o)
           sent == Sent(img, o)
           all == UNION {Places(At(p)) : p \in img.ink}
<1>0. SUFFICES all \cap Grid(w, h) = sent.ink
  OBVIOUS
<1>1. /\ IsPicture(panel) /\ panel.w = sw /\ panel.h = sh
      /\ sw \in Nat /\ sh \in Nat /\ panel.ink \subseteq Grid(sw, sh)
  <2>1. IsPicture(panel) /\ panel.w = sw /\ panel.h = sh
    BY PanelIs
  <2> QED
    BY <2>1 DEF IsPicture
<1>2. /\ ox \in Int /\ oy \in Int
      /\ \A c \in Grid(sw, sh) : c \in panel.ink <=> <<c[1] - ox, c[2] - oy>> \in img.ink
  BY PanelInk
<1>3. \A p \in img.ink : p = <<p[1], p[2]>> /\ p[1] \in Int /\ p[2] \in Int
  BY GridPoint DEF IsPicture
<1>4. \A p \in img.ink : At(p) = <<p[1] + ox, p[2] + oy>>
  <2>1. Quotient(s.w - Width, 2) \in Int /\ Quotient(s.h - Height, 2) \in Int
    BY <1>1, FaceAssumption DEF Quotient
  <2>2. o.off[1] \in Int /\ o.off[2] \in Int
    BY DEF IsOptions
  <2> QED
    BY <1>3, <2>1, <2>2
<1>5. /\ o.tft => sent = Reshape(panel)
      /\ ~ o.tft => sent = panel
  BY DEF Sent
<1>6. /\ sent.ink \subseteq Grid(w, h)
      /\ w = IF o.tft THEN sw \div 2 ELSE sw
      /\ h = IF o.tft THEN 2 * sh ELSE sh
  <2>1. /\ IsPicture(sent) /\ d = [w |-> sent.w, h |-> sent.h]
        /\ sent.w = IF o.tft THEN sw \div 2 ELSE sw
        /\ sent.h = IF o.tft THEN 2 * sh ELSE sh
    BY SentIs
  <2> HIDE DEF sent, d, sw, sh
  <2> QED
    BY <2>1 DEF IsPicture
<1> HIDE DEF panel, sent, s, sw, sh, ox, oy, At, w, h, d
<1>7. ASSUME NEW c \in Grid(sw, sh)
      PROVE  c \in panel.ink <=> \E p \in img.ink : c = At(p)
  <2>0. c = <<c[1], c[2]>> /\ c[1] \in Int /\ c[2] \in Int
    BY <1>1, GridPoint
  <2>1. ASSUME c \in panel.ink PROVE \E p \in img.ink : c = At(p)
    <3> DEFINE p == <<c[1] - ox, c[2] - oy>>
    <3>1. p \in img.ink
      BY <1>2, <2>1
    <3>2. c[1] - ox + ox = c[1] /\ c[2] - oy + oy = c[2]
      BY <1>2, <2>0
    <3>3. At(p) = c
      BY <1>4, <2>0, <3>1, <3>2
    <3> QED
      BY <3>1, <3>3
  <2>2. ASSUME NEW p \in img.ink, c = At(p) PROVE c \in panel.ink
    <3>1. c[1] = p[1] + ox /\ c[2] = p[2] + oy
      BY <1>4, <2>2
    <3>2. <<c[1] - ox, c[2] - oy>> = p
      BY <1>2, <1>3, <3>1
    <3> QED
      BY <1>2, <3>2
  <2> QED
    BY <2>1, <2>2
<1>8. \A p \in img.ink : At(p) = <<At(p)[1], At(p)[2]>> /\ At(p)[1] \in Int /\ At(p)[2] \in Int
  BY <1>2, <1>3, <1>4
<1>9. ASSUME ~ o.tft PROVE all \cap Grid(w, h) = sent.ink
  <2>1. w = sw /\ h = sh /\ sent = panel /\ \A q : Places(q) = {q}
    BY <1>5, <1>6, <1>9
  <2> HIDE DEF Places
  <2>2. ASSUME NEW q \in Grid(w, h) PROVE q \in all <=> q \in sent.ink
    <3>1. q \in all <=> \E p \in img.ink : q = At(p)
      BY <2>1
    <3> QED
      BY <1>7, <2>1, <3>1
  <2> HIDE DEF all
  <2>3. all \cap Grid(w, h) = sent.ink
    BY <1>6, <2>2
  <2> QED
    BY <2>3 DEF all, Places
<1>10. ASSUME o.tft PROVE all \cap Grid(w, h) = sent.ink
  <2>1. /\ w = sw \div 2 /\ h = 2 * sh /\ sent = Reshape(panel)
        /\ \A q : Places(q) = {<<q[1] \div 2, 2 * q[2]>>, <<q[1] \div 2, 2 * q[2] + 1>>}
    BY <1>5, <1>6, <1>10
  <2>2. \A q \in Grid(w, h) :
          q \in sent.ink <=> \/ <<2 * q[1], q[2] \div 2>> \in panel.ink
                             \/ <<2 * q[1] + 1, q[2] \div 2>> \in panel.ink
    BY <1>1, <2>1, ReshapeIs
  <2>3. sent.ink \subseteq Grid(w, h)
    BY <1>6
  <2> HIDE DEF Places
  <2>4. ASSUME NEW q \in Grid(w, h), q \in all PROVE q \in sent.ink
    <3>1. PICK p \in img.ink : q \in Places(At(p))
      BY <2>4
    <3> DEFINE c == At(p)
    <3>2. c = <<c[1], c[2]>> /\ c[1] \in Int /\ c[2] \in Int
      BY <1>8
    <3> HIDE DEF c
    <3>3. q[1] = c[1] \div 2 /\ (q[2] = 2 * c[2] \/ q[2] = 2 * c[2] + 1)
      BY <2>1, <3>1 DEF c
    <3>4. q[1] \in 0 .. (sw \div 2) - 1 /\ q[2] \in 0 .. 2 * sh - 1
      BY <2>1, GridPoint
    <3>5. c[1] \in 0 .. sw - 1 /\ c[2] \in 0 .. sh - 1
      BY <1>1, <3>2, <3>3, <3>4
    <3>6. c \in Grid(sw, sh)
      BY <3>2, <3>5, GridPoint
    <3>7. c \in panel.ink
      BY <1>7, <3>6 DEF c
    <3>8. (c[1] = 2 * q[1] \/ c[1] = 2 * q[1] + 1) /\ c[2] = q[2] \div 2
      BY <3>2, <3>3
    <3>9. c = <<2 * q[1], q[2] \div 2>> \/ c = <<2 * q[1] + 1, q[2] \div 2>>
      BY <3>2, <3>8
    <3>10. \/ <<2 * q[1], q[2] \div 2>> \in panel.ink
           \/ <<2 * q[1] + 1, q[2] \div 2>> \in panel.ink
      BY <3>7, <3>9, Zenon
    <3> QED
      BY <2>2, <2>4, <3>10, Zenon
  <2>5. ASSUME NEW q \in Grid(w, h), q \in sent.ink PROVE q \in all
    <3>1. PICK c \in panel.ink : /\ c = <<2 * q[1], q[2] \div 2>> \/ c = <<2 * q[1] + 1, q[2] \div 2>>
      BY <2>2, <2>5
    <3>2. q = <<q[1], q[2]>> /\ q[1] \in 0 .. (sw \div 2) - 1 /\ q[2] \in 0 .. 2 * sh - 1
      BY <2>1, GridPoint
    <3>3. PICK p \in img.ink : c = At(p)
      BY <1>1, <1>7
    <3>4. (c[1] = 2 * q[1] \/ c[1] = 2 * q[1] + 1) /\ c[2] = q[2] \div 2
      BY <3>1
    <3>5. q[1] = c[1] \div 2 /\ (q[2] = 2 * c[2] \/ q[2] = 2 * c[2] + 1)
      BY <1>1, <3>2, <3>4
    <3>6. q \in Places(At(p))
      BY <2>1, <3>2, <3>3, <3>5
    <3> QED
      BY <3>6
  <2> HIDE DEF all
  <2>6. all \cap Grid(w, h) = sent.ink
    BY <2>3, <2>4, <2>5
  <2> QED
    BY <2>6 DEF all, Places
<1>11. all \cap Grid(w, h) = sent.ink
  <2> HIDE DEF all
  <2> QED
    BY <1>9, <1>10
<1> QED
  BY <1>11

(* The framebuffer of a face as the preview decodes it. *)
LEMMA EncodedIs ==
  ASSUME NEW img, NEW o, IsOptions(o)
  PROVE  LET panel == RotateCCW(Sent(img, o), o.rotation) IN
         /\ IsPicture(panel)
         /\ GiciskyEncode(img, o) = Stream(panel, o)
         /\ EncodedPreview(GiciskyEncode(img, o), o) =
              [w |-> panel.w, h |-> panel.h,
               ink |-> IF o.invert THEN Grid(panel.w, panel.h) \ panel.ink ELSE panel.ink]
<1> DEFINE sent == Sent(img, o)
           panel == RotateCCW(sent, o.rotation)
<1>1. IsPicture(sent) /\ SentDims(o) = [w |-> sent.w, h |-> sent.h]
  BY SentIs
<1>2. GiciskyEncode(img, o) = Stream(panel, o)
  BY DEF GiciskyEncode, Sent
<1> HIDE DEF sent
<1>3. EncodedDims(o) = IF o.rotation % 2 # 0 THEN [w |-> sent.h, h |-> sent.w]
                                             ELSE [w |-> sent.w, h |-> sent.h]
  BY <1>1 DEF EncodedDims
<1>4. o.rotation \in 0 .. 3 /\ o.invert \in BOOLEAN
  BY DEF IsOptions
<1>5. /\ IsPicture(panel)
      /\ panel.w = IF o.rotation % 2 # 0 THEN sent.h ELSE sent.w
      /\ panel.h = IF o.rotation % 2 # 0 THEN sent.w ELSE sent.h
  BY <1>1, <1>4, RotateCCWIs
<1> HIDE DEF panel
<1>6. EncodedDims(o) = [w |-> panel.w, h |-> panel.h]
  BY <1>3, <1>5
<1>7. EncodedPreview(Stream(panel, o), o) =
        [w |-> panel.w, h |-> panel.h,
         ink |-> IF o.invert THEN Grid(panel.w, panel.h) \ panel.ink ELSE panel.ink]
  BY <1>4, <1>5, <1>6, PreviewIs
<1> QED
  BY <1>2, <1>5, <1>7 DEF panel, sent

-----------------------------------------------------------------------------
(* The inductive invariant: at every stage the text, the bits and the       *)
(* picture shown are what the code makes of the same item, drawing and      *)
(* options.  The properties say what these are.                             *)

Laid(t) ==
  /\ t.name \in Seq(Runes) /\ t.cents \in Int /\ t.max \in Nat \ {0}
  /\ t.lines = WrapTTF(t.name, t.w, t.max)
  /\ t.price = FormatPrice(t.cents)

IInv ==
  /\ stage \in {"asked", "laid out", "drawn", "shown", "encoded", "native"}
  /\ IF stage = "laid out" THEN Laid(text) ELSE text = NoText
  /\ IsOptions(options)
  /\ IsPicture(face)
  /\ stage \in {"drawn", "shown", "encoded"} => face.w = Width /\ face.h = Height
  /\ stage \in {"asked", "laid out", "drawn"} => shown = NoPicture
  /\ stage \in {"shown", "native"} => shown = face
  /\ stage \in {"asked", "laid out", "drawn", "shown"} => bits = <<>>
  /\ stage = "encoded" =>
       bits = GiciskyEncode(face, options) /\ shown = EncodedPreview(bits, options)
  /\ stage = "native" =>
       bits = PackNative(RotatePalettedCCW(face, options.rotation), options)

LEMMA NamesAreRunes == Names \subseteq Seq(Runes)
<1> SUFFICES ASSUME NEW n \in NameLengths, NEW blanks \in SUBSET (1 .. n)
             PROVE  [i \in 1 .. n |-> IF i \in blanks THEN Blank ELSE i] \in Seq(Runes)
  BY DEF Names
<1>1. n \in Nat
  BY FaceAssumption
<1>2. \A i \in 1 .. n : i \in Runes /\ Blank \in Runes
  BY <1>1 DEF Runes, Blank, Ellipsis
<1> QED
  BY <1>1, <1>2

LEMMA NoPictureIs == IsPicture(NoPicture)
<1>1. NoPicture = [w |-> 0, h |-> 0, ink |-> {p \in Grid(0, 0) : FALSE}]
  BY DEF NoPicture, Picture
<1> QED
  BY <1>1 DEF IsPicture

LEMMA DrawingIs ==
  ASSUME NEW w \in Nat, NEW h \in Nat, NEW g \in Drawings(w, h)
  PROVE  IsPicture(g) /\ g.w = w /\ g.h = h
<1>1. PICK ink \in UNION {kSubset(k, Grid(w, h)) : k \in 0 .. MaxInk} :
        g = [w |-> w, h |-> h, ink |-> ink]
  BY DEF Drawings
<1>2. ink \subseteq Grid(w, h)
  BY DEF kSubset
<1> QED
  BY <1>1, <1>2 DEF IsPicture

LEMMA TurnsIs ==
  ASSUME NEW d \in Int
  PROVE  Turns(d) \in 0 .. 3
  BY DEF Turns

LEMMA QueryIs ==
  ASSUME NEW o \in OptsFromQuery
  PROVE  IsOptions(o)
<1>1. {Turns(d) : d \in Degrees} \subseteq 0 .. 3
  BY FaceAssumption, TurnsIs
<1>2. SrcWidths \subseteq Int /\ Scales \subseteq Nat /\ Offsets \subseteq Int \X Int
  BY FaceAssumption
<1> QED
  BY <1>1, <1>2 DEF OptsFromQuery, IsOptions

LEMMA DefaultIs == IsOptions(DefaultOpts)
<1>1. <<0, 0>> \in Int \X Int
  OBVIOUS
<1> QED
  BY <1>1 DEF DefaultOpts, IsOptions

LEMMA Invariant == Spec => []IInv
<1>1. Init => IInv
  BY NoPictureIs, DefaultIs DEF Init, IInv
<1>2. IInv /\ [Next]_vars => IInv'
  <2> SUFFICES ASSUME IInv, [Next]_vars PROVE IInv'
    OBVIOUS
  <2>0. Width \in Nat /\ Height \in Nat /\ PanelH \in Nat
    BY FaceAssumption
  <2>1. CASE Answer
    BY <2>1, NoPictureIs, DefaultIs DEF Answer, IInv
  <2>2. ASSUME NEW name \in Names, NEW cents \in Cents, NEW w \in TitleWidths,
               NEW n \in MaxLines, RenderSchema(name, cents, w, n)
        PROVE  IInv'
    <3>1. name \in Seq(Runes) /\ cents \in Int
      BY NamesAreRunes, FaceAssumption
    <3>2. AtLeastOneLine(n) \in Nat \ {0}
      BY FaceAssumption DEF AtLeastOneLine
    <3>3. Laid(text')
      BY <2>2, <3>1, <3>2 DEF RenderSchema, Laid
    <3>4. /\ stage = "asked" /\ stage' = "laid out"
          /\ UNCHANGED <<face, options, bits, shown>>
      BY <2>2 DEF RenderSchema
    <3> QED
      BY <3>3, <3>4 DEF IInv
  <2>3. ASSUME NEW drawing \in Drawings(Width, Height), Draw(drawing)
        PROVE  IInv'
    BY <2>0, <2>3, DrawingIs DEF Draw, IInv
  <2>4. ASSUME NEW drawing \in Drawings(Width, Height), DrawPattern(drawing)
        PROVE  IInv'
    BY <2>0, <2>4, DrawingIs DEF DrawPattern, IInv
  <2>5. CASE Preview
    BY <2>5 DEF Preview, IInv
  <2>6. ASSUME NEW o \in OptsFromQuery, PreviewEncoded(o)
        PROVE  IInv'
    BY <2>6, QueryIs DEF PreviewEncoded, IInv
  <2>7. ASSUME NEW o \in OptsFromQuery,
               NEW disp \in Drawings(NativeGrid(o).w, NativeGrid(o).h),
               TestPatternNative(o, disp)
        PROVE  IInv'
    <3>1. IsOptions(o)
      BY QueryIs
    <3>2. NativeGrid(o).w \in Nat /\ NativeGrid(o).h \in Nat
      BY <2>0, <3>1 DEF NativeGrid, IsOptions
    <3>3. IsPicture(disp)
      BY <3>2, DrawingIs
    <3> QED
      BY <2>7, <3>1, <3>3 DEF TestPatternNative, IInv
  <2>8. CASE UNCHANGED vars
    BY <2>8 DEF vars, IInv, Laid
  <2> QED
    BY <2>1, <2>2, <2>3, <2>4, <2>5, <2>6, <2>7, <2>8 DEF Next
<1> QED
  BY <1>1, <1>2, PTL DEF Spec

-----------------------------------------------------------------------------
(* What follows from it *)

LEMMA NoTextReads ==
  /\ NoText.lines = <<>> /\ Joined(<<>>) = <<>>
  /\ SplitWords(<<>>) = <<>>
<1> DEFINE c == [out |-> <<>>, cur |-> <<>>]
           Body(g) == [k \in 0 .. Len(<<>>) |->
                         IF k = 0 THEN c ELSE Read(g[k - 1], <<>>[k])]
           h == CHOOSE g : g = Body(g)
           g0 == [k \in 0 .. 0 |-> c]
<1>1. SplitWords(<<>>) = Cut(h[Len(<<>>)]).out
  BY DEF SplitWords
<1>2. Len(<<>>) = 0 /\ \A k \in 0 .. 0 : k = 0
  OBVIOUS
<1> HIDE DEF c
<1>3. g0 = Body(g0)
  BY <1>2
<1>4. h = Body(h)
  <2> HIDE DEF Body
  <2> QED
    BY <1>3
<1> HIDE DEF h
<1>5. h[0] = c
  BY <1>2, <1>4
<1>6. SplitWords(<<>>) = <<>>
  BY <1>1, <1>2, <1>5 DEF Cut, c
<1> QED
  BY <1>6, JoinedNone DEF NoText

LEMMA LaidReads ==
  ASSUME NEW t, Laid(t)
  PROVE  LET written == Joined(t.lines)
             cut == written # <<>> /\ Last(written) = Ellipsis
             words == Joined(SplitWords(t.name))
         IN /\ Len(t.lines) <= t.max
            /\ IF cut THEN IsStrictPrefix(Front(written), words) ELSE written = words
            /\ \A line \in ToSet(t.lines) : Fits(line, t.w)
  BY WrapReads DEF Laid

LEMMA TypeFollows == IInv => TypeOK
<1> SUFFICES ASSUME IInv PROVE TypeOK
  OBVIOUS
<1>1. /\ stage \in {"asked", "laid out", "drawn", "shown", "encoded", "native"}
      /\ IsOptions(options) /\ IsPicture(face)
  BY DEF IInv
<1>2. options.rotation \in 0 .. 3
  BY <1>1 DEF IsOptions
<1>3. face.ink \subseteq Grid(face.w, face.h)
  BY <1>1 DEF IsPicture
<1>4. shown.ink \subseteq Grid(shown.w, shown.h) /\ bits \in Seq({0, 1}) /\ Len(bits) % 8 = 0
  <2>0. <<>> \in Seq({0, 1}) /\ Len(<<>>) % 8 = 0
    OBVIOUS
  <2>1. CASE stage \in {"asked", "laid out", "drawn"}
    BY <2>0, <2>1, NoPictureIs DEF IInv, IsPicture
  <2>2. CASE stage = "shown"
    BY <1>3, <2>0, <2>2 DEF IInv
  <2>3. CASE stage = "encoded"
    <3> DEFINE panel == RotateCCW(Sent(face, options), options.rotation)
    <3>1. /\ IsPicture(panel) /\ bits = Stream(panel, options)
          /\ shown = [w |-> panel.w, h |-> panel.h,
                      ink |-> IF options.invert THEN Grid(panel.w, panel.h) \ panel.ink
                                                ELSE panel.ink]
      BY <1>1, <2>3, EncodedIs DEF IInv
    <3> HIDE DEF panel
    <3>2. bits \in Seq({0, 1}) /\ Len(bits) % 8 = 0
      BY <3>1, StreamIs
    <3> QED
      BY <3>1, <3>2 DEF IsPicture
  <2>4. CASE stage = "native"
    <3> DEFINE turned == RotateCCW(face, options.rotation)
    <3>1. bits = Stream(turned, options) /\ shown = face
      BY <2>4 DEF IInv, PackNative, RotatePalettedCCW
    <3>2. IsPicture(turned)
      BY <1>1, <1>2, RotateCCWIs
    <3> HIDE DEF turned
    <3>3. bits \in Seq({0, 1}) /\ Len(bits) % 8 = 0
      BY <3>1, <3>2, StreamIs
    <3> QED
      BY <1>3, <3>1, <3>3
  <2> QED
    BY <1>1, <2>1, <2>2, <2>3, <2>4
<1>5. \A line \in ToSet(text.lines) : line # <<>>
  <2>1. CASE stage = "laid out"
    <3>1. Laid(text)
      BY <2>1 DEF IInv
    <3> QED
      BY <3>1, LaidReads DEF Fits
  <2>2. CASE stage # "laid out"
    <3>1. text.lines = <<>>
      BY <2>2, NoTextReads DEF IInv
    <3>2. ToSet(<<>>) = {}
      BY DEF ToSet
    <3> QED
      BY <3>1, <3>2
  <2> QED
    BY <2>1, <2>2
<1> QED
  BY <1>1, <1>2, <1>3, <1>4, <1>5 DEF TypeOK

(* Quarter turns, the points of a picture, bits in whole bytes, lines with  *)
(* something on them: what render.go and schema.go hand on.                 *)
THEOREM TypeCorrect == Spec => []TypeOK
  BY Invariant, TypeFollows, PTL

LEMMA TitleFollows == IInv => TitleReads
<1> SUFFICES ASSUME IInv PROVE TitleReads
  OBVIOUS
<1>1. CASE stage = "laid out"
  <2>1. Laid(text)
    BY <1>1 DEF IInv
  <2> QED
    BY <2>1, LaidReads DEF TitleReads, Fits
<1>2. CASE stage # "laid out"
  <2>1. text = NoText
    BY <1>2 DEF IInv
  <2>2. text.name = <<>> /\ text.max = 1 /\ text.lines = <<>>
    BY <2>1 DEF NoText
  <2>3. Len(<<>>) = 0 /\ ToSet(<<>>) = {}
    BY DEF ToSet
  <2> QED
    BY <2>2, <2>3, NoTextReads DEF TitleReads
<1> QED
  BY <1>1, <1>2

(* Whatever widths a font gives to lines, a title reads as the name does,   *)
(* and says so when it is cut (schema.go:112-150).                          *)
THEOREM TitleReadsHolds == Spec => []TitleReads
  BY Invariant, TitleFollows, PTL

LEMMA PriceFollows == IInv => PriceReads
<1> SUFFICES ASSUME IInv, stage = "laid out", text.cents \notin -99 .. -1
             PROVE  /\ Value(text.price) = (IF text.cents < 0 THEN - text.cents ELSE text.cents)
                    /\ Minus \in ToSet(text.price) <=> text.cents < 0
                    /\ text.price[Len(text.price) - 2] = Dot
  BY DEF PriceReads
<1>1. text.cents \in Int /\ text.price = FormatPrice(text.cents)
  BY DEF IInv, Laid
<1> DEFINE c == text.cents
<1> HIDE DEF c
<1>2. c \in Int /\ c \notin -99 .. -1
  BY <1>1 DEF c
<1>3. LET price == FormatPrice(c) IN
      /\ Value(price) = (IF c < 0 THEN - c ELSE c)
      /\ Minus \in ToSet(price) <=> c < 0
      /\ price[Len(price) - 2] = Dot
  BY <1>2, FormatReads
<1> QED
  BY <1>1, <1>3 DEF c

(* A price of any number of cents reads as that number, except for the      *)
(* debts of less than a dollar, whose sign is lost (render.go:502-509).     *)
THEOREM PriceReadsHolds == Spec => []PriceReads
  BY Invariant, PriceFollows, PTL

LEMMA InkFollows == IInv => InkArrives
<1> SUFFICES ASSUME IInv, stage = "encoded", options.scale = 100 PROVE InkArrives
  BY DEF InkArrives
<1> DEFINE sent == Sent(face, options)
           k == options.rotation
           panel == RotateCCW(sent, k)
           s == SrcDims(options)
           d == SentDims(options)
           At(p) == <<p[1] + Quotient(s.w - Width, 2) + options.off[1],
                      p[2] + Quotient(s.h - Height, 2) + options.off[2]>>
           Places(q) == IF options.tft THEN {<<q[1] \div 2, 2 * q[2]>>,
                                             <<q[1] \div 2, 2 * q[2] + 1>>}
                                       ELSE {q}
           landed == (UNION {Places(At(p)) : p \in face.ink}) \cap Grid(d.w, d.h)
           ink == {TurnedPoint(q, d.w, d.h, k) : q \in landed}
<1>1. /\ IsOptions(options) /\ k \in 0 .. 3
      /\ IsPicture(face) /\ face.w = Width /\ face.h = Height
      /\ bits = GiciskyEncode(face, options) /\ shown = EncodedPreview(bits, options)
  BY DEF IInv, IsOptions
<1>2. landed = sent.ink
  BY <1>1, SentInk
<1>3. IsPicture(sent) /\ d = [w |-> sent.w, h |-> sent.h]
  BY <1>1, SentIs
<1>4. shown = [w |-> panel.w, h |-> panel.h,
               ink |-> IF options.invert THEN Grid(panel.w, panel.h) \ panel.ink
                                         ELSE panel.ink]
  BY <1>1, EncodedIs
<1>5. panel.ink = ink
  <2> HIDE DEF sent, landed, d, k
  <2>1. panel.ink = {TurnedPoint(q, sent.w, sent.h, k) : q \in sent.ink}
    BY <1>1, <1>3, RotatedInk
  <2>2. d.w = sent.w /\ d.h = sent.h
    BY <1>3
  <2> QED
    BY <1>2, <2>1, <2>2
<1>6. shown.ink = (IF options.invert THEN Grid(shown.w, shown.h) \ ink ELSE ink)
  <2> HIDE DEF panel, ink
  <2> QED
    BY <1>4, <1>5
<1> QED
  BY <1>6 DEF InkArrives

(* No stroke is lost on its way to the framebuffer and none is added, on    *)
(* panels and faces of any size, under any options at full size             *)
(* (render.go:158-159).                                                     *)
THEOREM InkArrivesHolds == Spec => []InkArrives
  BY Invariant, InkFollows, PTL

LEMMA ShownFollows == IInv => ShownAsSent
<1> SUFFICES ASSUME IInv PROVE ShownAsSent
  OBVIOUS
<1>1. IsOptions(options) /\ options.rotation \in 0 .. 3 /\ options.invert \in BOOLEAN
  BY DEF IInv, IsOptions
<1>2. ASSUME stage = "encoded"
      PROVE  LET sent == IF options.tft THEN Reshape(GrayPanel(face, options))
                                        ELSE GrayPanel(face, options)
                 panel == RotateCCW(sent, options.rotation)
             IN /\ shown.w = panel.w /\ shown.h = panel.h
                /\ shown.ink = (IF options.invert THEN Grid(panel.w, panel.h) \ panel.ink
                                                  ELSE panel.ink)
  <2> DEFINE panel == RotateCCW(Sent(face, options), options.rotation)
  <2>1. shown = [w |-> panel.w, h |-> panel.h,
                 ink |-> IF options.invert THEN Grid(panel.w, panel.h) \ panel.ink
                                           ELSE panel.ink]
    BY <1>1, <1>2, EncodedIs DEF IInv
  <2> HIDE DEF panel
  <2>2. /\ shown.w = panel.w /\ shown.h = panel.h
        /\ shown.ink = (IF options.invert THEN Grid(panel.w, panel.h) \ panel.ink
                                          ELSE panel.ink)
    BY <2>1
  <2> QED
    BY <2>2 DEF panel, Sent
<1>3. ASSUME stage = "native"
      PROVE  LET turned == RotateCCW(shown, options.rotation)
             IN RotateCCW(Received(turned.w, turned.h), 4 - options.rotation) = shown
  <2> DEFINE turned == RotateCCW(shown, options.rotation)
  <2>1. IsPicture(shown) /\ bits = Stream(turned, options)
    BY <1>3 DEF IInv, PackNative, RotatePalettedCCW
  <2>2. IsPicture(turned) /\ RotateCCW(turned, 4 - options.rotation) = shown
    BY <1>1, <2>1, RotateCCWIs
  <2> HIDE DEF turned
  <2>3. Received(turned.w, turned.h) = turned
    BY <1>1, <2>1, <2>2, ReceivedIs
  <2> QED
    BY <2>2, <2>3 DEF turned
<1> QED
  BY <1>2, <1>3 DEF ShownAsSent

(* The panel shows what the preview does, whatever the mirrors, the turns   *)
(* and the polarity (render.go:415, web.go:437).                            *)
THEOREM ShownAsSentHolds == Spec => []ShownAsSent
  BY Invariant, ShownFollows, PTL
=============================================================================
