-------------------------------- MODULE Face --------------------------------
(***************************************************************************)
(* The face of a tag: the layout of its text (schema.go), the way of its   *)
(* picture to the panel's bits and back to a preview (render.go), and the  *)
(* two handlers that show them (web.go).                                   *)
(*                                                                         *)
(* Text is a sequence of runes, and a line has whatever width its font     *)
(* gives it; a picture is the set of its black points.  What the fonts and *)
(* drawText make of a line is not modelled: any ink may come of it.        *)
(***************************************************************************)
EXTENDS Integers, SequencesExt, FiniteSetsExt

CONSTANTS TTFWidth(_),      \* the width of a line in its font
          NameLengths,      \* bound: runes of a name
          Cents,            \* prices
          TitleWidths,      \* W of the title's box
          MaxLines,         \* its MaxLines
          Width, Height,    \* of a face, 250 x 122
          PanelH,           \* encSrcH, the panel's 132 rows
          MaxInk,           \* bound: black points of a drawn picture
          Degrees, SrcWidths, Scales, Offsets   \* what a query may ask for

ASSUME FaceAssumption ==
  /\ NameLengths \subseteq Nat /\ Cents \subseteq Int
  /\ TitleWidths \subseteq Nat /\ MaxLines \subseteq Int
  /\ {Width, Height, PanelH} \subseteq Nat \ {0} /\ MaxInk \in Nat
  /\ Degrees \subseteq Int /\ SrcWidths \subseteq Int
  /\ Scales \subseteq Nat /\ Offsets \subseteq Int \X Int

VARIABLES
  stage,     \* of the request under way
  text,      \* the item, its box and what is written of it
  face,      \* the picture that is drawn, upright
  options,   \* EncodeOpts
  bits,      \* the framebuffer, a bit at a time
  shown      \* the picture in the PNG

vars == <<stage, text, face, options, bits, shown>>

-----------------------------------------------------------------------------
(* Text *)

(* The runes of a name are told apart by their places; the digits of a     *)
(* price are themselves.                                                   *)
Blank == 0
Ellipsis == -1
Dollar == -2
Dot == -3
Minus == -4

Names == UNION {{[i \in 1 .. n |-> IF i \in blanks THEN Blank ELSE i] :
                   blanks \in SUBSET (1 .. n)} : n \in NameLengths}

(* The words before a blank, and the runes after it. *)
Cut(a) == IF a.cur = <<>> THEN a
          ELSE [out |-> Append(a.out, a.cur), cur |-> <<>>]
Read(a, r) == IF r = Blank THEN Cut(a) ELSE [a EXCEPT !.cur = Append(@, r)]

SplitWords(s) ==
  LET upTo[k \in 0 .. Len(s)] ==
        IF k = 0 THEN [out |-> <<>>, cur |-> <<>>] ELSE Read(upTo[k - 1], s[k])
  IN Cut(upTo[Len(s)]).out

(* The last line gives up runes until the ellipsis fits behind them. *)
Ellipsized(line, maxW) ==
  LET fits == {n \in 1 .. Len(line) :
                 ~ (TTFWidth(SubSeq(line, 1, n) \o <<Ellipsis>>) > maxW)}
  IN SubSeq(line, 1, Max(fits \cup {0})) \o <<Ellipsis>>

(* A word that does not fit begins a line, and whatever would begin the     *)
(* line after the last ends the loop.                                       *)
Place(a, word, maxW, maxLines) ==
  LET try == IF a.line = <<>> THEN word ELSE a.line \o <<Blank>> \o word IN
  IF Len(a.lines) = maxLines THEN a
  ELSE IF TTFWidth(try) > maxW /\ a.line # <<>>
  THEN [lines |-> Append(a.lines, a.line), line |-> word]
  ELSE [a EXCEPT !.line = try]

Placed(words, maxW, maxLines) ==
  LET upTo[k \in 0 .. Len(words)] ==
        IF k = 0 THEN [lines |-> <<>>, line |-> <<>>]
        ELSE Place(upTo[k - 1], words[k], maxW, maxLines)
  IN upTo[Len(words)]

(* A slip, for TitleReads: the rest of a long name goes without a sign. *)
WrapSilently(s, maxW, maxLines) ==
  LET end == Placed(SplitWords(s), maxW, maxLines)
  IN IF Len(end.lines) = maxLines \/ end.line = <<>> THEN end.lines
     ELSE Append(end.lines, end.line)

WrapTTF(s, maxW, maxLines) ==
  LET end == Placed(SplitWords(s), maxW, maxLines)
  IN IF Len(end.lines) = maxLines
     THEN Append(Front(end.lines), Ellipsized(Last(end.lines), maxW))
     ELSE IF end.line = <<>> THEN end.lines ELSE Append(end.lines, end.line)

AtLeastOneLine(n) == IF n < 1 THEN 1 ELSE n

(* Integer division as Go has it, towards zero. *)
Quotient(a, b) == IF a < 0 THEN - ((- a) \div b) ELSE a \div b

Itoa(n) ==
  LET size == IF n < 0 THEN - n ELSE n
      digits[m \in 0 .. size] ==
        (IF m < 10 THEN <<>> ELSE digits[m \div 10]) \o <<m % 10>>
  IN IF n < 0 THEN <<Minus>> \o digits[size] ELSE digits[size]

(* A slip, for PriceReads: cents are not padded to two digits. *)
NoPad(n) == Itoa(n)
Pad2(n) == IF n < 10 THEN Itoa(0) \o Itoa(n) ELSE Itoa(n)

FormatPrice(cents) ==
  LET d == Quotient(cents, 100)
      c == cents - 100 * d
  IN <<Dollar>> \o Itoa(d) \o <<Dot>> \o Pad2(IF c < 0 THEN - c ELSE c)

-----------------------------------------------------------------------------
(* Pictures *)

Grid(w, h) == (0 .. w - 1) \X (0 .. h - 1)
Picture(w, h, Black(_, _)) ==
  [w |-> w, h |-> h, ink |-> {p \in Grid(w, h) : Black(p[1], p[2])}]

Drawings(w, h) ==
  {[w |-> w, h |-> h, ink |-> ink] :
     ink \in UNION {kSubset(k, Grid(w, h)) : k \in 0 .. MaxInk}}

SrcDims(o) == [w |-> IF o.srcW <= 0 THEN Width ELSE o.srcW, h |-> PanelH]

(* The face is scaled, put in the middle of the canvas and nudged; what    *)
(* falls outside is lost.                                                  *)
GrayPanel(img, o) ==
  LET cw == (Width * o.scale) \div 100
      ch == (Height * o.scale) \div 100
      s == SrcDims(o)
      ox == Quotient(s.w - cw, 2) + o.off[1]
      oy == Quotient(s.h - ch, 2) + o.off[2]
      Black(tx, ty) ==
        /\ tx - ox \in 0 .. cw - 1 /\ ty - oy \in 0 .. ch - 1
        /\ <<((tx - ox) * Width) \div cw, ((ty - oy) * Height) \div ch>> \in img.ink
  IN Picture(s.w, s.h, Black)

(* A slip, for InkArrives: one of two columns is taken, thin strokes or not. *)
EveryOtherColumn(g) ==
  Picture(g.w \div 2, 2 * g.h, LAMBDA x, y : <<2 * x, y \div 2>> \in g.ink)

(* The panel's points are twice as wide as high. *)
Reshape(g) ==
  Picture(g.w \div 2, 2 * g.h,
          LAMBDA x, y : \E c \in {2 * x, 2 * x + 1} : <<c, y \div 2>> \in g.ink)

(* Counter-clockwise, k quarter turns. *)
Turn(p) == Picture(p.h, p.w, LAMBDA x, y : <<p.w - 1 - y, x>> \in p.ink)
RotateCCW(g, k) == CASE k % 4 = 0 -> g
                     [] k % 4 = 1 -> Turn(g)
                     [] k % 4 = 2 -> Turn(Turn(g))
                     [] k % 4 = 3 -> Turn(Turn(Turn(g)))

(* The same for a picture of the panel's own grid; lossless. *)
RotatePalettedCCW(g, k) == RotateCCW(g, k)

(* The point at place i of the walk, which a mirror runs backwards. *)
WalkAt(w, h, o, i) ==
  <<IF o.mirrorX THEN w - 1 - (i % w) ELSE i % w,
    IF o.mirrorY THEN h - 1 - (i \div w) ELSE i \div w>>

(* Whole bytes, high bit first: 1 is white, and zeros fill the last one. *)
Stream(g, o) ==
  [n \in 1 .. 8 * ((g.w * g.h + 7) \div 8) |->
     IF n <= g.w * g.h /\ (WalkAt(g.w, g.h, o, n - 1) \in g.ink) = o.invert
     THEN 1 ELSE 0]

GiciskyEncode(img, o) ==
  LET panel == GrayPanel(img, o)
  IN Stream(RotateCCW(IF o.tft THEN Reshape(panel) ELSE panel, o.rotation), o)

PackNative(img, o) == Stream(img, o)

SentDims(o) ==
  LET s == SrcDims(o)
  IN IF o.tft THEN [w |-> s.w \div 2, h |-> 2 * s.h] ELSE s

(* A slip, for ShownAsSent: a turn does not swap width and height. *)
UnturnedDims(o) == SentDims(o)

EncodedDims(o) ==
  LET d == SentDims(o)
  IN IF o.rotation % 2 # 0 THEN [w |-> d.h, h |-> d.w] ELSE d

(* The encoder's walk once more, from the bits; what is missing is black. *)
EncodedPreview(enc, o) ==
  LET d == EncodedDims(o)
      white == {WalkAt(d.w, d.h, o, n - 1) :
                  n \in {m \in 1 .. d.w * d.h : m <= Len(enc) /\ enc[m] = 1}}
  IN Picture(d.w, d.h, LAMBDA x, y : <<x, y>> \notin white)

-----------------------------------------------------------------------------
(* The handlers *)

NoText == [name |-> <<>>, cents |-> 0, w |-> 0, max |-> 1, lines |-> <<>>,
           price |-> <<>>]
NoPicture == Picture(0, 0, LAMBDA x, y : FALSE)

(* DefaultOpts, but for the offset, which is calibrated to the panel. *)
DefaultOpts == [tft |-> TRUE, rotation |-> 1, mirrorX |-> TRUE, mirrorY |-> FALSE,
                invert |-> FALSE, srcW |-> 0, scale |-> 100, off |-> <<0, 0>>]

(* A slip, for TypeOK: the remainder of a negative number is negative. *)
SignedTurns(d) == Quotient(d - 360 * Quotient(d, 360), 90)

(* Degrees become quarter turns. *)
Turns(d) == (d % 360) \div 90

(* What a query can make of them. *)
OptsFromQuery ==
  [tft : BOOLEAN, rotation : {Turns(d) : d \in Degrees},
   mirrorX : BOOLEAN, mirrorY : BOOLEAN, invert : BOOLEAN,
   srcW : SrcWidths, scale : Scales, off : Offsets]

Init ==
  /\ stage = "asked" /\ text = NoText /\ face = NoPicture
  /\ options = DefaultOpts /\ bits = <<>> /\ shown = NoPicture

(* RenderSchema: the name in lines, then the price. *)
RenderSchema(name, cents, w, n) ==
  /\ stage = "asked"
  /\ stage' = "laid out"
  /\ LET max == AtLeastOneLine(n) IN
       text' = [name |-> name, cents |-> cents, w |-> w, max |-> max,
                lines |-> WrapTTF(name, w, max), price |-> FormatPrice(cents)]
  /\ UNCHANGED <<face, options, bits, shown>>

(* The ink of the lines. *)
Draw(drawing) ==
  /\ stage = "laid out"
  /\ stage' = "drawn"
  /\ text' = NoText /\ face' = drawing
  /\ UNCHANGED <<options, bits, shown>>

(* A test pattern has no text. *)
DrawPattern(drawing) ==
  /\ stage = "asked"
  /\ stage' = "drawn"
  /\ face' = drawing
  /\ UNCHANGED <<text, options, bits, shown>>

(* PreviewImage: the face as it is drawn. *)
Preview ==
  /\ stage = "drawn"
  /\ stage' = "shown"
  /\ shown' = face
  /\ UNCHANGED <<text, face, options, bits>>

(* enc=1: the face as the bits have it. *)
PreviewEncoded(o) ==
  /\ stage = "drawn"
  /\ stage' = "encoded"
  /\ options' = o
  /\ bits' = GiciskyEncode(face, o)
  /\ shown' = EncodedPreview(bits', o)
  /\ UNCHANGED <<text, face>>

(* native=1: a pattern of the panel's own grid, turned against its scan. *)
NativeGrid(o) ==
  [w |-> Width \div 2, h |-> IF o.srcW > 0 THEN o.srcW ELSE 2 * PanelH]

TestPatternNative(o, disp) ==
  /\ stage = "asked"
  /\ stage' = "native"
  /\ face' = disp /\ options' = o
  /\ bits' = PackNative(RotatePalettedCCW(disp, o.rotation), o)
  /\ shown' = disp
  /\ UNCHANGED text

(* The PNG is written, and nothing is kept. *)
Answer ==
  /\ stage \in {"shown", "encoded", "native"}
  /\ stage' = "asked" /\ text' = NoText /\ face' = NoPicture
  /\ options' = DefaultOpts /\ bits' = <<>> /\ shown' = NoPicture

Next ==
  \/ Answer
  \/ \E name \in Names, cents \in Cents, w \in TitleWidths, n \in MaxLines :
       RenderSchema(name, cents, w, n)
  \/ \E drawing \in Drawings(Width, Height) : Draw(drawing) \/ DrawPattern(drawing)
  \/ Preview
  \/ \E o \in OptsFromQuery :
       \/ PreviewEncoded(o)
       \/ LET grid == NativeGrid(o) IN
            \E disp \in Drawings(grid.w, grid.h) : TestPatternNative(o, disp)

Spec == Init /\ [][Next]_vars

-----------------------------------------------------------------------------
(* Properties *)

TypeOK ==
  /\ stage \in {"asked", "laid out", "drawn", "shown", "encoded", "native"}
  /\ options.rotation \in 0 .. 3
  /\ \A g \in {face, shown} : g.ink \subseteq Grid(g.w, g.h)
  /\ bits \in Seq({0, 1}) /\ Len(bits) % 8 = 0
  /\ \A line \in ToSet(text.lines) : line # <<>>

(* What is read of lines, or of words.                                      *)
Joined(lines) ==
  LET upTo[k \in 0 .. Len(lines)] ==
        IF k = 0 THEN <<>>
        ELSE IF k = 1 THEN lines[1] ELSE upTo[k - 1] \o <<Blank>> \o lines[k]
  IN upTo[Len(lines)]

(* The title reads as the name does, word for word in its order, and ends  *)
(* in an ellipsis exactly when some of it is missing.  A line is too wide  *)
(* for the box only when it is a single word (schema.go:112-150).          *)
TitleReads ==
  LET written == Joined(text.lines)
      cut == written # <<>> /\ Last(written) = Ellipsis
      words == Joined(SplitWords(text.name))
  IN /\ Len(text.lines) <= text.max
     /\ IF cut THEN IsStrictPrefix(Front(written), words) ELSE written = words
     /\ \A line \in ToSet(text.lines) :
          TTFWidth(line) > text.w => Blank \notin ToSet(line)

(* What is read of the digits.                                              *)
Value(s) ==
  LET upTo[k \in 0 .. Len(s)] ==
        IF k = 0 THEN 0
        ELSE IF s[k] < 0 THEN upTo[k - 1] ELSE 10 * upTo[k - 1] + s[k]
  IN upTo[Len(s)]

(* A price reads as the number of cents it stands for, two of its digits   *)
(* behind the dot.  A debt of less than a dollar loses its sign            *)
(* (render.go:502-509).                                                    *)
PriceReads ==
  stage = "laid out" /\ text.cents \notin -99 .. -1 =>
    /\ Value(text.price) = (IF text.cents < 0 THEN - text.cents ELSE text.cents)
    /\ Minus \in ToSet(text.price) <=> text.cents < 0
    /\ text.price[Len(text.price) - 2] = Dot

(* Where a point of the face comes to lie after the reshape, and after k    *)
(* turns.                                                                   *)
TurnedPoint(p, w, h, k) ==
  CASE k = 0 -> p
    [] k = 1 -> <<p[2], w - 1 - p[1]>>
    [] k = 2 -> <<w - 1 - p[1], h - 1 - p[2]>>
    [] k = 3 -> <<h - 1 - p[2], p[1]>>

(* At full size no stroke is lost and none is added: a point of the         *)
(* framebuffer is black exactly when a black point of the face lies there,  *)
(* but for what the offset or an odd column moves off the panel             *)
(* (render.go:158-159).                                                     *)
InkArrives ==
  stage = "encoded" /\ options.scale = 100 =>
    LET s == SrcDims(options)
        d == SentDims(options)
        At(p) == <<p[1] + Quotient(s.w - Width, 2) + options.off[1],
                   p[2] + Quotient(s.h - Height, 2) + options.off[2]>>
        Places(q) == IF options.tft THEN {<<q[1] \div 2, 2 * q[2]>>,
                                          <<q[1] \div 2, 2 * q[2] + 1>>}
                                    ELSE {q}
        ink == {TurnedPoint(q, d.w, d.h, options.rotation) :
                  q \in (UNION {Places(At(p)) : p \in face.ink}) \cap Grid(d.w, d.h)}
    IN shown.ink = (IF options.invert THEN Grid(shown.w, shown.h) \ ink ELSE ink)

(* The panel, which walks the bits as they come and is scanned a quarter    *)
(* turn at a time, shows what the preview does: of the encoded face the     *)
(* framebuffer itself (render.go:415), of a native pattern its upright form *)
(* (web.go:437).                                                            *)
Received(w, h) ==
  [w |-> w, h |-> h,
   ink |-> {WalkAt(w, h, options, n - 1) :
              n \in {m \in 1 .. w * h : (bits[m] = 0) # options.invert}}]

ShownAsSent ==
  /\ stage = "encoded" =>
       LET sent == IF options.tft THEN Reshape(GrayPanel(face, options))
                                  ELSE GrayPanel(face, options)
           panel == RotateCCW(sent, options.rotation)
       IN /\ shown.w = panel.w /\ shown.h = panel.h
          /\ shown.ink = (IF options.invert THEN Grid(panel.w, panel.h) \ panel.ink
                                            ELSE panel.ink)
  /\ stage = "native" =>
       LET turned == RotateCCW(shown, options.rotation)
       IN RotateCCW(Received(turned.w, turned.h), 4 - options.rotation) = shown
=============================================================================
