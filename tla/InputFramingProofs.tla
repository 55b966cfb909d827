------------------------- MODULE InputFramingProofs -------------------------
(***************************************************************************)
(* Proofs about InputFraming, for any number of keystrokes, reads cut      *)
(* anywhere and every limit of a frame.  What is typed is a path through   *)
(* the keystrokes, byte by byte; the decoder cuts it into frames but loses *)
(* no byte, and the guard knows at each place of the path whether it is in *)
(* pasted text.                                                            *)
(***************************************************************************)
EXTENDS InputFraming, Paths

----------------------------------------------------------------------------
(* The keystrokes.                                                         *)

LEMMA Keystrokes ==
  DOMAIN Keystroke = {"y", "n", "escape", "arrow", "keypad", "long", "paste", "allow",
                      "release", "deny", "output", "wheel", "back"}
BY DEF Keystroke

\* Where a keystroke has the bytes that approve a request.
LEMMA Answers ==
  /\ \A key \in DOMAIN Keystroke :
       /\ Len(Keystroke[key]) \in Nat \ {0}
       /\ \A i \in 1 .. Len(Keystroke[key]) :
            /\ Keystroke[key][i] = "y" =>
                 key \in {"y", "keypad", "long"} \/ (key = "paste" /\ i = 5)
            /\ Keystroke[key][i] = "allow" => key \in {"allow", "release"} /\ i = 4
  /\ Len(Keystroke["allow"]) = 5 /\ Len(Keystroke["release"]) = 5
  /\ Keystroke["release"][5] = "m"
<1> USE DEF Keystroke
<1>1. ASSUME NEW key \in DOMAIN Keystroke
      PROVE  /\ Len(Keystroke[key]) \in Nat \ {0}
             /\ \A i \in 1 .. Len(Keystroke[key]) :
                  /\ Keystroke[key][i] = "y" =>
                       key \in {"y", "keypad", "long"} \/ (key = "paste" /\ i = 5)
                  /\ Keystroke[key][i] = "allow" => key \in {"allow", "release"} /\ i = 4
  <2>1. CASE key = "y" BY <2>1
  <2>2. CASE key = "n" BY <2>2
  <2>3. CASE key = "escape" BY <2>3
  <2>4. CASE key = "arrow" BY <2>4
  <2>5. CASE key = "keypad" BY <2>5
  <2>6. CASE key = "long" BY <2>6
  <2>7. CASE key = "paste" BY <2>7
  <2>8. CASE key = "allow" BY <2>8
  <2>9. CASE key = "release" BY <2>9
  <2>10. CASE key = "deny" BY <2>10
  <2>11. CASE key = "output" BY <2>11
  <2>12. CASE key = "wheel" BY <2>12
  <2>13. CASE key = "back" BY <2>13
  <2> QED BY Keystrokes, <2>1, <2>2, <2>3, <2>4, <2>5, <2>6, <2>7, <2>8, <2>9, <2>10,
             <2>11, <2>12, <2>13
<1> QED BY <1>1

LEMMA KeystrokeTypes ==
  ASSUME NEW key \in DOMAIN Keystroke
  PROVE  /\ Len(Keystroke[key]) \in Nat \ {0}
         /\ DOMAIN Keystroke[key] = 1 .. Len(Keystroke[key])
         /\ \A i \in 1 .. Len(Keystroke[key]) : Keystroke[key][i] \in Code
<1>1. DOMAIN Keystroke[key] = 1 .. Len(Keystroke[key])
  <2> USE DEF Keystroke
  <2>1. CASE key = "y" BY <2>1
  <2>2. CASE key = "n" BY <2>2
  <2>3. CASE key = "escape" BY <2>3
  <2>4. CASE key = "arrow" BY <2>4
  <2>5. CASE key = "keypad" BY <2>5
  <2>6. CASE key = "long" BY <2>6
  <2>7. CASE key = "paste" BY <2>7
  <2>8. CASE key = "allow" BY <2>8
  <2>9. CASE key = "release" BY <2>9
  <2>10. CASE key = "deny" BY <2>10
  <2>11. CASE key = "output" BY <2>11
  <2>12. CASE key = "wheel" BY <2>12
  <2>13. CASE key = "back" BY <2>13
  <2> QED BY Keystrokes, <2>1, <2>2, <2>3, <2>4, <2>5, <2>6, <2>7, <2>8, <2>9, <2>10,
             <2>11, <2>12, <2>13
<1>2. \A i \in 1 .. Len(Keystroke[key]) : Keystroke[key][i] \in Range(Keystroke[key])
  BY <1>1 DEF Range
<1> QED BY <1>1, <1>2, Answers DEF Code

\* The mark at the beginning of a paste.
LEMMA PasteMark ==
  /\ "paste" \in DOMAIN Keystroke /\ Len(Keystroke["paste"]) = 9
  /\ Keystroke["paste"][1] = "ESC" /\ Keystroke["paste"][2] = "["
  /\ Keystroke["paste"][3] = "200" /\ Keystroke["paste"][4] = "~"
BY DEF Keystroke

----------------------------------------------------------------------------
(* The path through what is typed.                                         *)

\* The last byte so far: its keystroke, and which byte of it.
Place == {c \in [key : DOMAIN Keystroke, at : Nat] : c.at \in 1 .. Len(Keystroke[c.key])}

\* The end of a keystroke.
Between(c) == c.at = Len(Keystroke[c.key])

\* From the byte at c, x is the next, at d.
Typed ==
  {s \in Place \X Byte \X Place :
     /\ s[2].key = s[3].key /\ s[2].b = Keystroke[s[3].key][s[3].at]
     /\ \/ s[3].key = s[1].key /\ s[3].at = s[1].at + 1
        \/ Between(s[1]) /\ s[3].at = 1}

LEMMA TypedSteps ==
  ASSUME NEW c, NEW x, NEW d
  PROVE  <<c, x, d>> \in Typed <=>
           /\ c \in Place /\ x \in Byte /\ d \in Place
           /\ x.key = d.key /\ x.b = Keystroke[d.key][d.at]
           /\ \/ d.key = c.key /\ d.at = c.at + 1
              \/ Between(c) /\ d.at = 1
BY DEF Typed

\* A keystroke leads from the end of one to its own end.
LEMMA PressPath ==
  ASSUME NEW c \in Place, Between(c), NEW key \in DOMAIN Keystroke
  PROVE  /\ bytesOf(key) \in Seq(Byte)
         /\ \A i \in DOMAIN bytesOf(key) : bytesOf(key)[i].key = key
         /\ \E d \in Place : Between(d) /\ Path(Typed, c, bytesOf(key), d)
<1> DEFINE n == Len(Keystroke[key])
           s == bytesOf(key)
           d == [key |-> key, at |-> n]
           p == [i \in 1 .. n + 1 |-> IF i = 1 THEN c ELSE [key |-> key, at |-> i - 1]]
<1>1. n \in Nat \ {0} /\ DOMAIN Keystroke[key] = 1 .. n
  BY KeystrokeTypes
<1>2. s = [i \in 1 .. n |-> [b |-> Keystroke[key][i], key |-> key]] BY <1>1 DEF bytesOf
<1>3. \A i \in 1 .. n : [b |-> Keystroke[key][i], key |-> key] \in Byte
  BY KeystrokeTypes DEF Byte
<1>4. s \in [1 .. n -> Byte] BY <1>2, <1>3
<1>5. s \in Seq(Byte) /\ Len(s) = n /\ DOMAIN s = 1 .. n BY <1>1, <1>4
<1>6. \A i \in 1 .. n : s[i] \in Byte /\ s[i].key = key /\ s[i].b = Keystroke[key][i]
  BY <1>2, <1>3
<1>7. \A i \in 1 .. n : [key |-> key, at |-> i] \in Place BY <1>1 DEF Place
<1>8. d \in Place /\ Between(d) BY <1>1, <1>7 DEF Between
<1>9. \A i \in 1 .. n + 1 : p[i] = IF i = 1 THEN c ELSE [key |-> key, at |-> i - 1]
  OBVIOUS
<1> HIDE DEF n, s, p
<1>10. p[1] = c
  <2>1. 1 \in 1 .. n + 1 BY <1>1
  <2> QED BY <1>9, <2>1
<1>11. \A i \in 1 .. n : p[i + 1] = [key |-> key, at |-> i]
  <2> TAKE i \in 1 .. n
  <2>1. i + 1 \in 1 .. n + 1 /\ i + 1 # 1 /\ (i + 1) - 1 = i BY <1>1
  <2> QED BY <1>9, <2>1
<1>12. p[n + 1] = d BY <1>1, <1>11
<1>13. ASSUME NEW i \in 1 .. n PROVE <<p[i], s[i], p[i + 1]>> \in Typed
  <2> DEFINE e == [key |-> key, at |-> i]
  <2>1. p[i + 1] = e /\ e \in Place /\ e.key = key /\ e.at = i BY <1>7, <1>11
  <2> HIDE DEF e
  <2>2. CASE i = 1
    <3>1. p[i] = c BY <1>10, <2>2
    <3> QED BY <1>6, <2>1, <2>2, <3>1, TypedSteps
  <2>3. CASE i # 1
    <3> DEFINE o == [key |-> key, at |-> i - 1]
    <3>1. i - 1 \in 1 .. n /\ (i - 1) + 1 = i BY <1>1, <2>3
    <3>2. p[i] = o /\ o \in Place /\ o.key = key /\ o.at = i - 1
      <4>1. p[(i - 1) + 1] = o BY <1>11, <3>1
      <4>2. o \in Place BY <1>7, <3>1
      <4> QED BY <3>1, <4>1, <4>2
    <3>3. i = (i - 1) + 1 BY <3>1
    <3> HIDE DEF o
    <3> QED BY <1>6, <2>1, <3>2, <3>3, TypedSteps
  <2> QED BY <2>2, <2>3
<1>14. Path(Typed, c, s, d) BY <1>5, <1>10, <1>12, <1>13 DEF Path
<1> QED BY <1>5, <1>6, <1>8, <1>14 DEF s

\* The places on a path.
LEMMA PlacesOf ==
  ASSUME NEW q \in Seq(Byte), NEW c \in Place, NEW d, Path(Typed, c, q, d)
  PROVE  d \in Place
<1>1. ASSUME NEW i \in 1 .. Len(q), NEW a, NEW b, a \in Place, <<a, q[i], b>> \in Typed
      PROVE  b \in Place
  BY <1>1, TypedSteps
<1> QED BY <1>1, PathKeeps

Frames == Seq(Byte) \ {<<>>}

\* A frame leads from the byte before it to its last byte.
Framed == {s \in Place \X Frames \X Place : Path(Typed, s[1], s[2], s[3])}

LEMMA FramedSteps ==
  ASSUME NEW c, NEW f, NEW d
  PROVE  <<c, f, d>> \in Framed <=>
           c \in Place /\ f \in Frames /\ d \in Place /\ Path(Typed, c, f, d)
BY DEF Framed

----------------------------------------------------------------------------
(* InputDecoder.                                                           *)

Decoder == [text : Seq(Byte), pending : Seq(Byte), frames : Seq(Frames)]

\* What the decoder has been given leads from c to e: first the frames, then the text
\* and what is kept back.
Decoded(c, d, e) ==
  /\ d \in Decoder
  /\ Len(d.pending) < MaxFrame
  /\ \E m \in Place, o \in Place :
       /\ Path(Framed, c, d.frames, m)
       /\ Path(Typed, m, d.text, o)
       /\ Path(Typed, o, d.pending, e)

LEMMA FramesOfPath ==
  ASSUME NEW c \in Place, NEW d \in Place, NEW text \in Seq(Byte), Path(Typed, c, text, d)
  PROVE  framesOf(text) \in Seq(Frames) /\ Path(Framed, c, framesOf(text), d)
<1>1. CASE text = <<>>
  <2>1. c = d BY <1>1, PathEmpty
  <2>2. framesOf(text) = <<>> /\ <<>> \in Seq(Frames) BY <1>1 DEF framesOf
  <2> QED BY <2>1, <2>2, PathEmpty
<1>2. CASE text # <<>>
  <2>1. text \in Frames BY <1>2 DEF Frames
  <2>2. <<c, text, d>> \in Framed BY <2>1, FramedSteps
  <2>3. framesOf(text) = <<text>> /\ <<text>> \in Seq(Frames) BY <1>2, <2>1 DEF framesOf
  <2> QED BY <2>2, <2>3, PathOne
<1> QED BY <1>1, <1>2

LEMMA FeedByteType ==
  ASSUME NEW d \in Decoder, NEW x \in Byte
  PROVE  feedByte(d, x) \in Decoder
<1> DEFINE pending == Append(d.pending, x)
           kept == [d EXCEPT !.text = Append(d.text, x)]
           first == d.frames \o framesOf(d.text)
           whole == Complete(pending) \/ Len(pending) >= MaxFrame
           cut(rest, last) == [text |-> <<>>, pending |-> rest, frames |-> first \o last]
<1>1. d.text \in Seq(Byte) /\ d.pending \in Seq(Byte) /\ d.frames \in Seq(Frames)
  BY DEF Decoder
<1>2. Append(d.text, x) \in Seq(Byte) /\ pending \in Seq(Byte) /\ pending # <<>>
  BY <1>1, AppendProperties
<1>3. kept \in Decoder BY <1>2 DEF Decoder
<1>4. framesOf(d.text) \in Seq(Frames)
  <2>1. d.text # <<>> => d.text \in Frames BY <1>1 DEF Frames
  <2>2. d.text # <<>> => <<d.text>> \in Seq(Frames) BY <2>1
  <2>3. <<>> \in Seq(Frames) OBVIOUS
  <2> QED BY <2>2, <2>3 DEF framesOf
<1>5. <<pending>> \in Seq(Frames) /\ <<>> \in Seq(Frames) /\ <<>> \in Seq(Byte)
  BY <1>2 DEF Frames
<1> HIDE DEF pending
<1>6. first \in Seq(Frames) BY <1>1, <1>4, ConcatProperties
<1> HIDE DEF first
<1>7. first \o <<pending>> \in Seq(Frames) /\ first \o <<>> \in Seq(Frames)
  BY <1>5, <1>6, ConcatProperties
<1>8. cut(<<>>, <<pending>>) \in Decoder /\ cut(pending, <<>>) \in Decoder
  BY <1>2, <1>5, <1>7 DEF Decoder
<1>9. feedByte(d, x) \in {kept, cut(<<>>, <<pending>>), cut(pending, <<>>)}
  BY DEF feedByte, pending, first
<1> HIDE DEF kept, cut
<1> QED BY <1>3, <1>8, <1>9

LEMMA FeedByteKeeps ==
  ASSUME NEW c \in Place, NEW d, NEW e, Decoded(c, d, e), NEW x, NEW f, <<e, x, f>> \in Typed
  PROVE  Decoded(c, feedByte(d, x), f)
<1>1. /\ d \in Decoder /\ d.text \in Seq(Byte) /\ d.pending \in Seq(Byte)
      /\ d.frames \in Seq(Frames) /\ Len(d.pending) < MaxFrame
  BY DEF Decoder, Decoded
<1>2. x \in Byte /\ e \in Place /\ f \in Place BY TypedSteps
<1>3. PICK m \in Place, o \in Place :
        /\ Path(Framed, c, d.frames, m) /\ Path(Typed, m, d.text, o)
        /\ Path(Typed, o, d.pending, e)
  BY DEF Decoded
<1>4. feedByte(d, x) \in Decoder BY <1>1, <1>2, FeedByteType
<1>5. CASE d.pending = <<>> /\ x.b # "ESC"
  <2>1. feedByte(d, x) = [d EXCEPT !.text = Append(d.text, x)] BY <1>5 DEF feedByte
  <2>2. /\ feedByte(d, x).text = Append(d.text, x) /\ feedByte(d, x).pending = <<>>
        /\ feedByte(d, x).frames = d.frames
    BY <1>1, <1>5, <2>1 DEF Decoder
  <2>3. o = e BY <1>3, <1>5, PathEmpty
  <2>4. Path(Typed, m, Append(d.text, x), f) BY <1>1, <1>2, <1>3, <2>3, PathAppend
  <2>5. Path(Typed, f, <<>>, f) BY PathEmpty
  <2>6. Len(<<>>) < MaxFrame BY MaxFrameAssumption
  <2> QED BY <1>2, <1>3, <1>4, <2>2, <2>4, <2>5, <2>6 DEF Decoded
<1>6. CASE ~(d.pending = <<>> /\ x.b # "ESC")
  <2> DEFINE pending == Append(d.pending, x)
             whole == Complete(pending) \/ Len(pending) >= MaxFrame
             first == d.frames \o framesOf(d.text)
  <2>1. feedByte(d, x) = [ text    |-> <<>>,
                           pending |-> IF whole THEN <<>> ELSE pending,
                           frames  |-> first \o (IF whole THEN <<pending>> ELSE <<>>) ]
    BY <1>6 DEF feedByte
  <2>2. pending \in Seq(Byte) /\ pending \in Frames BY <1>1, <1>2, AppendProperties DEF Frames
  <2>3. Path(Typed, o, pending, f) BY <1>1, <1>2, <1>3, PathAppend
  <2>4. framesOf(d.text) \in Seq(Frames) /\ Path(Framed, m, framesOf(d.text), o)
    BY <1>1, <1>3, FramesOfPath
  <2>5. first \in Seq(Frames) /\ Path(Framed, c, first, o)
    BY <1>1, <1>3, <2>4, PathConcat, ConcatProperties
  <2> HIDE DEF pending, first
  <2>6. Len(pending) \in Nat BY <2>2
  <2>7. CASE whole
    <3>1. /\ feedByte(d, x).text = <<>> /\ feedByte(d, x).pending = <<>>
          /\ feedByte(d, x).frames = first \o <<pending>>
      BY <2>1, <2>7
    <3>2. <<o, pending, f>> \in Framed BY <1>2, <2>2, <2>3, FramedSteps
    <3>3. Path(Framed, o, <<pending>>, f) BY <3>2, PathOne
    <3>4. <<pending>> \in Seq(Frames) BY <2>2
    <3>5. Path(Framed, c, first \o <<pending>>, f) BY <2>5, <3>3, <3>4, PathConcat
    <3>6. Path(Typed, f, <<>>, f) BY PathEmpty
    <3>7. Len(<<>>) < MaxFrame BY MaxFrameAssumption
    <3> QED BY <1>2, <1>4, <3>1, <3>5, <3>6, <3>7 DEF Decoded
  <2>8. CASE ~whole
    <3>1. /\ feedByte(d, x).text = <<>> /\ feedByte(d, x).pending = pending
          /\ feedByte(d, x).frames = first \o <<>>
      BY <2>1, <2>8
    <3>2. first \o <<>> = first BY <2>5, ConcatEmptySeq
    <3>3. Path(Typed, o, <<>>, o) BY PathEmpty
    <3>4. Len(pending) < MaxFrame BY <2>6, <2>8, MaxFrameAssumption
    <3> QED BY <1>3, <1>4, <2>3, <2>5, <3>1, <3>2, <3>3, <3>4 DEF Decoded
  <2> QED BY <2>7, <2>8
<1> QED BY <1>5, <1>6

\* feed's decoder after the first i bytes.
FeedAfter(pending, bytes) ==
  CHOOSE after : after =
    [i \in 0 .. Len(bytes) |->
       IF i = 0 THEN [pending |-> pending, text |-> <<>>, frames |-> <<>>]
       ELSE feedByte(after[i - 1], bytes[i])]

LEMMA FeedAfterEach ==
  ASSUME NEW pending \in Seq(Byte), NEW bytes \in Seq(Byte)
  PROVE  /\ FeedAfter(pending, bytes)[0] = [pending |-> pending, text |-> <<>>, frames |-> <<>>]
         /\ \A i \in 1 .. Len(bytes) :
              FeedAfter(pending, bytes)[i] = feedByte(FeedAfter(pending, bytes)[i - 1], bytes[i])
<1> DEFINE n == Len(bytes)
           d0 == [pending |-> pending, text |-> <<>>, frames |-> <<>>]
           U(g) == [i \in 0 .. n |-> IF i = 0 THEN d0 ELSE feedByte(g[i - 1], bytes[i])]
           S == {s \in Decoder \X Byte \X Decoder : s[3] = feedByte(s[1], s[2])}
<1>1. n \in Nat OBVIOUS
<1>2. d0 \in Decoder BY DEF Decoder
<1>3. \A a \in Decoder, x \in Byte : \E b \in Decoder : <<a, x, b>> \in S
  <2> TAKE a \in Decoder, x \in Byte
  <2>1. feedByte(a, x) \in Decoder BY FeedByteType
  <2>2. <<a, x, feedByte(a, x)>> \in S BY <2>1
  <2> QED BY <2>1, <2>2
<1>4. PICK d : Path(S, d0, bytes, d)
  <2> HIDE DEF d0, S
  <2> QED BY <1>2, <1>3, PathExists
<1>5. PICK p : p[1] = d0 /\ \A i \in 1 .. n : <<p[i], bytes[i], p[i + 1]>> \in S
  BY <1>4 DEF Path
<1>6. \A i \in 1 .. n : p[i + 1] = feedByte(p[i], bytes[i]) BY <1>5
<1> DEFINE g == [i \in 0 .. n |-> p[i + 1]]
<1> HIDE DEF d0, S
<1>7. g = U(g)
  <2>1. ASSUME NEW i \in 0 .. n
        PROVE  p[i + 1] = IF i = 0 THEN d0 ELSE feedByte(g[i - 1], bytes[i])
    <3>1. CASE i = 0 BY <1>5, <3>1
    <3>2. CASE i # 0
      <4>1. i \in 1 .. n /\ i - 1 \in 0 .. n /\ (i - 1) + 1 = i BY <1>1, <3>2
      <4>2. g[i - 1] = p[(i - 1) + 1] BY <4>1
      <4>3. g[i - 1] = p[i] BY <4>1, <4>2
      <4> QED BY <1>6, <3>2, <4>1, <4>3
    <3> QED BY <3>1, <3>2
  <2> QED BY <2>1
<1> HIDE DEF g
<1>8. FeedAfter(pending, bytes) = U(FeedAfter(pending, bytes))
  BY <1>7 DEF FeedAfter, d0
<1> HIDE DEF U
<1>9. \A i \in 0 .. n : FeedAfter(pending, bytes)[i] =
        IF i = 0 THEN d0 ELSE feedByte(FeedAfter(pending, bytes)[i - 1], bytes[i])
  <2> DEFINE h == FeedAfter(pending, bytes)
  <2>1. h = U(h) BY <1>8
  <2> HIDE DEF h
  <2>2. \A i \in 0 .. n : h[i] = IF i = 0 THEN d0 ELSE feedByte(h[i - 1], bytes[i])
    BY <2>1 DEF U
  <2> QED BY <2>2 DEF h
<1>10. 0 \in 0 .. n /\ \A i \in 1 .. n : i \in 0 .. n /\ i # 0 BY <1>1
<1> QED BY <1>9, <1>10 DEF d0

(* The decoder loses no byte, whatever it is given: the frames of a read    *)
(* and what is kept back continue the path through what was typed           *)
(* (InputDecoder::feed).                                                    *)
LEMMA FeedKeeps ==
  ASSUME NEW c \in Place, NEW m \in Place, NEW e \in Place,
         NEW pending \in Seq(Byte), Len(pending) < MaxFrame, NEW bytes \in Seq(Byte),
         Path(Typed, c, pending, m), Path(Typed, m, bytes, e)
  PROVE  /\ feed(pending, bytes).frames \in Seq(Frames)
         /\ feed(pending, bytes).pending \in Seq(Byte)
         /\ Len(feed(pending, bytes).pending) < MaxFrame
         /\ \E d \in Place : /\ Path(Framed, c, feed(pending, bytes).frames, d)
                             /\ Path(Typed, d, feed(pending, bytes).pending, e)
<1> DEFINE n == Len(bytes)
           h == FeedAfter(pending, bytes)
           d0 == [pending |-> pending, text |-> <<>>, frames |-> <<>>]
<1>1. n \in Nat OBVIOUS
<1>2. h[0] = d0 /\ \A i \in 1 .. n : h[i] = feedByte(h[i - 1], bytes[i]) BY FeedAfterEach
<1>3. /\ feed(pending, bytes).pending = h[n].pending
      /\ feed(pending, bytes).frames = h[n].frames \o framesOf(h[n].text)
  BY DEF feed, FeedAfter
<1> HIDE DEF h
<1>4. PICK p : /\ p[1] = m /\ p[n + 1] = e
               /\ \A i \in 1 .. n : <<p[i], bytes[i], p[i + 1]>> \in Typed
  BY DEF Path
<1> DEFINE G == {i \in 0 .. n : Decoded(c, h[i], p[i + 1])}
<1>5. 0 \in G
  <2>1. /\ d0 \in Decoder /\ d0.pending = pending /\ d0.text = <<>> /\ d0.frames = <<>>
    BY DEF Decoder
  <2>2. Path(Framed, c, <<>>, c) /\ Path(Typed, c, <<>>, c) BY PathEmpty
  <2> HIDE DEF d0
  <2>3. Decoded(c, d0, m) BY <2>1, <2>2 DEF Decoded
  <2>4. 0 \in 0 .. n /\ 0 + 1 = 1 BY <1>1
  <2> QED BY <1>2, <1>4, <2>3, <2>4
<1>6. ASSUME NEW i \in 1 .. n, i - 1 \in G PROVE i \in G
  <2>1. (i - 1) + 1 = i /\ i \in 0 .. n BY <1>1
  <2>2. Decoded(c, h[i - 1], p[i]) BY <1>6, <2>1
  <2>3. <<p[i], bytes[i], p[i + 1]>> \in Typed BY <1>4
  <2>4. Decoded(c, feedByte(h[i - 1], bytes[i]), p[i + 1]) BY <2>2, <2>3, FeedByteKeeps
  <2> QED BY <1>2, <2>1, <2>4
<1> HIDE DEF G, n
<1>7. n \in G
  <2>1. \A i \in 0 .. n : i \in G BY <1>1, <1>5, <1>6, UpTo
  <2> QED BY <1>1, <2>1
<1>8. Decoded(c, h[n], e) BY <1>4, <1>7 DEF G
<1>9. PICK a \in Place, o \in Place :
        /\ Path(Framed, c, h[n].frames, a) /\ Path(Typed, a, h[n].text, o)
        /\ Path(Typed, o, h[n].pending, e)
  BY <1>8 DEF Decoded
<1>10. /\ h[n].text \in Seq(Byte) /\ h[n].pending \in Seq(Byte) /\ h[n].frames \in Seq(Frames)
       /\ Len(h[n].pending) < MaxFrame
  BY <1>8 DEF Decoded, Decoder
<1>11. framesOf(h[n].text) \in Seq(Frames) /\ Path(Framed, a, framesOf(h[n].text), o)
  BY <1>9, <1>10, FramesOfPath
<1>12. /\ h[n].frames \o framesOf(h[n].text) \in Seq(Frames)
       /\ Path(Framed, c, h[n].frames \o framesOf(h[n].text), o)
  BY <1>9, <1>10, <1>11, PathConcat, ConcatProperties
<1> QED BY <1>3, <1>9, <1>10, <1>12

\* InputDecoder::flush_key
LEMMA FlushKeeps ==
  ASSUME NEW c \in Place, NEW e \in Place, NEW pending \in Seq(Byte),
         Len(pending) < MaxFrame, Path(Typed, c, pending, e)
  PROVE  /\ flush_key(pending).frames \in Seq(Frames)
         /\ flush_key(pending).pending \in Seq(Byte)
         /\ Len(flush_key(pending).pending) < MaxFrame
         /\ \E d \in Place : /\ Path(Framed, c, flush_key(pending).frames, d)
                             /\ Path(Typed, d, flush_key(pending).pending, e)
<1>1. CASE flush_key(pending) = [pending |-> pending, frames |-> <<>>]
  <2>1. /\ flush_key(pending).pending = pending /\ flush_key(pending).frames = <<>>
        /\ <<>> \in Seq(Frames)
    BY <1>1
  <2>2. Path(Framed, c, <<>>, c) BY PathEmpty
  <2> QED BY <2>1, <2>2
<1>2. CASE flush_key(pending) = [pending |-> <<>>, frames |-> framesOf(pending)]
  <2>1. /\ flush_key(pending).pending = <<>> /\ flush_key(pending).frames = framesOf(pending)
        /\ <<>> \in Seq(Byte) /\ Len(<<>>) = 0
    BY <1>2
  <2>2. Path(Typed, e, <<>>, e) BY PathEmpty
  <2> QED BY <2>1, <2>2, FramesOfPath, MaxFrameAssumption
<1> QED BY <1>1, <1>2 DEF flush_key

----------------------------------------------------------------------------
(* InputGuard.                                                             *)

Guard == [sequence : Seq(Code), paste : BOOLEAN]

\* What the guard has seen of a paste when the byte at c was the last.
GuardAt(g, c) ==
  /\ g \in Guard
  /\ c.key = "paste" =>
       /\ c.at = 1 => g.sequence = <<"ESC">>
       /\ c.at = 2 => g.sequence = <<"ESC", "[">>
       /\ c.at = 3 => g.sequence = <<"ESC", "[", "200">>
       /\ c.at = 4 => g.paste

LEMMA GuardByteType ==
  ASSUME NEW g \in Guard, NEW b \in Code
  PROVE  guardByte(g, b) \in Guard
<1> DEFINE s == Append(g.sequence, b)
           over == \/ Len(s) = 2 /\ b # "["
                   \/ Len(s) > 2 /\ Final(b)
                   \/ Len(s) > MaxFrame
           pasted == CASE s = <<"ESC", "[", "200", "~">> -> TRUE
                       [] s = <<"ESC", "[", "201", "~">> -> FALSE
                       [] OTHER -> g.paste
           rest == IF over THEN <<>> ELSE s
<1>1. s \in Seq(Code) /\ <<b>> \in Seq(Code) /\ <<>> \in Seq(Code)
  BY AppendProperties DEF Guard
<1>2. pasted \in BOOLEAN
  <2>1. <<"ESC", "[", "200", "~">>[3] # <<"ESC", "[", "201", "~">>[3] OBVIOUS
  <2> QED BY <2>1 DEF Guard
<1> HIDE DEF pasted
<1>3. rest \in Seq(Code) BY <1>1
<1> HIDE DEF rest
<1>4. [sequence |-> rest, paste |-> pasted] \in Guard BY <1>2, <1>3 DEF Guard
<1>5. [g EXCEPT !.sequence = <<b>>] \in Guard BY <1>1 DEF Guard
<1>6. guardByte(g, b) \in {[g EXCEPT !.sequence = <<b>>], g, [sequence |-> rest, paste |-> pasted]}
  BY DEF guardByte, rest, pasted
<1> QED BY <1>4, <1>5, <1>6

\* guardByte in the middle of a control sequence.
LEMMA GuardByteInside ==
  ASSUME NEW g \in Guard, NEW b \in Code, b # "ESC", g.sequence # <<>>,
         NEW s, s = Append(g.sequence, b)
  PROVE  /\ ~(Len(s) = 2 /\ b # "[") /\ ~(Len(s) > 2 /\ Final(b)) /\ ~(Len(s) > MaxFrame)
              => guardByte(g, b).sequence = s
         /\ s = <<"ESC", "[", "200", "~">> => guardByte(g, b).paste
<1> DEFINE over == \/ Len(s) = 2 /\ b # "["
                   \/ Len(s) > 2 /\ Final(b)
                   \/ Len(s) > MaxFrame
           pasted == CASE s = <<"ESC", "[", "200", "~">> -> TRUE
                       [] s = <<"ESC", "[", "201", "~">> -> FALSE
                       [] OTHER -> g.paste
           rest == IF over THEN <<>> ELSE s
<1>1. guardByte(g, b) = [sequence |-> rest, paste |-> pasted]
  <2> HIDE DEF pasted
  <2>1. guardByte(g, b) =
          CASE b = "ESC" -> [g EXCEPT !.sequence = <<b>>]
            [] b # "ESC" /\ g.sequence = <<>> -> g
            [] OTHER -> [sequence |-> rest, paste |-> pasted]
    BY DEF guardByte, pasted
  <2> HIDE DEF rest
  <2> QED BY <2>1
<1>2. s = <<"ESC", "[", "200", "~">> => pasted
  <2>1. <<"ESC", "[", "200", "~">>[3] # <<"ESC", "[", "201", "~">>[3] OBVIOUS
  <2> QED BY <2>1
<1> HIDE DEF pasted
<1>3. guardByte(g, b).sequence = rest /\ guardByte(g, b).paste = pasted
  <2> HIDE DEF rest
  <2> QED BY <1>1
<1> QED BY <1>2, <1>3

LEMMA GuardByteKeeps ==
  ASSUME NEW c, NEW x, NEW d, <<c, x, d>> \in Typed, NEW g, GuardAt(g, c)
  PROVE  GuardAt(guardByte(g, x.b), d)
<1>1. /\ c \in Place /\ d \in Place /\ x \in Byte /\ x.b = Keystroke[d.key][d.at]
      /\ \/ d.key = c.key /\ d.at = c.at + 1
         \/ Between(c) /\ d.at = 1
  BY TypedSteps
<1>2. x.b \in Code /\ g \in Guard BY <1>1 DEF Byte, GuardAt
<1>3. guardByte(g, x.b) \in Guard BY <1>2, GuardByteType
<1>4. c.at \in Nat /\ d.at \in Nat /\ c.at >= 1 BY <1>1 DEF Place
<1> SUFFICES ASSUME d.key = "paste", d.at \in 1 .. 4
             PROVE  /\ d.at = 1 => guardByte(g, x.b).sequence = <<"ESC">>
                    /\ d.at = 2 => guardByte(g, x.b).sequence = <<"ESC", "[">>
                    /\ d.at = 3 => guardByte(g, x.b).sequence = <<"ESC", "[", "200">>
                    /\ d.at = 4 => guardByte(g, x.b).paste
  BY <1>3, <1>4 DEF GuardAt
<1>b. x.b = Keystroke["paste"][d.at] BY <1>1
<1>c. d.at # 1 => c.key = "paste" /\ c.at = d.at - 1 BY <1>1, <1>4
<1>5. CASE d.at = 1
  <2>1. x.b = "ESC" BY <1>b, <1>5, PasteMark
  <2>2. guardByte(g, x.b) = [g EXCEPT !.sequence = <<"ESC">>] BY <2>1 DEF guardByte
  <2> QED BY <1>2, <1>5, <2>2 DEF Guard
<1>6. CASE d.at = 2
  <2>1. x.b = "[" BY <1>b, <1>6, PasteMark
  <2>2. c.key = "paste" /\ c.at = 1 BY <1>c, <1>6
  <2>3. g.sequence = <<"ESC">> BY <2>2 DEF GuardAt
  <2> DEFINE s == <<"ESC", "[">>
  <2>4. s = Append(g.sequence, x.b) /\ Len(s) = 2 /\ s # <<>> /\ g.sequence # <<>>
    BY <2>1, <2>3
  <2> HIDE DEF s
  <2>5. x.b # "ESC" /\ ~(Len(s) = 2 /\ x.b # "[") /\ ~(Len(s) > 2 /\ Final(x.b))
        /\ ~(Len(s) > MaxFrame)
    BY <2>1, <2>4, MaxFrameAssumption
  <2>6. guardByte(g, x.b).sequence = s BY <1>2, <2>4, <2>5, GuardByteInside
  <2> QED BY <1>6, <2>6 DEF s
<1>7. CASE d.at = 3
  <2>1. x.b = "200" BY <1>b, <1>7, PasteMark
  <2>2. c.key = "paste" /\ c.at = 2 BY <1>c, <1>7
  <2>3. g.sequence = <<"ESC", "[">> BY <2>2 DEF GuardAt
  <2> DEFINE s == <<"ESC", "[", "200">>
  <2>4. s = Append(g.sequence, x.b) /\ Len(s) = 3 /\ g.sequence # <<>> BY <2>1, <2>3
  <2> HIDE DEF s
  <2>5. ~Final(x.b) /\ x.b # "ESC" BY <2>1 DEF Final
  <2>6. ~(Len(s) = 2 /\ x.b # "[") /\ ~(Len(s) > 2 /\ Final(x.b)) /\ ~(Len(s) > MaxFrame)
    BY <2>4, <2>5, MaxFrameAssumption
  <2>7. guardByte(g, x.b).sequence = s BY <1>2, <2>4, <2>5, <2>6, GuardByteInside
  <2> QED BY <1>7, <2>7 DEF s
<1>8. CASE d.at = 4
  <2>1. x.b = "~" BY <1>b, <1>8, PasteMark
  <2>2. c.key = "paste" /\ c.at = 3 BY <1>c, <1>8
  <2>3. g.sequence = <<"ESC", "[", "200">> BY <2>2 DEF GuardAt
  <2> DEFINE s == <<"ESC", "[", "200", "~">>
  <2>4. s = Append(g.sequence, x.b) /\ g.sequence # <<>> BY <2>1, <2>3
  <2>5. s = <<"ESC", "[", "200", "~">> OBVIOUS
  <2> HIDE DEF s
  <2>6. guardByte(g, x.b).paste BY <1>2, <2>1, <2>4, <2>5, GuardByteInside
  <2> QED BY <1>8, <2>6
<1> QED BY <1>5, <1>6, <1>7, <1>8

\* guarded's guard after the first i bytes.
GuardAfter(g, frame) ==
  CHOOSE after : after =
    [i \in 0 .. Len(frame) |-> IF i = 0 THEN g ELSE guardByte(after[i - 1], frame[i].b)]

LEMMA GuardAfterEach ==
  ASSUME NEW g \in Guard, NEW frame \in Seq(Byte)
  PROVE  /\ GuardAfter(g, frame)[0] = g
         /\ \A i \in 1 .. Len(frame) :
              GuardAfter(g, frame)[i] = guardByte(GuardAfter(g, frame)[i - 1], frame[i].b)
<1> DEFINE n == Len(frame)
           U(h) == [i \in 0 .. n |-> IF i = 0 THEN g ELSE guardByte(h[i - 1], frame[i].b)]
           S == {s \in Guard \X Byte \X Guard : s[3] = guardByte(s[1], s[2].b)}
<1>1. n \in Nat OBVIOUS
<1>2. \A a \in Guard, x \in Byte : \E b \in Guard : <<a, x, b>> \in S
  <2> TAKE a \in Guard, x \in Byte
  <2>1. guardByte(a, x.b) \in Guard BY GuardByteType DEF Byte
  <2>2. <<a, x, guardByte(a, x.b)>> \in S BY <2>1
  <2> QED BY <2>1, <2>2
<1>3. PICK d : Path(S, g, frame, d)
  <2> HIDE DEF S
  <2> QED BY <1>2, PathExists
<1>4. PICK p : p[1] = g /\ \A i \in 1 .. n : <<p[i], frame[i], p[i + 1]>> \in S
  BY <1>3 DEF Path
<1>5. \A i \in 1 .. n : p[i + 1] = guardByte(p[i], frame[i].b) BY <1>4
<1> DEFINE h == [i \in 0 .. n |-> p[i + 1]]
<1> HIDE DEF S
<1>6. h = U(h)
  <2>1. ASSUME NEW i \in 0 .. n
        PROVE  p[i + 1] = IF i = 0 THEN g ELSE guardByte(h[i - 1], frame[i].b)
    <3>1. CASE i = 0 BY <1>4, <3>1
    <3>2. CASE i # 0
      <4>1. i \in 1 .. n /\ i - 1 \in 0 .. n /\ (i - 1) + 1 = i BY <1>1, <3>2
      <4>2. h[i - 1] = p[(i - 1) + 1] BY <4>1
      <4>3. h[i - 1] = p[i] BY <4>1, <4>2
      <4> QED BY <1>5, <3>2, <4>1, <4>3
    <3> QED BY <3>1, <3>2
  <2> QED BY <2>1
<1> HIDE DEF h
<1> DEFINE f == GuardAfter(g, frame)
<1>7. f = U(f) BY <1>6 DEF GuardAfter
<1> HIDE DEF f
<1>8. \A i \in 0 .. n : f[i] = IF i = 0 THEN g ELSE guardByte(f[i - 1], frame[i].b)
  BY <1>7
<1>9. 0 \in 0 .. n /\ \A i \in 1 .. n : i \in 0 .. n /\ i # 0 BY <1>1
<1> QED BY <1>8, <1>9 DEF f

(* The guard is in step with what was typed after every frame               *)
(* (InputGuard::explicit_key): after the mark of a paste it knows of it.    *)
LEMMA GuardedKeeps ==
  ASSUME NEW c, NEW d, NEW frame \in Seq(Byte), Path(Typed, c, frame, d),
         NEW g, GuardAt(g, c)
  PROVE  GuardAt(guarded(g, frame), d)
<1> DEFINE n == Len(frame)
           h == GuardAfter(g, frame)
<1>1. n \in Nat /\ g \in Guard BY DEF GuardAt
<1>2. h[0] = g /\ \A i \in 1 .. n : h[i] = guardByte(h[i - 1], frame[i].b)
  BY <1>1, GuardAfterEach
<1>3. guarded(g, frame) = h[n] BY DEF guarded, GuardAfter
<1> HIDE DEF h
<1>4. PICK p : /\ p[1] = c /\ p[n + 1] = d
               /\ \A i \in 1 .. n : <<p[i], frame[i], p[i + 1]>> \in Typed
  BY DEF Path
<1> DEFINE G == {i \in 0 .. n : GuardAt(h[i], p[i + 1])}
<1>5. 0 \in G
  <2>1. 0 \in 0 .. n /\ 0 + 1 = 1 BY <1>1
  <2> QED BY <1>2, <1>4, <2>1
<1>6. ASSUME NEW i \in 1 .. n, i - 1 \in G PROVE i \in G
  <2>1. (i - 1) + 1 = i /\ i \in 0 .. n BY <1>1
  <2>2. GuardAt(h[i - 1], p[i]) BY <1>6, <2>1
  <2>3. <<p[i], frame[i], p[i + 1]>> \in Typed BY <1>4
  <2>4. GuardAt(guardByte(h[i - 1], frame[i].b), p[i + 1]) BY <2>2, <2>3, GuardByteKeeps
  <2> QED BY <1>2, <2>1, <2>4
<1> HIDE DEF G, n
<1>7. n \in G
  <2>1. \A i \in 0 .. n : i \in G BY <1>1, <1>5, <1>6, UpTo
  <2> QED BY <1>1, <2>1
<1> QED BY <1>3, <1>4, <1>7 DEF G

----------------------------------------------------------------------------
(* The frames that approve.                                                *)

LEMMA PlainByte ==
  ASSUME NEW frame \in Seq(Byte)
  PROVE  /\ Len(plain(frame)) = Len(frame)
         /\ \A i \in 1 .. Len(frame) : plain(frame)[i] = frame[i].b
<1>1. DOMAIN frame = 1 .. Len(frame) /\ Len(frame) \in Nat OBVIOUS
<1> QED BY <1>1 DEF plain

(* A frame that begins with a y outside a paste is the y of an answer, or   *)
(* of a control sequence that was cut before it.                            *)
LEMMA KeyApproves ==
  ASSUME NEW c, NEW d, NEW frame \in Frames, Path(Typed, c, frame, d),
         NEW g, GuardAt(g, c), ~g.paste, frame[1].b = "y"
  PROVE  frame[1].key \in {"y", "keypad", "long"}
<1>1. frame \in Seq(Byte) /\ frame # <<>> BY DEF Frames
<1>2. PICK e : <<c, Head(frame), e>> \in Typed BY <1>1, PathHead
<1>3. Head(frame) = frame[1] BY <1>1
<1>4. /\ e \in Place /\ c \in Place /\ frame[1].key = e.key /\ Keystroke[e.key][e.at] = "y"
      /\ (e.key = c.key /\ e.at = c.at + 1) \/ (Between(c) /\ e.at = 1)
  BY <1>2, <1>3, TypedSteps
<1>5. /\ e.key \in DOMAIN Keystroke /\ e.at \in 1 .. Len(Keystroke[e.key])
      /\ c.at \in Nat
  BY <1>4 DEF Place
<1>6. e.key \in {"y", "keypad", "long"} \/ (e.key = "paste" /\ e.at = 5)
  BY <1>4, <1>5, Answers
<1>7. ~(e.key = "paste" /\ e.at = 5)
  <2> SUFFICES ASSUME e.key = "paste", e.at = 5 PROVE FALSE OBVIOUS
  <2>1. c.key = "paste" /\ c.at = 4 BY <1>4, <1>5
  <2> QED BY <2>1 DEF GuardAt
<1> QED BY <1>4, <1>6, <1>7

(* A mouse report that approves is the click on the footer's word.          *)
LEMMA ClickApproves ==
  ASSUME NEW c, NEW d, NEW frame \in Frames, Path(Typed, c, frame, d),
         IsReport(frame), mouse_report(frame).at = "allow", mouse_report(frame).pressed
  PROVE  frame[1].key = "allow"
<1>1. frame \in Seq(Byte) BY DEF Frames
<1>2. Len(frame) = 5 BY <1>1, PlainByte DEF IsReport
<1>3. frame[4].b = "allow" /\ frame[5].b = "M" BY DEF mouse_report
<1>4. PICK p : \A i \in 1 .. 5 : <<p[i], frame[i], p[i + 1]>> \in Typed
  BY <1>2 DEF Path
<1>5. /\ <<p[1], frame[1], p[2]>> \in Typed /\ <<p[2], frame[2], p[3]>> \in Typed
      /\ <<p[3], frame[3], p[4]>> \in Typed /\ <<p[4], frame[4], p[5]>> \in Typed
      /\ <<p[5], frame[5], p[6]>> \in Typed
  <2>1. 1 \in 1 .. 5 /\ 2 \in 1 .. 5 /\ 3 \in 1 .. 5 /\ 4 \in 1 .. 5 /\ 5 \in 1 .. 5
        /\ 1 + 1 = 2 /\ 2 + 1 = 3 /\ 3 + 1 = 4 /\ 4 + 1 = 5 /\ 5 + 1 = 6
    OBVIOUS
  <2> QED BY <1>4, <2>1
<1> DEFINE After(c1, x, d1) ==
             /\ c1 \in Place /\ d1 \in Place /\ x.key = d1.key
             /\ x.b = Keystroke[d1.key][d1.at]
             /\ (d1.key = c1.key /\ d1.at = c1.at + 1) \/ (Between(c1) /\ d1.at = 1)
<1>6. /\ After(p[1], frame[1], p[2]) /\ After(p[2], frame[2], p[3])
      /\ After(p[3], frame[3], p[4]) /\ After(p[4], frame[4], p[5])
      /\ After(p[5], frame[5], p[6])
  BY <1>5, TypedSteps
<1>7. \A i \in {1, 2, 3, 4, 5, 6} :
        p[i].at \in Nat /\ p[i].key \in DOMAIN Keystroke /\ p[i].at \in 1 .. Len(Keystroke[p[i].key])
  BY <1>6 DEF Place
<1>8. p[5].key \in {"allow", "release"} /\ p[5].at = 4
  <2>1. /\ p[5].key \in DOMAIN Keystroke /\ p[5].at \in 1 .. Len(Keystroke[p[5].key])
        /\ p[5].at \in Nat
    BY <1>7
  <2>2. Keystroke[p[5].key][p[5].at] = "allow" BY <1>3, <1>6
  <2> QED BY <2>1, <2>2, Answers
<1>9. p[6].key = p[5].key /\ p[6].at = 5
  <2>1. ~Between(p[5]) BY <1>8, Answers DEF Between
  <2> QED BY <1>6, <1>8, <2>1
<1>10. p[5].key = "allow"
  <2>1. Keystroke[p[5].key][5] = "M" BY <1>3, <1>6, <1>9
  <2> QED BY <1>8, <2>1, Answers
<1>11. p[4].key = "allow" /\ p[4].at = 3 BY <1>6, <1>7, <1>8, <1>10
<1>12. p[3].key = "allow" /\ p[3].at = 2 BY <1>6, <1>7, <1>11
<1>13. p[2].key = "allow" BY <1>6, <1>7, <1>12
<1> QED BY <1>6, <1>13
=============================================================================
