---------------------------- MODULE ScreenProofs ----------------------------
(***************************************************************************)
(* Proofs about the window of the client (Screen), for every set of sizes, *)
(* of options and of shortcuts and every number of frames and inputs.      *)
(***************************************************************************)
EXTENDS Screen, FiniteSetTheorems, TLAPS

PosSize == (Nat \ {0}) \X (Nat \ {0})

Rects == [x : Int, y : Int, w : Nat \ {0}, h : Nat \ {0}, unit : Nat \ {0}]

Windows ==
    [flex : BOOLEAN, fit : Fits, shown : BOOLEAN, orientation : 0 .. 7,
     mode : {"windowed", "fullscreen"}, window : PosSize, saved : PosSize,
     frame : Nat, frameSize : Nat \X Nat, content : PosSize,
     resume : Nat, resumeSize : Nat \X Nat, paused : BOOLEAN,
     pending : BOOLEAN, windowed : Nat \X Nat, tex : {"none", "frame", "icon"},
     rect : Rects, disconnected : BOOLEAN, started : BOOLEAN]

\* The sizes that count are not empty.
WindowOK(w) ==
    /\ w \in Windows
    /\ w.pending => w.windowed \in PosSize
    /\ w.shown => w.frameSize \in PosSize
    /\ w.resume # 0 => w.resumeSize \in PosSize

\* A frame is kept aside only during a pause, and follows what is shown.
PauseOK(w) ==
    /\ ~w.paused => w.resume = 0
    /\ w.resume # 0 => w.frame < w.resume

\* The content has the size of the frame, turned.
ContentOK(w) == w.content = get_oriented_size(w.frameSize, w.orientation)

\* The rectangle is the one of the window and of the content.
RectOK(w) == w.rect = compute_content_rect(w.window, w.content, w.disconnected, w.fit)

Has(s, type) == \E i \in DOMAIN s : s[i].type = type

Once(s, type) == \A i, j \in DOMAIN s : s[i].type = type /\ s[j].type = type => i = j

OpensOK(s) == \A i \in DOMAIN s : s[i].type = "open" => s[i].size \in PosSize

PictureInv ==
    /\ picture = Drawn(win.orientation)
    /\ mpc = "loop" /\ win.shown => ContentOK(win) /\ (RectOK(win) \/ Has(events, "resized"))

\* The frames that are shown, kept aside and pending.
FrameInv ==
    /\ PauseOK(win)
    /\ win.frame <= pushed /\ win.resume <= pushed /\ fb.id <= pushed
    /\ fb.id # 0 => win.frame < fb.id /\ win.resume < fb.id /\ fb.size \in PosSize
    /\ dpc = "new" => fb.id = 0

\* The events that open the window and bring the icon.
QueueInv ==
    /\ OpensOK(events) /\ Once(events, "open") /\ Once(events, "icon")
    /\ dpc = "new" => ~Has(events, "open") /\ ~Has(events, "frame")
    /\ tpc \in {"none", "icon"} => ~Has(events, "icon")

\* The event of a frame, as long as the events are handled.
AnnouncedInv ==
    mpc = "loop" =>
        /\ Once(events, "frame")
        /\ Has(events, "frame") => fb.id # 0
        /\ dpc = "open" /\ fb.id # 0 => Has(events, "frame")
        /\ dpc = "post" => fb.id # 0 /\ ~Has(events, "frame")
        /\ dpc = "new" => ~win.shown /\ \A i \in DOMAIN events : events[i].type = "quit"
        /\ ~win.shown /\ (dpc \in {"open", "post"} \/ Has(events, "frame"))
              => events # <<>> /\ Head(events).type \in {"open", "quit"}

EndInv ==
    /\ win.started <=> tpc # "none"
    /\ mpc = "loop" => ~win.disconnected /\ ~win.started
    /\ mpc \in {"joinScreen", "destroy", "ended"} => dpc = "closed"
    /\ dpc = "closed" => ~open
    /\ mpc \in {"destroy", "ended"} => tpc \in {"none", "ended"}
    /\ mpc = "ended" => ~Has(events, "open") /\ ~Has(events, "icon")

\* No assertion fails, unless the counter is started after its interruption.
AssertInv ==
    ~LateFps =>
        /\ ~failed
        /\ mpc \in {"wait", "hide", "join"} /\ fps.thread => fps.interrupted

FpsTypes == [started : BOOLEAN, interrupted : BOOLEAN, thread : BOOLEAN]

\* The variables other than the window.
VarsOK ==
    /\ mpc \in {"loop", "interrupt", "wait", "hide", "join", "joinScreen", "destroy", "ended"}
    /\ events \in Seq(Events)
    /\ fb \in [id : Nat, size : Nat \X Nat] /\ auto \in BOOLEAN
    /\ dpc \in {"new", "open", "post", "failed", "closed"}
    /\ open \in BOOLEAN
    /\ fps \in FpsTypes
    /\ fpc \in {"none", "check", "locked", "sleep", "ended"}
    /\ tpc \in {"none", "icon", "timer", "ended"} /\ timer \in BOOLEAN
    /\ pushed \in 0 .. MaxFrames
    /\ inputs \in 0 .. MaxInputs /\ failed \in BOOLEAN

IInv ==
    /\ VarsOK /\ WindowOK(win) /\ PictureInv /\ FrameInv /\ QueueInv /\ AnnouncedInv
    /\ EndInv /\ AssertInv

-----------------------------------------------------------------------------
(* Numbers.                                                                 *)

\* The product of positive numbers is positive.
LEMMA ProductIsPositive ==
    ASSUME NEW a \in Nat \ {0}, NEW b \in Nat \ {0}
    PROVE  a * b \in Nat \ {0}
  BY SMT

\* The quotient of natural numbers is natural.
LEMMA QuotientIsNat ==
    ASSUME NEW a \in Nat, NEW b \in Nat \ {0}
    PROVE  a \div b \in Nat
  BY SMT

\* A product divided by one of its factors.
LEMMA ExactQuotient ==
    ASSUME NEW a \in Int, NEW b \in Nat \ {0}
    PROVE  (b * a) \div b = a
  BY SMT

\* Half of an integer is an integer.
LEMMA HalfIsInt ==
    ASSUME NEW a \in Int
    PROVE  a \div 2 \in Int
  BY SMT

-----------------------------------------------------------------------------
(* The picture.                                                             *)

Turns == {"right", "left", "fliph", "flipv"}

\* What a shortcut applies to the orientation.
TransformOf(key) ==
    CASE key = "right" -> 1 [] key = "left" -> 3 [] key = "fliph" -> 4 [] key = "flipv" -> 6

\* The eight orientations are closed under the transforms of the shortcuts.
LEMMA OrientationsAreClosed ==
    ASSUME NEW o \in 0 .. 7, NEW t \in {1, 3, 4, 6}
    PROVE  sc_orientation_apply(o, t) \in 0 .. 7
  <1> USE DEF sc_orientation_apply, IsMirror, IsSwap, Rotation
  <1>1. CASE t = 1
    BY <1>1
  <1>2. CASE t = 3
    BY <1>2
  <1>3. CASE t = 4
    BY <1>3
  <1>4. CASE t = 6
    BY <1>4
  <1> QED
    BY <1>1, <1>2, <1>3, <1>4

\* Where each corner of the frame is drawn.
LEMMA DrawnAt ==
    ASSUME NEW x \in 0 .. 1, NEW y \in 0 .. 1
    PROVE  /\ Drawn(0)[<<x, y>>] = <<x, y>> /\ Drawn(1)[<<x, y>>] = <<1 - y, x>>
           /\ Drawn(2)[<<x, y>>] = <<1 - x, 1 - y>> /\ Drawn(3)[<<x, y>>] = <<y, 1 - x>>
           /\ Drawn(4)[<<x, y>>] = <<1 - x, y>> /\ Drawn(5)[<<x, y>>] = <<1 - y, 1 - x>>
           /\ Drawn(6)[<<x, y>>] = <<x, 1 - y>> /\ Drawn(7)[<<x, y>>] = <<y, x>>
  <1>1. \A o \in 0 .. 7 :
            Drawn(o)[<<x, y>>] = Turned(IF o >= 4 THEN <<1 - x, y>> ELSE <<x, y>>, o % 4)
    BY DEF Drawn, Corners, IsMirror, Rotation, Moved
  <1>2. /\ 0 % 4 = 0 /\ 1 % 4 = 1 /\ 2 % 4 = 2 /\ 3 % 4 = 3
        /\ 4 % 4 = 0 /\ 5 % 4 = 1 /\ 6 % 4 = 2 /\ 7 % 4 = 3
    BY SMT
  <1> QED
    BY <1>1, <1>2 DEF Turned

\* What each shortcut makes of each orientation.
LEMMA AppliedTo ==
    /\ sc_orientation_apply(0, 1) = 1 /\ sc_orientation_apply(0, 3) = 3
    /\ sc_orientation_apply(0, 4) = 4 /\ sc_orientation_apply(0, 6) = 6
    /\ sc_orientation_apply(1, 1) = 2 /\ sc_orientation_apply(1, 3) = 0
    /\ sc_orientation_apply(1, 4) = 7 /\ sc_orientation_apply(1, 6) = 5
    /\ sc_orientation_apply(2, 1) = 3 /\ sc_orientation_apply(2, 3) = 1
    /\ sc_orientation_apply(2, 4) = 6 /\ sc_orientation_apply(2, 6) = 4
    /\ sc_orientation_apply(3, 1) = 0 /\ sc_orientation_apply(3, 3) = 2
    /\ sc_orientation_apply(3, 4) = 5 /\ sc_orientation_apply(3, 6) = 7
    /\ sc_orientation_apply(4, 1) = 5 /\ sc_orientation_apply(4, 3) = 7
    /\ sc_orientation_apply(4, 4) = 0 /\ sc_orientation_apply(4, 6) = 2
    /\ sc_orientation_apply(5, 1) = 6 /\ sc_orientation_apply(5, 3) = 4
    /\ sc_orientation_apply(5, 4) = 3 /\ sc_orientation_apply(5, 6) = 1
    /\ sc_orientation_apply(6, 1) = 7 /\ sc_orientation_apply(6, 3) = 5
    /\ sc_orientation_apply(6, 4) = 2 /\ sc_orientation_apply(6, 6) = 0
    /\ sc_orientation_apply(7, 1) = 4 /\ sc_orientation_apply(7, 3) = 6
    /\ sc_orientation_apply(7, 4) = 1 /\ sc_orientation_apply(7, 6) = 3
  <1> USE DEF sc_orientation_apply, IsMirror, IsSwap, Rotation
  <1>0. /\ sc_orientation_apply(0, 1) = 1 /\ sc_orientation_apply(0, 3) = 3
       /\ sc_orientation_apply(0, 4) = 4 /\ sc_orientation_apply(0, 6) = 6
    OBVIOUS
  <1>1. /\ sc_orientation_apply(1, 1) = 2 /\ sc_orientation_apply(1, 3) = 0
       /\ sc_orientation_apply(1, 4) = 7 /\ sc_orientation_apply(1, 6) = 5
    OBVIOUS
  <1>2. /\ sc_orientation_apply(2, 1) = 3 /\ sc_orientation_apply(2, 3) = 1
       /\ sc_orientation_apply(2, 4) = 6 /\ sc_orientation_apply(2, 6) = 4
    OBVIOUS
  <1>3. /\ sc_orientation_apply(3, 1) = 0 /\ sc_orientation_apply(3, 3) = 2
       /\ sc_orientation_apply(3, 4) = 5 /\ sc_orientation_apply(3, 6) = 7
    OBVIOUS
  <1>4. /\ sc_orientation_apply(4, 1) = 5 /\ sc_orientation_apply(4, 3) = 7
       /\ sc_orientation_apply(4, 4) = 0 /\ sc_orientation_apply(4, 6) = 2
    OBVIOUS
  <1>5. /\ sc_orientation_apply(5, 1) = 6 /\ sc_orientation_apply(5, 3) = 4
       /\ sc_orientation_apply(5, 4) = 3 /\ sc_orientation_apply(5, 6) = 1
    OBVIOUS
  <1>6. /\ sc_orientation_apply(6, 1) = 7 /\ sc_orientation_apply(6, 3) = 5
       /\ sc_orientation_apply(6, 4) = 2 /\ sc_orientation_apply(6, 6) = 0
    OBVIOUS
  <1>7. /\ sc_orientation_apply(7, 1) = 4 /\ sc_orientation_apply(7, 3) = 6
       /\ sc_orientation_apply(7, 4) = 1 /\ sc_orientation_apply(7, 6) = 3
    OBVIOUS
  <1> QED
    BY <1>0, <1>1, <1>2, <1>3, <1>4, <1>5, <1>6, <1>7

\* Applying a transform to the orientation turns what is drawn: the flip that
\* comes first in an orientation is commuted with the turns before it.
LEMMA DrawnFollows ==
    ASSUME NEW o \in 0 .. 7, NEW key \in Turns
    PROVE  Drawn(sc_orientation_apply(o, TransformOf(key)))
              = [c \in Corners |-> Moved(key, Drawn(o)[c])]
  <1> SUFFICES ASSUME NEW x \in 0 .. 1, NEW y \in 0 .. 1
               PROVE  Drawn(sc_orientation_apply(o, TransformOf(key)))[<<x, y>>]
                         = Moved(key, Drawn(o)[<<x, y>>])
    BY DEF Drawn, Corners
  <1> DEFINE at(p) == Drawn(p)[<<x, y>>]
             turned(t) == sc_orientation_apply(o, t)
  <1>1. /\ at(0) = <<x, y>> /\ at(1) = <<1 - y, x>> /\ at(2) = <<1 - x, 1 - y>>
        /\ at(3) = <<y, 1 - x>> /\ at(4) = <<1 - x, y>> /\ at(5) = <<1 - y, 1 - x>>
        /\ at(6) = <<x, 1 - y>> /\ at(7) = <<y, x>>
    BY DrawnAt
  <1>2. /\ at(turned(1)) = <<1 - at(o)[2], at(o)[1]>>
        /\ at(turned(3)) = <<at(o)[2], 1 - at(o)[1]>>
        /\ at(turned(4)) = <<1 - at(o)[1], at(o)[2]>>
        /\ at(turned(6)) = <<at(o)[1], 1 - at(o)[2]>>
    <2> HIDE DEF at
    <2>0. CASE o = 0
      <3>1. turned(1) = 1 /\ turned(3) = 3 /\ turned(4) = 4 /\ turned(6) = 6
        BY <2>0, AppliedTo
      <3> QED
        BY <1>1, <2>0, <3>1
    <2>1. CASE o = 1
      <3>1. turned(1) = 2 /\ turned(3) = 0 /\ turned(4) = 7 /\ turned(6) = 5
        BY <2>1, AppliedTo
      <3> QED
        BY <1>1, <2>1, <3>1
    <2>2. CASE o = 2
      <3>1. turned(1) = 3 /\ turned(3) = 1 /\ turned(4) = 6 /\ turned(6) = 4
        BY <2>2, AppliedTo
      <3> QED
        BY <1>1, <2>2, <3>1
    <2>3. CASE o = 3
      <3>1. turned(1) = 0 /\ turned(3) = 2 /\ turned(4) = 5 /\ turned(6) = 7
        BY <2>3, AppliedTo
      <3> QED
        BY <1>1, <2>3, <3>1
    <2>4. CASE o = 4
      <3>1. turned(1) = 5 /\ turned(3) = 7 /\ turned(4) = 0 /\ turned(6) = 2
        BY <2>4, AppliedTo
      <3> QED
        BY <1>1, <2>4, <3>1
    <2>5. CASE o = 5
      <3>1. turned(1) = 6 /\ turned(3) = 4 /\ turned(4) = 3 /\ turned(6) = 1
        BY <2>5, AppliedTo
      <3> QED
        BY <1>1, <2>5, <3>1
    <2>6. CASE o = 6
      <3>1. turned(1) = 7 /\ turned(3) = 5 /\ turned(4) = 2 /\ turned(6) = 0
        BY <2>6, AppliedTo
      <3> QED
        BY <1>1, <2>6, <3>1
    <2>7. CASE o = 7
      <3>1. turned(1) = 4 /\ turned(3) = 6 /\ turned(4) = 1 /\ turned(6) = 3
        BY <2>7, AppliedTo
      <3> QED
        BY <1>1, <2>7, <3>1
    <2> QED
      BY <2>0, <2>1, <2>2, <2>3, <2>4, <2>5, <2>6, <2>7
  <1> QED
    BY <1>2 DEF Turns, TransformOf, Moved

\* A click on a corner of the rectangle is divided exactly.
LEMMA CornerOfRect ==
    ASSUME NEW x \in Int, NEW w \in Nat \ {0}, NEW a \in 0 .. 1, NEW n \in Nat
    PROVE  (((x + a * w) - x) * n) \div w = a * n
  <1>1. a * n \in Int
    OBVIOUS
  <1>2. ((x + a * w) - x) * n = w * (a * n)
    <2>1. CASE a = 0
      BY <2>1
    <2>2. CASE a = 1
      BY <2>2
    <2> QED
      BY <2>1, <2>2
  <1> QED
    BY <1>1, <1>2, ExactQuotient

\* The products of a coordinate of a corner.
LEMMA CornerProducts ==
    ASSUME NEW a \in 0 .. 1, NEW n \in Nat
    PROVE  a * n \in Nat /\ n - (1 - a) * n = a * n
  <1>1. CASE a = 0
    BY <1>1
  <1>2. CASE a = 1
    BY <1>2
  <1> QED
    BY <1>1, <1>2

\* A click on the corner to which a corner of the frame was turned is sent to
\* that corner of the frame.
LEMMA ClickLands ==
    ASSUME WindowOK(win), win.frameSize \in PosSize, ContentOK(win), picture = Drawn(win.orientation),
           NEW c \in Corners
    PROVE  Convert(win.rect.x + picture[c][1] * win.rect.w, win.rect.y + picture[c][2] * win.rect.h)
              = <<c[1] * win.frameSize[1], c[2] * win.frameSize[2]>>
  <1> DEFINE w == win.content[1]
             h == win.content[2]
             a == picture[c][1]
             b == picture[c][2]
  <1>1. /\ win.rect.x \in Int /\ win.rect.y \in Int
        /\ win.rect.w \in Nat \ {0} /\ win.rect.h \in Nat \ {0}
        /\ w \in Nat /\ h \in Nat /\ win.orientation \in 0 .. 7
    BY DEF WindowOK, Windows, Rects, PosSize
  <1>2. PICK x \in 0 .. 1, y \in 0 .. 1 : c = <<x, y>>
    BY DEF Corners
  <1>3. /\ picture[c] = Drawn(win.orientation)[<<x, y>>]
        /\ Drawn(0)[<<x, y>>] = <<x, y>> /\ Drawn(1)[<<x, y>>] = <<1 - y, x>>
        /\ Drawn(2)[<<x, y>>] = <<1 - x, 1 - y>> /\ Drawn(3)[<<x, y>>] = <<y, 1 - x>>
        /\ Drawn(4)[<<x, y>>] = <<1 - x, y>> /\ Drawn(5)[<<x, y>>] = <<1 - y, 1 - x>>
        /\ Drawn(6)[<<x, y>>] = <<x, 1 - y>> /\ Drawn(7)[<<x, y>>] = <<y, x>>
    BY <1>2, DrawnAt
  <1>4. a \in 0 .. 1 /\ b \in 0 .. 1
    BY <1>1, <1>3
  <1>5. PICK fw \in Nat, fh \in Nat : win.frameSize = <<fw, fh>>
    BY DEF PosSize
  <1>6. win.content = IF win.orientation % 2 = 1 THEN <<fh, fw>> ELSE <<fw, fh>>
    BY <1>5 DEF ContentOK, get_oriented_size, IsSwap
  <1>7. /\ x * fw \in Nat /\ fw - (1 - x) * fw = x * fw
        /\ y * fh \in Nat /\ fh - (1 - y) * fh = y * fh
    BY CornerProducts
  <1> DEFINE px == win.rect.x + a * win.rect.w
             py == win.rect.y + b * win.rect.h
             dx == ((px - win.rect.x) * w) \div win.rect.w
             dy == ((py - win.rect.y) * h) \div win.rect.h
  <1> HIDE DEF a, b, w, h
  <1>8. dx = a * w
    <2>1. win.rect.x \in Int /\ win.rect.w \in Nat \ {0} /\ a \in 0 .. 1 /\ w \in Nat
      BY <1>1, <1>4
    <2> QED
      BY <2>1, CornerOfRect
  <1>9. dy = b * h
    <2>1. win.rect.y \in Int /\ win.rect.h \in Nat \ {0} /\ b \in 0 .. 1 /\ h \in Nat
      BY <1>1, <1>4
    <2> QED
      BY <2>1, CornerOfRect
  <1>10. Convert(px, py) =
          CASE win.orientation = 0 -> <<dx, dy>>
            [] win.orientation = 1 -> <<dy, w - dx>>
            [] win.orientation = 2 -> <<w - dx, h - dy>>
            [] win.orientation = 3 -> <<h - dy, dx>>
            [] win.orientation = 4 -> <<w - dx, dy>>
            [] win.orientation = 5 -> <<h - dy, w - dx>>
            [] win.orientation = 6 -> <<dx, h - dy>>
            [] win.orientation = 7 -> <<dy, dx>>
    BY DEF Convert, w, h
  <1>11. SUFFICES Convert(px, py) = <<x * fw, y * fh>>
    BY <1>2, <1>5 DEF a, b
  <1> HIDE DEF px, py, dx, dy
  <1>12. CASE win.orientation = 0
    <2>1. a = x /\ b = y /\ w = fw /\ h = fh
      BY <1>3, <1>6, <1>12 DEF a, b, w, h
    <2>2. Convert(px, py) = <<a * w, b * h>>
      BY <1>8, <1>9, <1>10, <1>12
    <2> QED
      BY <1>7, <2>1, <2>2
  <1>13. CASE win.orientation = 1
    <2>1. a = 1 - y /\ b = x /\ w = fh /\ h = fw
      BY <1>3, <1>6, <1>13 DEF a, b, w, h
    <2>2. Convert(px, py) = <<b * h, w - a * w>>
      BY <1>8, <1>9, <1>10, <1>13
    <2> QED
      BY <1>7, <2>1, <2>2
  <1>14. CASE win.orientation = 2
    <2>1. a = 1 - x /\ b = 1 - y /\ w = fw /\ h = fh
      BY <1>3, <1>6, <1>14 DEF a, b, w, h
    <2>2. Convert(px, py) = <<w - a * w, h - b * h>>
      BY <1>8, <1>9, <1>10, <1>14
    <2> QED
      BY <1>7, <2>1, <2>2
  <1>15. CASE win.orientation = 3
    <2>1. a = y /\ b = 1 - x /\ w = fh /\ h = fw
      BY <1>3, <1>6, <1>15 DEF a, b, w, h
    <2>2. Convert(px, py) = <<h - b * h, a * w>>
      BY <1>8, <1>9, <1>10, <1>15
    <2> QED
      BY <1>7, <2>1, <2>2
  <1>16. CASE win.orientation = 4
    <2>1. a = 1 - x /\ b = y /\ w = fw /\ h = fh
      BY <1>3, <1>6, <1>16 DEF a, b, w, h
    <2>2. Convert(px, py) = <<w - a * w, b * h>>
      BY <1>8, <1>9, <1>10, <1>16
    <2> QED
      BY <1>7, <2>1, <2>2
  <1>17. CASE win.orientation = 5
    <2>1. a = 1 - y /\ b = 1 - x /\ w = fh /\ h = fw
      BY <1>3, <1>6, <1>17 DEF a, b, w, h
    <2>2. Convert(px, py) = <<h - b * h, w - a * w>>
      BY <1>8, <1>9, <1>10, <1>17
    <2> QED
      BY <1>7, <2>1, <2>2
  <1>18. CASE win.orientation = 6
    <2>1. a = x /\ b = 1 - y /\ w = fw /\ h = fh
      BY <1>3, <1>6, <1>18 DEF a, b, w, h
    <2>2. Convert(px, py) = <<a * w, h - b * h>>
      BY <1>8, <1>9, <1>10, <1>18
    <2> QED
      BY <1>7, <2>1, <2>2
  <1>19. CASE win.orientation = 7
    <2>1. a = y /\ b = x /\ w = fh /\ h = fw
      BY <1>3, <1>6, <1>19 DEF a, b, w, h
    <2>2. Convert(px, py) = <<b * h, a * w>>
      BY <1>8, <1>9, <1>10, <1>19
    <2> QED
      BY <1>7, <2>1, <2>2
  <1> QED
    BY <1>1, <1>12, <1>13, <1>14, <1>15, <1>16, <1>17, <1>18, <1>19

-----------------------------------------------------------------------------
(* Sizes and rectangles.                                                    *)

\* compute_content_rect() returns a rectangle that is not empty, so that
\* sc_screen_convert_window_to_frame_coords() never divides by 0.
LEMMA RectIsNotEmpty ==
    ASSUME NEW w \in PosSize, NEW c \in PosSize, NEW icon \in BOOLEAN, NEW fit
    PROVE  compute_content_rect(w, c, icon, fit) \in Rects
  <1> DEFINE unit == 2 * c[1] * c[2]
             high == w[1] * 2 * c[2] * c[2]
             wide == w[2] * 2 * c[1] * c[1]
             margin(i) == ((w[i] - c[i]) * unit) \div 2
             positive == Nat \ {0}
  <1>1. /\ w[1] \in positive /\ w[2] \in positive /\ c[1] \in positive /\ c[2] \in positive
        /\ 2 \in positive
    BY DEF PosSize
  <1>2. unit \in positive
    <2>1. 2 * c[1] \in positive
      BY <1>1, ProductIsPositive
    <2> QED
      BY <1>1, <2>1, ProductIsPositive
  <1>3. high \in positive
    <2>1. w[1] * 2 \in positive
      BY <1>1, ProductIsPositive
    <2>2. w[1] * 2 * c[2] \in positive
      BY <1>1, <2>1, ProductIsPositive
    <2> QED
      BY <1>1, <2>2, ProductIsPositive
  <1>4. wide \in positive
    <2>1. w[2] * 2 \in positive
      BY <1>1, ProductIsPositive
    <2>2. w[2] * 2 * c[1] \in positive
      BY <1>1, <2>1, ProductIsPositive
    <2> QED
      BY <1>1, <2>2, ProductIsPositive
  <1>5. /\ w[1] * unit \in positive /\ w[2] * unit \in positive
        /\ c[1] * unit \in positive /\ c[2] * unit \in positive
    BY <1>1, <1>2, ProductIsPositive
  <1>6. ASSUME NEW a \in Int, NEW b \in Int PROVE (a - b) * unit \in Int /\ a - b \in Int
    BY <1>2, <1>6
  <1>7. margin(1) \in Int /\ margin(2) \in Int
    <2>1. (w[1] - c[1]) * unit \in Int /\ (w[2] - c[2]) * unit \in Int
      BY <1>1, <1>6
    <2> QED
      BY <2>1, HalfIsInt
  <1>8. (w[2] * unit - high) \div 2 \in Int /\ (w[1] * unit - wide) \div 2 \in Int
    <2>1. w[2] * unit - high \in Int /\ w[1] * unit - wide \in Int
      BY <1>3, <1>4, <1>5
    <2> QED
      BY <2>1, HalfIsInt
  <1> DEFINE Rect(x, y, width, height) ==
                 [x |-> x, y |-> y, w |-> width, h |-> height, unit |-> unit]
             AtLeast0(n) == IF n > 0 THEN n ELSE 0
  <1>9. compute_content_rect(w, c, icon, fit) \in
            {Rect(margin(1), margin(2), c[1] * unit, c[2] * unit),
             Rect(AtLeast0(margin(1)), AtLeast0(margin(2)), c[1] * unit, c[2] * unit),
             Rect(0, 0, w[1] * unit, w[2] * unit),
             Rect(0, (w[2] * unit - high) \div 2, w[1] * unit, high),
             Rect((w[1] * unit - wide) \div 2, 0, wide, w[2] * unit)}
    BY Zenon DEF compute_content_rect
  <1>10. ASSUME NEW x \in Int, NEW y \in Int, NEW width \in positive, NEW height \in positive
         PROVE  Rect(x, y, width, height) \in Rects
    BY <1>2 DEF Rects
  <1>11. AtLeast0(margin(1)) \in Int /\ AtLeast0(margin(2)) \in Int /\ 0 \in Int
    BY <1>7
  <1> HIDE DEF unit, high, wide, margin, Rect, positive, AtLeast0
  <1> QED
    BY <1>3, <1>4, <1>5, <1>7, <1>8, <1>9, <1>10, <1>11

\* get_optimal_size() of a size is a size; it may be empty.
LEMMA OptimalSizeIsSize ==
    ASSUME NEW cur \in Nat \X Nat, NEW c \in PosSize, NEW within \in BOOLEAN
    PROVE  get_optimal_size(cur, c, within) \in Nat \X Nat
  <1> DEFINE w == IF within THEN <<Least(cur[1], Display[1]), Least(cur[2], Display[2])>> ELSE cur
  <1>1. Display \in PosSize
    BY SizesAssumption DEF PosSize
  <1>2. w \in Nat \X Nat
    BY <1>1 DEF Least, PosSize
  <1>3. /\ c[1] \in Nat \ {0} /\ c[2] \in Nat \ {0} /\ w[1] \in Nat /\ w[2] \in Nat
    BY <1>2 DEF PosSize
  <1>4. c[2] * w[1] \in Nat /\ c[1] * w[2] \in Nat
    BY <1>3
  <1>5. (c[2] * w[1]) \div c[1] \in Nat /\ (c[1] * w[2]) \div c[2] \in Nat
    BY <1>3, <1>4, QuotientIsNat
  <1>6. get_optimal_size(cur, c, within) \in
            {w, <<w[1], (c[2] * w[1]) \div c[1]>>, <<(c[1] * w[2]) \div c[2], w[2]>>}
    BY Zenon DEF get_optimal_size
  <1> HIDE DEF w
  <1> QED
    BY <1>2, <1>3, <1>5, <1>6

-----------------------------------------------------------------------------
(* The operations on the window.                                            *)

\* What no operation on the window changes.
SameWindow(w, v) ==
    /\ v.flex = w.flex /\ v.fit = w.fit /\ v.shown = w.shown
    /\ v.disconnected = w.disconnected /\ v.started = w.started

\* What no change of sizes changes.
SameFrame(w, v) ==
    /\ v.orientation = w.orientation /\ v.paused = w.paused
    /\ v.frame = w.frame /\ v.frameSize = w.frameSize
    /\ v.resume = w.resume /\ v.resumeSize = w.resumeSize

\* What the rectangle depends on.
SameRect(w, v) ==
    v.rect = w.rect /\ v.window = w.window /\ v.content = w.content

\* sc_screen_update_content_rect() changes the rectangle only.
LEMMA RectUpdated ==
    ASSUME NEW w, WindowOK(w)
    PROVE  LET v == sc_screen_update_content_rect(w)
           IN  /\ WindowOK(v) /\ SameWindow(w, v) /\ SameFrame(w, v) /\ RectOK(v)
               /\ v.content = w.content /\ v.window = w.window /\ v.mode = w.mode
  <1> DEFINE v == sc_screen_update_content_rect(w)
  <1>1. /\ w \in Windows /\ w.window \in PosSize /\ w.content \in PosSize
        /\ w.disconnected \in BOOLEAN
    BY DEF WindowOK, Windows
  <1>2. compute_content_rect(w.window, w.content, w.disconnected, w.fit) \in Rects
    BY <1>1, RectIsNotEmpty
  <1>3. v = [w EXCEPT !.rect = compute_content_rect(w.window, w.content, w.disconnected, w.fit)]
    BY DEF sc_screen_update_content_rect
  <1>4. v \in Windows
    BY <1>1, <1>2, <1>3 DEF Windows
  <1>5. /\ SameWindow(w, v) /\ SameFrame(w, v) /\ v.content = w.content /\ v.window = w.window
        /\ v.pending = w.pending /\ v.windowed = w.windowed /\ v.mode = w.mode
        /\ v.rect = compute_content_rect(w.window, w.content, w.disconnected, w.fit)
    BY <1>1, <1>3 DEF Windows, SameWindow, SameFrame
  <1> HIDE DEF v
  <1>6. WindowOK(v)
    BY <1>4, <1>5 DEF WindowOK, SameWindow, SameFrame
  <1>7. RectOK(v)
    BY <1>5 DEF RectOK, SameWindow
  <1> QED
    BY <1>5, <1>6, <1>7 DEF v

\* sc_sdl_set_window_size() changes the size of the window only.
LEMMA WindowSized ==
    ASSUME NEW w, WindowOK(w), NEW size \in Nat \X Nat
    PROVE  LET v == sc_sdl_set_window_size(w, size)
           IN  /\ WindowOK(v) /\ SameWindow(w, v) /\ SameFrame(w, v)
               /\ v.content = w.content /\ v.rect = w.rect /\ v.mode = w.mode
               /\ v.pending = w.pending /\ v.windowed = w.windowed
  <1> DEFINE v == sc_sdl_set_window_size(w, size)
  <1>1. CASE v = w
    BY <1>1 DEF SameWindow, SameFrame
  <1>2. CASE size[1] > 0 /\ size[2] > 0 /\ v = [w EXCEPT !.window = size]
    <2>1. size \in PosSize
      BY <1>2 DEF PosSize
    <2>2. v \in Windows
      BY <1>2, <2>1 DEF WindowOK, Windows
    <2>3. /\ SameWindow(w, v) /\ SameFrame(w, v)
          /\ v.content = w.content /\ v.rect = w.rect /\ v.mode = w.mode
          /\ v.pending = w.pending /\ v.windowed = w.windowed
      BY <1>2 DEF WindowOK, Windows, SameWindow, SameFrame
    <2> HIDE DEF v
    <2>4. WindowOK(v)
      BY <2>2, <2>3 DEF WindowOK, SameWindow, SameFrame
    <2> QED
      BY <2>3, <2>4 DEF v
  <1> QED
    BY <1>1, <1>2 DEF sc_sdl_set_window_size

\* resize_for_content() changes the size of the window only.
LEMMA ResizedForContent ==
    ASSUME NEW w, WindowOK(w), NEW old \in PosSize, NEW new \in PosSize
    PROVE  LET v == resize_for_content(w, old, new)
           IN  /\ WindowOK(v) /\ SameWindow(w, v) /\ SameFrame(w, v)
               /\ v.content = w.content /\ v.rect = w.rect /\ v.mode = w.mode
               /\ v.pending = w.pending /\ v.windowed = w.windowed
  <1> DEFINE scaled == IF w.flex THEN new
                       ELSE <<(w.window[1] * new[1]) \div old[1],
                              (w.window[2] * new[2]) \div old[2]>>
             size == get_optimal_size(scaled, new, TRUE)
  <1>1. /\ w.window[1] * new[1] \in Nat /\ w.window[2] * new[2] \in Nat
        /\ old[1] \in Nat \ {0} /\ old[2] \in Nat \ {0} /\ new \in Nat \X Nat
    BY DEF WindowOK, Windows, PosSize
  <1>2. scaled \in Nat \X Nat
    BY <1>1, QuotientIsNat
  <1>3. size \in Nat \X Nat
    BY <1>2, OptimalSizeIsSize
  <1>4. resize_for_content(w, old, new) = sc_sdl_set_window_size(w, size)
    BY DEF resize_for_content
  <1> HIDE DEF size
  <1> QED
    BY <1>3, <1>4, WindowSized

\* set_content_size() changes sizes only, now or later.
LEMMA ContentSet ==
    ASSUME NEW w, WindowOK(w), NEW new \in PosSize, NEW resize \in BOOLEAN
    PROVE  LET v == set_content_size(w, new, resize)
           IN  /\ WindowOK(v) /\ SameWindow(w, v) /\ SameFrame(w, v)
               /\ v.content = new /\ v.mode = w.mode
  <1> DEFINE later == [w EXCEPT !.windowed = w.content, !.pending = TRUE]
             resized ==
                 IF ~resize THEN w
                 ELSE IF is_windowed(w) THEN resize_for_content(w, w.content, new)
                 ELSE IF w.flex \/ w.pending THEN w
                 ELSE later
             v == [resized EXCEPT !.content = new]
  <1>1. w \in Windows /\ w.content \in PosSize /\ w.content \in Nat \X Nat
    BY DEF WindowOK, Windows, PosSize
  <1>2. WindowOK(later) /\ SameWindow(w, later) /\ SameFrame(w, later) /\ later.mode = w.mode
    <2>1. later \in Windows
      BY <1>1 DEF Windows
    <2>2. /\ SameWindow(w, later) /\ SameFrame(w, later) /\ later.mode = w.mode
          /\ later.windowed = w.content
      BY <1>1 DEF Windows, SameWindow, SameFrame
    <2> HIDE DEF later
    <2> QED
      BY <1>1, <2>1, <2>2 DEF WindowOK, SameWindow, SameFrame
  <1>3. WindowOK(w) /\ SameWindow(w, w) /\ SameFrame(w, w)
    BY DEF SameWindow, SameFrame
  <1>4. LET r == resize_for_content(w, w.content, new)
        IN  WindowOK(r) /\ SameWindow(w, r) /\ SameFrame(w, r) /\ r.mode = w.mode
    BY <1>1, ResizedForContent
  <1> HIDE DEF later
  <1>5. WindowOK(resized) /\ SameWindow(w, resized) /\ SameFrame(w, resized) /\ resized.mode = w.mode
    BY <1>2, <1>3, <1>4
  <1>6. set_content_size(w, new, resize) = v
    BY DEF set_content_size, later
  <1> HIDE DEF resized
  <1>7. v \in Windows
    BY <1>5 DEF WindowOK, Windows
  <1>8. /\ SameWindow(resized, v) /\ SameFrame(resized, v) /\ v.mode = resized.mode
        /\ v.content = new /\ v.pending = resized.pending /\ v.windowed = resized.windowed
    BY <1>5 DEF WindowOK, Windows, SameWindow, SameFrame
  <1> HIDE DEF v
  <1>9. WindowOK(v)
    BY <1>5, <1>7, <1>8 DEF WindowOK, SameWindow, SameFrame
  <1> QED
    BY <1>5, <1>6, <1>8, <1>9 DEF SameWindow, SameFrame

\* The rectangle is that of the window, or as good as before, or an event is
\* due because the size of the window has changed.
RectFollows(w, v) == RectOK(v) \/ SameRect(w, v) \/ v.window # w.window

\* apply_pending_resize() changes sizes only.
LEMMA PendingApplied ==
    ASSUME NEW w, WindowOK(w)
    PROVE  LET v == apply_pending_resize(w)
           IN  WindowOK(v) /\ SameWindow(w, v) /\ SameFrame(w, v) /\ v.content = w.content
  <1> DEFINE r == resize_for_content(w, w.windowed, w.content)
             v == [r EXCEPT !.pending = FALSE]
  <1>1. CASE ~w.pending
    BY <1>1 DEF apply_pending_resize, SameWindow, SameFrame
  <1>2. CASE w.pending
    <2>1. w.windowed \in PosSize /\ w.content \in PosSize
      BY <1>2 DEF WindowOK, Windows
    <2>2. WindowOK(r) /\ SameWindow(w, r) /\ SameFrame(w, r) /\ r.content = w.content
      BY <2>1, ResizedForContent
    <2>3. apply_pending_resize(w) = v
      BY <1>2 DEF apply_pending_resize
    <2> HIDE DEF r
    <2>4. v \in Windows
      BY <2>2, ZenonT(60) DEF WindowOK, Windows
    <2>5. SameWindow(r, v) /\ SameFrame(r, v) /\ v.content = r.content /\ ~v.pending
      BY <2>2 DEF WindowOK, Windows, SameWindow, SameFrame
    <2> HIDE DEF v
    <2>6. WindowOK(v)
      BY <2>2, <2>4, <2>5 DEF WindowOK, SameWindow, SameFrame
    <2> QED
      BY <2>2, <2>3, <2>5, <2>6 DEF SameWindow, SameFrame
  <1> QED
    BY <1>1, <1>2 DEF WindowOK, Windows

\* The size of a frame, turned, is not empty either.
LEMMA OrientedIsNotEmpty ==
    ASSUME NEW size \in PosSize, NEW o \in 0 .. 7
    PROVE  get_oriented_size(size, o) \in PosSize
  BY DEF get_oriented_size, PosSize

\* sc_screen_apply_frame() shows the frame, and the content has its size.
LEMMA FrameApplied ==
    ASSUME NEW w, WindowOK(w), NEW id \in Nat, NEW size \in PosSize, NEW resize \in BOOLEAN
    PROVE  LET v == sc_screen_apply_frame(w, id, size, resize)
           IN  /\ WindowOK(v) /\ SameWindow(w, v) /\ RectFollows(w, v)
               /\ v.frame = id /\ v.frameSize = size /\ v.orientation = w.orientation
               /\ v.paused = w.paused /\ v.resume = w.resume /\ v.resumeSize = w.resumeSize
               /\ v.mode = w.mode
               /\ ContentOK(w) => ContentOK(v)
  <1> DEFINE new == get_oriented_size(size, w.orientation)
             framed == [w EXCEPT !.frame = id, !.frameSize = size, !.tex = "frame"]
             set == set_content_size(framed, new, resize)
             v == sc_screen_apply_frame(w, id, size, resize)
  <1>1. w \in Windows /\ w.orientation \in 0 .. 7 /\ size \in Nat \X Nat
    BY DEF WindowOK, Windows, PosSize
  <1>2. new \in PosSize
    BY <1>1, OrientedIsNotEmpty
  <1>3. framed \in Windows
    BY <1>1 DEF Windows
  <1>4. /\ SameWindow(w, framed) /\ SameRect(w, framed)
        /\ framed.frame = id /\ framed.frameSize = size /\ framed.orientation = w.orientation
        /\ framed.paused = w.paused /\ framed.resume = w.resume
        /\ framed.resumeSize = w.resumeSize /\ framed.mode = w.mode
        /\ framed.pending = w.pending /\ framed.windowed = w.windowed
    BY <1>1 DEF Windows, SameWindow, SameRect
  <1> HIDE DEF framed
  <1>5. WindowOK(framed)
    BY <1>3, <1>4 DEF WindowOK, SameWindow
  <1>6. CASE w.frameSize = size
    <2>1. v = framed
      BY <1>6 DEF sc_screen_apply_frame, framed
    <2>2. ContentOK(w) => ContentOK(framed)
      BY <1>4, <1>6 DEF ContentOK, SameRect
    <2> QED
      BY <1>4, <1>5, <2>1, <2>2 DEF RectFollows
  <1>7. CASE w.frameSize # size
    <2>1. v = sc_screen_update_content_rect(set)
      BY <1>7 DEF sc_screen_apply_frame, framed
    <2>2. /\ WindowOK(set) /\ SameWindow(framed, set) /\ SameFrame(framed, set)
          /\ set.content = new /\ set.mode = framed.mode
      BY <1>2, <1>5, ContentSet
    <2> HIDE DEF set
    <2>3. /\ WindowOK(v) /\ SameWindow(set, v) /\ SameFrame(set, v) /\ RectOK(v)
          /\ v.content = set.content /\ v.mode = set.mode
      BY <2>1, <2>2, RectUpdated
    <2> HIDE DEF v
    <2>4. ContentOK(v)
      BY <1>4, <2>2, <2>3 DEF ContentOK, SameFrame
    <2>5. SameWindow(w, v)
      BY <1>4, <2>2, <2>3 DEF SameWindow
    <2> QED
      BY <1>4, <2>2, <2>3, <2>4, <2>5 DEF RectFollows, SameFrame, v
  <1> QED
    BY <1>6, <1>7

\* What a shortcut or an event of the window does to the frames: the one kept
\* aside may be shown.
FramesFollow(w, v) ==
    /\ v.frame \in {w.frame, w.resume} /\ v.resume \in {w.resume, 0}
    /\ PauseOK(w) => PauseOK(v)

\* What an operation keeps.
WindowStep(w, v) ==
    /\ WindowOK(v) /\ SameWindow(w, v) /\ FramesFollow(w, v)
    /\ RectFollows(w, v)
    /\ ContentOK(w) => ContentOK(v)

\* sc_screen_set_paused().
LEMMA PausedSet ==
    ASSUME NEW w, WindowOK(w), NEW paused \in BOOLEAN
    PROVE  LET v == sc_screen_set_paused(w, paused)
           IN  WindowStep(w, v) /\ v.orientation = w.orientation
  <1> DEFINE s == sc_screen_apply_frame(w, w.resume, w.resumeSize, TRUE)
             r == [s EXCEPT !.resume = 0, !.resumeSize = NoSize]
             shows == w.paused /\ w.resume # 0
             u == IF shows THEN r ELSE w
             v == [u EXCEPT !.paused = paused]
  <1>1. w \in Windows /\ w.resume \in Nat /\ NoSize \in Nat \X Nat
    BY DEF WindowOK, Windows, NoSize
  <1>2. sc_screen_set_paused(w, paused) = v
    BY DEF sc_screen_set_paused
  <1>3. CASE shows
    <2>1. w.resumeSize \in PosSize
      BY <1>3 DEF WindowOK
    <2>2. /\ WindowOK(s) /\ SameWindow(w, s) /\ RectFollows(w, s)
          /\ s.frame = w.resume /\ s.orientation = w.orientation
          /\ ContentOK(w) => ContentOK(s)
      BY <1>1, <2>1, FrameApplied, ZenonT(60)
    <2>3. v = [s EXCEPT !.resume = 0, !.resumeSize = NoSize, !.paused = paused]
      BY <1>3, <2>2 DEF WindowOK, Windows
    <2> HIDE DEF s, v
    <2>4. v \in Windows
      BY <1>1, <2>2, <2>3, ZenonT(60) DEF WindowOK, Windows
    <2>5. /\ SameWindow(s, v) /\ SameRect(s, v) /\ v.frame = s.frame
          /\ v.frameSize = s.frameSize /\ v.orientation = s.orientation
          /\ v.resume = 0 /\ v.pending = s.pending /\ v.windowed = s.windowed
      BY <2>2, <2>3 DEF WindowOK, Windows, SameWindow, SameRect
    <2>6. WindowOK(v)
      BY <2>2, <2>4, <2>5 DEF WindowOK, SameWindow
    <2>7. FramesFollow(w, v)
      BY <2>2, <2>5 DEF FramesFollow, PauseOK
    <2>8. RectFollows(w, v)
      BY <2>2, <2>5 DEF RectFollows, SameRect, SameWindow, RectOK
    <2>9. ContentOK(w) => ContentOK(v)
      BY <2>2, <2>5 DEF ContentOK, SameRect
    <2>10. SameWindow(w, v)
      BY <2>2, <2>5 DEF SameWindow
    <2> QED
      BY <1>2, <2>2, <2>5, <2>6, <2>7, <2>8, <2>9, <2>10 DEF WindowStep
  <1>4. CASE ~shows
    <2>1. v = [w EXCEPT !.paused = paused]
      BY <1>4
    <2> HIDE DEF v
    <2>2. v \in Windows
      BY <1>1, <2>1 DEF Windows
    <2>3. /\ SameWindow(w, v) /\ SameRect(w, v) /\ v.frame = w.frame
          /\ v.frameSize = w.frameSize /\ v.orientation = w.orientation
          /\ v.resume = w.resume /\ v.resumeSize = w.resumeSize
          /\ v.pending = w.pending /\ v.windowed = w.windowed /\ v.paused = paused
      BY <1>1, <2>1 DEF Windows, SameWindow, SameRect
    <2>4. WindowOK(v)
      BY <2>2, <2>3 DEF WindowOK, SameWindow
    <2>5. FramesFollow(w, v)
      BY <1>1, <1>4, <2>3 DEF FramesFollow, PauseOK
    <2>6. ContentOK(w) => ContentOK(v)
      BY <2>3 DEF ContentOK, SameRect
    <2> QED
      BY <1>2, <2>3, <2>4, <2>5, <2>6 DEF WindowStep, RectFollows
  <1> QED
    BY <1>3, <1>4

\* An operation that changes the size of the window only.
LEMMA SizeIsAStep ==
    ASSUME NEW w, NEW v, WindowOK(v), SameWindow(w, v), SameFrame(w, v),
           v.content = w.content, v.rect = w.rect
    PROVE  WindowStep(w, v) /\ v.orientation = w.orientation
  <1>1. FramesFollow(w, v)
    BY DEF FramesFollow, PauseOK, SameFrame
  <1>2. RectFollows(w, v)
    BY DEF RectFollows, SameRect
  <1>3. ContentOK(w) => ContentOK(v)
    BY DEF ContentOK, SameFrame
  <1> QED
    BY <1>1, <1>2, <1>3 DEF WindowStep, SameFrame

\* sc_screen_set_orientation(): the content is turned.
LEMMA OrientationSet ==
    ASSUME NEW w, WindowOK(w), w.shown, NEW o \in 0 .. 7
    PROVE  LET v == sc_screen_set_orientation(w, o)
           IN  WindowStep(w, v) /\ v.orientation = o
  <1> DEFINE new == get_oriented_size(w.frameSize, o)
             set == set_content_size(w, new, TRUE)
             u == [set EXCEPT !.orientation = o]
             v == sc_screen_update_content_rect(u)
  <1>1. CASE o = w.orientation
    <2>1. SameWindow(w, w) /\ SameFrame(w, w)
      BY DEF SameWindow, SameFrame
    <2>2. WindowStep(w, w)
      BY <2>1, SizeIsAStep
    <2> QED
      BY <1>1, <2>2 DEF sc_screen_set_orientation
  <1>2. CASE o # w.orientation
    <2>1. new \in PosSize
      BY OrientedIsNotEmpty DEF WindowOK
    <2>2. WindowOK(set) /\ SameWindow(w, set) /\ SameFrame(w, set) /\ set.content = new
      BY <2>1, ContentSet
    <2>3. sc_screen_set_orientation(w, o) = v
      BY <1>2 DEF sc_screen_set_orientation
    <2> HIDE DEF set
    <2>4. u \in Windows
      BY <2>2 DEF WindowOK, Windows
    <2>5. /\ SameWindow(set, u) /\ u.content = new /\ u.orientation = o
          /\ u.paused = w.paused /\ u.frame = w.frame /\ u.frameSize = w.frameSize
          /\ u.resume = w.resume /\ u.resumeSize = w.resumeSize
          /\ u.pending = set.pending /\ u.windowed = set.windowed
      BY <2>2 DEF WindowOK, Windows, SameWindow, SameFrame
    <2> HIDE DEF u, new
    <2>6. WindowOK(u)
      BY <2>2, <2>4, <2>5 DEF WindowOK, SameWindow, SameFrame
    <2>7. /\ WindowOK(v) /\ SameWindow(u, v) /\ SameFrame(u, v) /\ RectOK(v)
          /\ v.content = u.content
      BY <2>6, RectUpdated
    <2> HIDE DEF v
    <2>8. ContentOK(v)
      BY <2>5, <2>7 DEF ContentOK, SameFrame, new
    <2>9. SameWindow(w, v)
      BY <2>2, <2>5, <2>7 DEF SameWindow
    <2>10. FramesFollow(w, v)
      BY <2>5, <2>7 DEF FramesFollow, PauseOK, SameFrame
    <2> QED
      BY <2>3, <2>5, <2>7, <2>8, <2>9, <2>10 DEF WindowStep, RectFollows, SameFrame
  <1> QED
    BY <1>1, <1>2

\* sc_screen_toggle_fullscreen() changes the mode and the size of the window.
LEMMA FullscreenToggled ==
    ASSUME NEW w, WindowOK(w)
    PROVE  LET v == sc_screen_toggle_fullscreen(w)
           IN  WindowStep(w, v) /\ v.orientation = w.orientation
  <1> DEFINE v == sc_screen_toggle_fullscreen(w)
  <1>1. Display \in PosSize /\ w \in Windows
    BY SizesAssumption DEF PosSize, WindowOK
  <1>2. v \in Windows
    BY <1>1 DEF sc_screen_toggle_fullscreen, Windows
  <1>3. /\ SameWindow(w, v) /\ SameFrame(w, v) /\ v.content = w.content /\ v.rect = w.rect
        /\ v.pending = w.pending /\ v.windowed = w.windowed
    BY <1>1 DEF sc_screen_toggle_fullscreen, Windows, SameWindow, SameFrame
  <1> HIDE DEF v
  <1>4. WindowOK(v)
    BY <1>2, <1>3 DEF WindowOK, SameWindow, SameFrame
  <1> QED
    BY <1>3, <1>4, SizeIsAStep DEF v

\* sc_screen_resize_to_fit() and sc_screen_resize_to_pixel_perfect() change
\* the size of the window only.
LEMMA ResizedToFit ==
    ASSUME NEW w, WindowOK(w)
    PROVE  /\ LET v == sc_screen_resize_to_fit(w)
              IN  WindowStep(w, v) /\ v.orientation = w.orientation
           /\ LET v == sc_screen_resize_to_pixel_perfect(w)
              IN  WindowStep(w, v) /\ v.orientation = w.orientation
  <1> DEFINE optimal == get_optimal_size(w.window, w.content, FALSE)
  <1>1. /\ w.content \in Nat \X Nat /\ w.window \in Nat \X Nat /\ w.content \in PosSize
    BY DEF WindowOK, Windows, PosSize
  <1>2. optimal \in Nat \X Nat
    BY <1>1, OptimalSizeIsSize
  <1> HIDE DEF optimal
  <1>3. ASSUME NEW size \in Nat \X Nat
        PROVE  LET v == sc_sdl_set_window_size(w, size)
               IN  WindowStep(w, v) /\ v.orientation = w.orientation
    <2> DEFINE v == sc_sdl_set_window_size(w, size)
    <2>1. /\ WindowOK(v) /\ SameWindow(w, v) /\ SameFrame(w, v)
          /\ v.content = w.content /\ v.rect = w.rect
      BY WindowSized
    <2> HIDE DEF v
    <2> QED
      BY <2>1, SizeIsAStep DEF v
  <1>4. WindowStep(w, w)
    <2>1. SameWindow(w, w) /\ SameFrame(w, w)
      BY DEF SameWindow, SameFrame
    <2> QED
      BY <2>1, SizeIsAStep
  <1>5. sc_screen_resize_to_fit(w) \in {w, sc_sdl_set_window_size(w, w.content),
                                         sc_sdl_set_window_size(w, optimal)}
    BY DEF sc_screen_resize_to_fit, optimal
  <1>6. sc_screen_resize_to_pixel_perfect(w) \in {w, sc_sdl_set_window_size(w, w.content)}
    BY DEF sc_screen_resize_to_pixel_perfect
  <1> QED
    BY <1>1, <1>2, <1>3, <1>4, <1>5, <1>6

\* What a shortcut does to the window.
LEMMA Reacted ==
    ASSUME WindowOK(win), win.shown, NEW key \in Keys
    PROVE  /\ WindowStep(win, Reaction(key))
           /\ Reaction(key).orientation =
                 IF key \in Turns THEN sc_orientation_apply(win.orientation, TransformOf(key))
                                  ELSE win.orientation
  <1> DEFINE o(t) == sc_orientation_apply(win.orientation, t)
  <1>1. win.orientation \in 0 .. 7
    BY DEF WindowOK, Windows
  <1>2. o(1) \in 0 .. 7 /\ o(3) \in 0 .. 7 /\ o(4) \in 0 .. 7 /\ o(6) \in 0 .. 7
    BY <1>1, OrientationsAreClosed
  <1> HIDE DEF o
  <1>3. CASE key \in Turns
    <2>1. Reaction(key) = sc_screen_set_orientation(win, o(TransformOf(key)))
      BY <1>3 DEF Reaction, Turns, TransformOf, o
    <2>2. o(TransformOf(key)) \in 0 .. 7
      BY <1>2, <1>3 DEF Turns, TransformOf
    <2>3. /\ WindowStep(win, sc_screen_set_orientation(win, o(TransformOf(key))))
          /\ sc_screen_set_orientation(win, o(TransformOf(key))).orientation
                = o(TransformOf(key))
      BY <2>2, OrientationSet
    <2> QED
      BY <1>3, <2>1, <2>3 DEF o
  <1>4. CASE key \in {"pause", "unpause"}
    <2>1. Reaction(key) = sc_screen_set_paused(win, key = "pause")
      BY <1>4 DEF Reaction
    <2>2. (key = "pause") \in BOOLEAN
      OBVIOUS
    <2> QED
      BY <1>4, <2>1, <2>2, PausedSet DEF Turns
  <1>5. CASE key = "full"
    BY <1>5, FullscreenToggled DEF Reaction, Turns
  <1>6. CASE key = "fit"
    BY <1>6, ResizedToFit DEF Reaction, Turns
  <1>7. CASE key = "perfect"
    BY <1>7, ResizedToFit DEF Reaction, Turns
  <1>8. CASE key = "fps"
    <2>1. SameWindow(win, win) /\ SameFrame(win, win)
      BY DEF SameWindow, SameFrame
    <2>2. WindowStep(win, win)
      BY <2>1, SizeIsAStep
    <2> QED
      BY <1>8, <2>2 DEF Reaction, Turns
  <1> QED
    BY <1>3, <1>4, <1>5, <1>6, <1>7, <1>8, KeysAssumption DEF Turns

\* sc_screen_show_initial_window(), once the content has the size of the
\* session.
LEMMA InitialWindowShown ==
    ASSUME WindowOK(win), NEW size \in PosSize
    PROVE  LET w == [win EXCEPT !.frameSize = size,
                                !.content = get_oriented_size(size, win.orientation)]
               v == sc_screen_show_initial_window(w)
           IN  /\ WindowOK(v) /\ RectOK(v) /\ ContentOK(v)
               /\ v.shown /\ v.disconnected = win.disconnected /\ v.started = win.started
               /\ v.frame = win.frame /\ v.resume = win.resume /\ v.paused = win.paused
               /\ v.orientation = win.orientation
  <1> DEFINE w == [win EXCEPT !.frameSize = size,
                              !.content = get_oriented_size(size, win.orientation)]
             fit == get_optimal_size(w.content, w.content, TRUE)
             r == sc_sdl_set_window_size(w, fit)
             u == [r EXCEPT !.shown = TRUE]
             v == sc_screen_update_content_rect(u)
  <1>1. win \in Windows /\ win.orientation \in 0 .. 7 /\ size \in Nat \X Nat
    BY DEF WindowOK, Windows, PosSize
  <1>2. get_oriented_size(size, win.orientation) \in PosSize
    BY <1>1, OrientedIsNotEmpty
  <1>3. w \in Windows
    BY <1>1, <1>2 DEF Windows
  <1>4. /\ w.frameSize = size /\ w.content = get_oriented_size(size, win.orientation)
        /\ w.disconnected = win.disconnected /\ w.started = win.started
        /\ w.frame = win.frame /\ w.resume = win.resume /\ w.resumeSize = win.resumeSize
        /\ w.paused = win.paused /\ w.orientation = win.orientation
        /\ w.pending = win.pending /\ w.windowed = win.windowed
    BY <1>1 DEF Windows
  <1>5. v = sc_screen_show_initial_window(w)
    BY DEF sc_screen_show_initial_window
  <1> HIDE DEF w
  <1>6. WindowOK(w)
    BY <1>3, <1>4 DEF WindowOK
  <1>7. w.content \in PosSize /\ w.content \in Nat \X Nat
    BY <1>3 DEF Windows, PosSize
  <1>8. fit \in Nat \X Nat
    BY <1>7, OptimalSizeIsSize
  <1> HIDE DEF fit
  <1>9. WindowOK(r) /\ SameWindow(w, r) /\ SameFrame(w, r) /\ r.content = w.content
    BY <1>6, <1>8, WindowSized
  <1> HIDE DEF r
  <1>10. u \in Windows
    BY <1>9 DEF WindowOK, Windows
  <1>11. /\ SameFrame(r, u) /\ u.content = r.content /\ u.shown = TRUE
         /\ u.disconnected = r.disconnected /\ u.started = r.started
         /\ u.pending = r.pending /\ u.windowed = r.windowed
    BY <1>9 DEF WindowOK, Windows, SameFrame
  <1> HIDE DEF u
  <1>12. WindowOK(u)
    BY <1>4, <1>9, <1>10, <1>11 DEF WindowOK, SameFrame
  <1>13. /\ WindowOK(v) /\ SameWindow(u, v) /\ SameFrame(u, v) /\ RectOK(v)
         /\ v.content = u.content
    BY <1>12, RectUpdated
  <1> HIDE DEF v
  <1>14. ContentOK(v)
    BY <1>4, <1>9, <1>11, <1>13 DEF ContentOK, SameFrame
  <1>15. /\ v.shown /\ v.disconnected = win.disconnected /\ v.started = win.started
         /\ v.frame = win.frame /\ v.resume = win.resume /\ v.paused = win.paused
         /\ v.orientation = win.orientation
    BY <1>4, <1>9, <1>11, <1>13 DEF SameFrame, SameWindow
  <1> QED
    BY <1>5, <1>13, <1>14, <1>15 DEF w

-----------------------------------------------------------------------------
(* The queue of events.                                                     *)

\* An event is posted.
LEMMA Posted ==
    ASSUME NEW s \in Seq(Events), NEW e \in Events
    PROVE  LET r == Append(s, e)
           IN  /\ r \in Seq(Events) /\ r # <<>>
               /\ \A type : Has(r, type) <=> Has(s, type) \/ e.type = type
               /\ \A type : Once(s, type) /\ (e.type = type => ~Has(s, type)) => Once(r, type)
               /\ OpensOK(s) /\ (e.type = "open" => e.size \in PosSize) => OpensOK(r)
               /\ s # <<>> => Head(r) = Head(s)
               /\ s = <<>> => Head(r) = e
  <1> DEFINE r == Append(s, e)
  <1>1. /\ r \in Seq(Events) /\ Len(r) = Len(s) + 1 /\ r[Len(s) + 1] = e
        /\ \A i \in 1 .. Len(s) : r[i] = s[i]
        /\ DOMAIN r = 1 .. Len(s) + 1 /\ DOMAIN s = 1 .. Len(s) /\ Len(s) \in Nat
    OBVIOUS
  <1>2. r # <<>> /\ (s # <<>> => Head(r) = Head(s)) /\ (s = <<>> => Head(r) = e)
    OBVIOUS
  <1> HIDE DEF r
  <1>3. \A i \in DOMAIN r : (i \in DOMAIN s /\ r[i] = s[i]) \/ (i = Len(s) + 1 /\ r[i] = e)
    BY <1>1
  <1>4. Len(s) + 1 \in DOMAIN r /\ \A i \in DOMAIN s : i \in DOMAIN r
    BY <1>1
  <1>5. ASSUME NEW type
        PROVE  Has(r, type) <=> Has(s, type) \/ e.type = type
    BY <1>1, <1>3, <1>4 DEF Has
  <1>6. ASSUME NEW type, Once(s, type), e.type = type => ~Has(s, type)
        PROVE  Once(r, type)
    BY <1>3, <1>6 DEF Once, Has
  <1>7. OpensOK(s) /\ (e.type = "open" => e.size \in PosSize) => OpensOK(r)
    BY <1>3 DEF OpensOK
  <1> QED
    BY <1>1, <1>2, <1>5, <1>6, <1>7 DEF r

\* The first event is taken.
LEMMA Taken ==
    ASSUME NEW s \in Seq(Events), s # <<>>
    PROVE  LET r == Tail(s)
           IN  /\ r \in Seq(Events)
               /\ \A type : Has(r, type) => Has(s, type)
               /\ \A type : Head(s).type # type /\ Has(s, type) => Has(r, type)
               /\ \A type : Once(s, type) => Once(r, type)
               /\ \A type : Once(s, type) /\ Head(s).type = type => ~Has(r, type)
               /\ OpensOK(s) => OpensOK(r)
               /\ Head(s) = s[1] /\ 1 \in DOMAIN s
  <1> DEFINE r == Tail(s)
  <1>1. /\ r \in Seq(Events) /\ Len(s) \in Nat /\ Len(s) # 0 /\ Len(r) = Len(s) - 1
        /\ \A i \in 1 .. Len(r) : r[i] = s[i + 1]
        /\ DOMAIN r = 1 .. Len(s) - 1 /\ DOMAIN s = 1 .. Len(s) /\ Head(s) = s[1]
    OBVIOUS
  <1> HIDE DEF r
  <1>2. \A i \in DOMAIN r : i + 1 \in DOMAIN s /\ r[i] = s[i + 1] /\ i + 1 # 1 /\ i \in Int
    BY <1>1
  <1>3. \A i \in DOMAIN s : i = 1 \/ (i - 1 \in DOMAIN r /\ r[i - 1] = s[i])
    BY <1>1
  <1>4. 1 \in DOMAIN s
    BY <1>1
  <1>5. \A type : Has(r, type) => Has(s, type)
    BY <1>2 DEF Has
  <1>6. \A type : Head(s).type # type /\ Has(s, type) => Has(r, type)
    BY <1>1, <1>3 DEF Has
  <1>7. ASSUME NEW type, Once(s, type) PROVE Once(r, type)
    BY <1>2, <1>7 DEF Once
  <1>8. ASSUME NEW type, Once(s, type), Head(s).type = type PROVE ~Has(r, type)
    BY <1>1, <1>2, <1>4, <1>8 DEF Once, Has
  <1>9. OpensOK(s) => OpensOK(r)
    BY <1>2 DEF OpensOK
  <1> QED
    BY <1>1, <1>4, <1>5, <1>6, <1>7, <1>8, <1>9 DEF r

\* The window events of a change of the window are posted.
LEMMA WindowEventsPosted ==
    ASSUME NEW s \in Seq(Events), NEW w
    PROVE  LET r == s \o WindowEvents(w)
           IN  /\ r \in Seq(Events)
               /\ \A type : Has(s, type) => Has(r, type)
               /\ \A type : type \notin {"resized", "windowed"} /\ Has(r, type) => Has(s, type)
               /\ \A type : type \notin {"resized", "windowed"} /\ Once(s, type) => Once(r, type)
               /\ w.window # win.window => Has(r, "resized")
               /\ OpensOK(s) => OpensOK(r)
               /\ s # <<>> => r # <<>> /\ Head(r) = Head(s)
  <1> DEFINE a == Event("resized")
             b == Event("windowed")
             sa == IF w.window # win.window THEN Append(s, a) ELSE s
             posts == w.mode # win.mode /\ w.mode = "windowed"
             r == IF posts THEN Append(sa, b) ELSE sa
  <1>1. /\ a \in Events /\ b \in Events /\ a.type = "resized" /\ b.type = "windowed"
    BY DEF Event, Events, NoSize
  <1> HIDE DEF a, b
  <1>2. s \o WindowEvents(w) = r
    <2>1. WindowEvents(w) = (IF w.window # win.window THEN <<a>> ELSE <<>>)
                                \o (IF posts THEN <<b>> ELSE <<>>)
      BY DEF WindowEvents, a, b
    <2>2. /\ s \o (<<>> \o <<>>) = s /\ s \o (<<a>> \o <<>>) = Append(s, a)
          /\ s \o (<<>> \o <<b>>) = Append(s, b)
          /\ s \o (<<a>> \o <<b>>) = Append(Append(s, a), b)
      BY <1>1
    <2> QED
      BY <2>1, <2>2
  <1>3. /\ sa \in Seq(Events)
        /\ \A type : Has(sa, type) <=> Has(s, type) \/ (w.window # win.window /\ type = "resized")
        /\ \A type : type # "resized" /\ Once(s, type) => Once(sa, type)
        /\ OpensOK(s) => OpensOK(sa)
        /\ s # <<>> => sa # <<>> /\ Head(sa) = Head(s)
    BY <1>1, Posted
  <1> HIDE DEF sa
  <1>4. /\ r \in Seq(Events)
        /\ \A type : Has(r, type) <=> Has(sa, type) \/ (posts /\ type = "windowed")
        /\ \A type : type # "windowed" /\ Once(sa, type) => Once(r, type)
        /\ OpensOK(sa) => OpensOK(r)
        /\ sa # <<>> => r # <<>> /\ Head(r) = Head(sa)
    BY <1>1, <1>3, Posted
  <1> HIDE DEF r
  <1> QED
    BY <1>2, <1>3, <1>4

\* The main thread takes an event and shows the window w.
LEMMA Shown ==
    ASSUME NEW w, events \in Seq(Events), events # <<>>, Shows(w)
    PROVE  /\ win' = w /\ events' \in Seq(Events)
           /\ \A type : Head(events).type # type /\ Has(events, type) => Has(events', type)
           /\ \A type : type \notin {"resized", "windowed"} /\ Has(events', type)
                           => Has(events, type)
           /\ \A type : type \notin {"resized", "windowed"} /\ Once(events, type)
                           => Once(events', type)
           /\ \A type : type \notin {"resized", "windowed"} /\ Once(events, type)
                           /\ Head(events).type = type => ~Has(events', type)
           /\ w.window # win.window => Has(events', "resized")
           /\ OpensOK(events) => OpensOK(events')
  <1>1. win' = w /\ events' = Tail(events) \o WindowEvents(w)
    BY DEF Shows
  <1>2. Tail(events) \in Seq(Events)
    BY Taken
  <1>3. LET r == Tail(events) \o WindowEvents(w)
        IN  /\ r \in Seq(Events)
            /\ \A type : Has(Tail(events), type) => Has(r, type)
            /\ \A type : type \notin {"resized", "windowed"} /\ Has(r, type)
                            => Has(Tail(events), type)
            /\ \A type : type \notin {"resized", "windowed"} /\ Once(Tail(events), type)
                            => Once(r, type)
            /\ w.window # win.window => Has(r, "resized")
            /\ OpensOK(Tail(events)) => OpensOK(r)
    BY <1>2, WindowEventsPosted
  <1> QED
    BY <1>1, <1>3, Taken

\* The first event of a type that is there at most once is removed.
LEMMA Dequeued ==
    ASSUME NEW s \in Seq(Events), NEW type, Once(s, type)
    PROVE  LET r == sc_dequeue_event(s, type)
           IN  /\ r \in Seq(Events) /\ ~Has(r, type)
               /\ \A t : Has(r, t) => Has(s, t)
               /\ \A t : Once(s, t) => Once(r, t)
               /\ OpensOK(s) => OpensOK(r)
  <1> DEFINE first == {i \in DOMAIN s : s[i].type = type /\ \A j \in 1 .. i - 1 : s[j].type # type}
             at == CHOOSE i \in first : TRUE
             short == [i \in 1 .. Len(s) - 1 |-> IF i < at THEN s[i] ELSE s[i + 1]]
             r == sc_dequeue_event(s, type)
  <1>1. Len(s) \in Nat /\ DOMAIN s = 1 .. Len(s) /\ \A i \in 1 .. Len(s) : s[i] \in Events
    OBVIOUS
  <1>2. Has(s, type) => first # {}
    <2> SUFFICES ASSUME NEW i \in DOMAIN s, s[i].type = type
                 PROVE  i \in first
      BY DEF Has
    <2>1. ASSUME NEW j \in 1 .. i - 1 PROVE s[j].type # type
      BY <1>1, <2>1 DEF Once
    <2> QED
      BY <2>1
  <1>3. CASE first = {}
    <2>1. r = s
      BY <1>3 DEF sc_dequeue_event
    <2> QED
      BY <1>2, <1>3, <2>1
  <1>4. CASE first # {}
    <2>1. at \in first
      BY <1>4
    <2>2. at \in DOMAIN s /\ s[at].type = type
      BY <2>1
    <2>3. r = short
      BY <1>4 DEF sc_dequeue_event
    <2> HIDE DEF first, at
    <2>4. Len(s) - 1 \in Nat
      BY <1>1, <2>2
    <2>5. \A i \in 1 .. Len(s) - 1 : short[i] \in Events
      BY <1>1
    <2>6. short \in Seq(Events) /\ DOMAIN short = 1 .. Len(s) - 1
      BY <2>4, <2>5
    <2> DEFINE from(i) == IF i < at THEN i ELSE i + 1
    <2>7. /\ \A i \in DOMAIN short : from(i) \in DOMAIN s /\ from(i) # at /\ short[i] = s[from(i)]
          /\ \A i, j \in DOMAIN short : from(i) = from(j) => i = j
      BY <1>1, <2>2, <2>6
    <2> HIDE DEF short, from
    <2>8. ~Has(short, type)
      BY <2>2, <2>7 DEF Has, Once
    <2>9. \A t : Has(short, t) => Has(s, t)
      BY <2>7 DEF Has
    <2>10. ASSUME NEW t, Once(s, t) PROVE Once(short, t)
      BY <2>7, <2>10 DEF Once
    <2>11. OpensOK(s) => OpensOK(short)
      BY <2>7 DEF OpensOK
    <2> QED
      BY <2>3, <2>6, <2>8, <2>9, <2>10, <2>11
  <1> QED
    BY <1>3, <1>4

\* Count() of a type that is there at most once.
LEMMA Counted ==
    ASSUME NEW type, events \in Seq(Events)
    PROVE  /\ Once(events, type) => Count(type) = IF Has(events, type) THEN 1 ELSE 0
           /\ Count(type) = 0 <=> ~Has(events, type)
           /\ Count(type) > 0 => Has(events, type)
  <1> DEFINE S == {i \in DOMAIN events : events[i].type = type}
  <1>1. IsFiniteSet(S)
    <2>1. DOMAIN events = 1 .. Len(events) /\ Len(events) \in Nat
      OBVIOUS
    <2>2. IsFiniteSet(1 .. Len(events))
      BY <2>1, FS_Interval
    <2> QED
      BY <2>1, <2>2, FS_Subset
  <1>2. Count(type) = Cardinality(S) /\ Cardinality(S) \in Nat
    BY <1>1, FS_CardinalityType DEF Count
  <1>3. Cardinality(S) = 0 <=> S = {}
    BY <1>1, FS_EmptySet
  <1>4. S = {} <=> ~Has(events, type)
    BY DEF Has
  <1>5. ASSUME Once(events, type), Has(events, type) PROVE Cardinality(S) = 1
    <2>1. PICK i \in DOMAIN events : events[i].type = type
      BY <1>5 DEF Has
    <2>2. S = {i}
      BY <1>5, <2>1 DEF Once
    <2> QED
      BY <2>2, FS_Singleton
  <1> HIDE DEF S
  <1> QED
    BY <1>2, <1>3, <1>4, <1>5

-----------------------------------------------------------------------------
(* The initial states.                                                      *)

\* sc_screen_init() establishes the invariant.
LEMMA InitEstablishes == Init => IInv
  <1> SUFFICES ASSUME Init PROVE IInv
    OBVIOUS
  <1>1. PICK flex \in Flex, o \in Orientations, fit \in Fits :
            win = NewWindow(flex, o, fit) /\ picture = Drawn(o)
    BY DEF Init
  <1>2. <<1, 1>> \in PosSize /\ NoSize \in Nat \X Nat /\ flex \in BOOLEAN /\ o \in 0 .. 7
    BY SizesAssumption DEF PosSize, NoSize
  <1>3. compute_content_rect(<<1, 1>>, <<1, 1>>, TRUE, fit) \in Rects
    BY <1>2, RectIsNotEmpty
  <1>4. win \in Windows
    BY <1>1, <1>2, <1>3 DEF NewWindow, Windows
  <1>5. /\ ~win.pending /\ ~win.shown /\ win.resume = 0 /\ ~win.paused /\ win.frame = 0
        /\ win.orientation = o /\ ~win.started /\ ~win.disconnected
    BY <1>1 DEF NewWindow
  <1>6. /\ dpc = "new" /\ mpc = "loop" /\ events = <<>> /\ fb = [id |-> 0, size |-> NoSize]
        /\ auto = TRUE /\ open = FALSE /\ tpc = "none" /\ timer = FALSE
        /\ fps = [started |-> FALSE, interrupted |-> FALSE, thread |-> FALSE] /\ fpc = "none"
        /\ pushed = 0 /\ inputs = 0 /\ failed = FALSE
    BY DEF Init, Consumed, FpsInit
  <1>7. WindowOK(win)
    BY <1>4, <1>5 DEF WindowOK
  <1>8. VarsOK
    <2>1. fps \in FpsTypes
      BY <1>6 DEF FpsTypes
    <2>2. fb \in [id : Nat, size : Nat \X Nat] /\ events \in Seq(Events)
      BY <1>2, <1>6
    <2>3. pushed \in 0 .. MaxFrames /\ inputs \in 0 .. MaxInputs
      BY <1>6, SizesAssumption
    <2> QED
      BY <1>6, <2>1, <2>2, <2>3 DEF VarsOK
  <1>9. PictureInv
    BY <1>1, <1>5 DEF PictureInv
  <1>10. FrameInv
    BY <1>5, <1>6 DEF FrameInv, PauseOK
  <1>11. QueueInv
    BY <1>6 DEF QueueInv, OpensOK, Once, Has
  <1>12. AnnouncedInv
    BY <1>5, <1>6 DEF AnnouncedInv, Once, Has
  <1>13. EndInv
    BY <1>5, <1>6 DEF EndInv
  <1>14. AssertInv
    BY <1>6 DEF AssertInv
  <1> QED
    BY <1>7, <1>8, <1>9, <1>10, <1>11, <1>12, <1>13, <1>14 DEF IInv

-----------------------------------------------------------------------------
(* The FPS counter.                                                         *)

\* Starting and stopping the counter keeps its types; stopping it creates no
\* thread.
LEMMA FpsOperations ==
    ASSUME VarsOK, sc_fps_counter_start \/ sc_fps_counter_stop \/ UNCHANGED fpsVars
    PROVE  /\ fps' \in FpsTypes /\ fpc' \in {"none", "check", "locked", "sleep", "ended"}
           /\ \/ sc_fps_counter_start
              \/ (fps.thread => fps.interrupted) => (fps'.thread => fps'.interrupted)
  <1>1. fps \in FpsTypes /\ fpc \in {"none", "check", "locked", "sleep", "ended"}
    BY DEF VarsOK
  <1>2. CASE sc_fps_counter_start
    <2>1. [started |-> TRUE, interrupted |-> FALSE, thread |-> TRUE] \in FpsTypes
      BY DEF FpsTypes
    <2>2. /\ fps' = [started |-> TRUE, interrupted |-> FALSE, thread |-> TRUE]
          /\ fpc' = "check" \/ fpc' = fpc
      BY <1>2 DEF sc_fps_counter_start, FpsWoken
    <2> QED
      BY <1>1, <1>2, <2>1, <2>2
  <1>3. CASE sc_fps_counter_stop
    <2>1. /\ fps' = [fps EXCEPT !.started = FALSE]
          /\ fpc' = "check" \/ fpc' = fpc
      BY <1>3 DEF sc_fps_counter_stop, FpsWoken
    <2>2. fps' \in FpsTypes /\ fps'.thread = fps.thread /\ fps'.interrupted = fps.interrupted
      BY <1>1, <2>1 DEF FpsTypes
    <2> QED
      BY <1>1, <2>1, <2>2
  <1>4. CASE UNCHANGED fpsVars
    BY <1>1, <1>4 DEF fpsVars
  <1> QED
    BY <1>2, <1>3, <1>4

\* sc_fps_counter_interrupt() reaches the thread, if there is one.
LEMMA FpsInterrupted ==
    ASSUME VarsOK, sc_fps_counter_interrupt
    PROVE  /\ fps' \in FpsTypes /\ fpc' \in {"none", "check", "locked", "sleep", "ended"}
           /\ fps'.thread => fps'.interrupted
  <1>1. fps \in FpsTypes /\ fpc \in {"none", "check", "locked", "sleep", "ended"}
    BY DEF VarsOK
  <1>2. \/ fps' = [fps EXCEPT !.interrupted = TRUE]
        \/ fps' = fps /\ ~fps.thread
    BY DEF sc_fps_counter_interrupt, fpsVars
  <1>3. fpc' = "check" \/ fpc' = fpc
    BY DEF sc_fps_counter_interrupt, fpsVars, FpsWoken
  <1>4. fps' \in FpsTypes /\ (fps'.thread => fps'.interrupted)
    BY <1>1, <1>2 DEF FpsTypes
  <1> QED
    BY <1>1, <1>3, <1>4

-----------------------------------------------------------------------------
(* The main thread handles an event of the window or of the decoder.        *)

\* The events that hold something, when the main thread takes an event.
LEMMA QueueShown ==
    ASSUME IInv, NEW w, events # <<>>, Shows(w), dpc' = dpc,
           tpc' \in {"none", "icon"} => tpc \in {"none", "icon"}
    PROVE  QueueInv'
  <1>1. events \in Seq(Events) /\ QueueInv
    BY DEF IInv, VarsOK
  <1> QED
    BY <1>1, Shown DEF QueueInv

\* The event of the frame, when the main thread takes another event.
LEMMA AnnouncedShown ==
    ASSUME IInv, NEW w, events # <<>>, Shows(w), mpc = "loop", w.shown = win.shown,
           Head(events).type \notin {"frame", "open", "quit"}, UNCHANGED <<dpc, fb>>
    PROVE  AnnouncedInv'
  <1>1. events \in Seq(Events) /\ AnnouncedInv
    BY DEF IInv, VarsOK
  <1>2. dpc # "new"
    BY <1>1, Taken DEF AnnouncedInv
  <1>3. /\ Once(events', "frame") /\ (Has(events', "frame") <=> Has(events, "frame"))
        /\ win' = w
    BY <1>1, Shown DEF AnnouncedInv
  <1>4. win.shown \/ ~(dpc \in {"open", "post"} \/ Has(events, "frame"))
    BY <1>1 DEF AnnouncedInv
  <1> QED
    BY <1>1, <1>2, <1>3, <1>4 DEF AnnouncedInv

\* SC_EVENT_OPEN_WINDOW.
LEMMA OpenWindowKeeps ==
    ASSUME IInv, OpenWindow
    PROVE  IInv'
  <1> DEFINE size == Head(events).size
             w == [win EXCEPT !.frameSize = size,
                              !.content = get_oriented_size(size, win.orientation)]
             v == sc_screen_show_initial_window(w)
  <1>1. /\ mpc = "loop" /\ events # <<>> /\ Head(events).type = "open" /\ Shows(v)
        /\ UNCHANGED <<mpc, fb, auto, dpc, open, pushed, tpc, timer, inputs, picture, failed>>
        /\ sc_fps_counter_start \/ UNCHANGED fpsVars
    BY DEF OpenWindow, Takes, sinkVars, timerVars
  <1>2. /\ VarsOK /\ WindowOK(win) /\ PictureInv /\ FrameInv /\ QueueInv /\ AnnouncedInv
        /\ EndInv /\ AssertInv /\ events \in Seq(Events)
    BY DEF IInv, VarsOK
  <1>3. size \in PosSize /\ dpc # "new"
    <2>1. 1 \in DOMAIN events /\ Head(events) = events[1]
      BY <1>1, <1>2, Taken
    <2> QED
      BY <1>1, <1>2, <2>1 DEF QueueInv, OpensOK, Has
  <1>4. /\ WindowOK(v) /\ RectOK(v) /\ ContentOK(v)
        /\ v.shown /\ v.disconnected = win.disconnected /\ v.started = win.started
        /\ v.frame = win.frame /\ v.resume = win.resume /\ v.paused = win.paused
        /\ v.orientation = win.orientation
    BY <1>2, <1>3, InitialWindowShown
  <1> HIDE DEF v
  <1>5. /\ win' = v /\ events' \in Seq(Events)
        /\ Once(events', "frame") /\ (Has(events', "frame") <=> Has(events, "frame"))
    BY <1>1, <1>2, Shown DEF AnnouncedInv
  <1>6. VarsOK'
    <2>1. fps' \in FpsTypes /\ fpc' \in {"none", "check", "locked", "sleep", "ended"}
      BY <1>1, <1>2, FpsOperations
    <2> QED
      BY <1>1, <1>2, <1>5, <2>1 DEF VarsOK
  <1>7. WindowOK(win)' /\ PictureInv'
    BY <1>1, <1>2, <1>4, <1>5 DEF PictureInv
  <1>8. FrameInv'
    BY <1>1, <1>2, <1>4, <1>5 DEF FrameInv, PauseOK
  <1>9. QueueInv'
    BY <1>1, QueueShown
  <1>10. AnnouncedInv'
    BY <1>1, <1>2, <1>3, <1>4, <1>5 DEF AnnouncedInv
  <1>11. EndInv'
    BY <1>1, <1>2, <1>4, <1>5 DEF EndInv
  <1>12. AssertInv'
    BY <1>1, <1>2 DEF AssertInv
  <1> QED
    BY <1>6, <1>7, <1>8, <1>9, <1>10, <1>11, <1>12 DEF IInv

\* What the main thread shows keeps to the frame and to the window.
LEMMA PictureShown ==
    ASSUME IInv, NEW w, events # <<>>, Shows(w), mpc = "loop", UNCHANGED picture,
           w.orientation = win.orientation, SameWindow(win, w), RectFollows(win, w),
           ContentOK(win) => ContentOK(w),
           Head(events).type # "resized" \/ RectOK(w)
    PROVE  PictureInv'
  <1>1. PictureInv /\ events \in Seq(Events)
    BY DEF IInv, VarsOK
  <1>2. win' = w /\ (w.window # win.window => Has(events', "resized"))
    BY <1>1, Shown
  <1>3. Head(events).type # "resized" /\ Has(events, "resized") => Has(events', "resized")
    BY <1>1, Shown
  <1>4. RectOK(win) => RectOK(w) \/ w.window # win.window
    BY DEF RectFollows, SameRect, SameWindow, RectOK
  <1>5. SameRect(win, w) \/ RectOK(w) \/ w.window # win.window
    BY DEF RectFollows
  <1> QED
    BY <1>1, <1>2, <1>3, <1>4, <1>5 DEF PictureInv, SameWindow

\* The order of the frames, when the one kept aside may be shown.
LEMMA FramesShown ==
    ASSUME VarsOK, WindowOK(win), FrameInv, FramesFollow(win, win'), UNCHANGED <<fb, pushed, dpc>>
    PROVE  FrameInv'
  <1>1. win.frame \in Nat /\ win.resume \in Nat /\ fb.id \in Nat /\ pushed \in Nat
    BY DEF VarsOK, WindowOK, Windows
  <1>2. /\ win'.frame \in {win.frame, win.resume} /\ win'.resume \in {win.resume, 0}
        /\ PauseOK(win')
    BY DEF FramesFollow, FrameInv
  <1>3. win'.frame <= pushed /\ win'.resume <= pushed
    BY <1>1, <1>2 DEF FrameInv
  <1>4. fb.id # 0 => win'.frame < fb.id /\ win'.resume < fb.id
    BY <1>1, <1>2 DEF FrameInv
  <1> QED
    BY <1>2, <1>3, <1>4 DEF FrameInv

\* SC_EVENT_NEW_FRAME: its frame is there, and so is the window.
LEMMA NewFrameKeeps ==
    ASSUME IInv, NewFrame
    PROVE  IInv'
  <1> DEFINE v == sc_screen_update_frame(win)
  <1>1. /\ mpc = "loop" /\ events # <<>> /\ Head(events).type = "frame" /\ Shows(v)
        /\ failed' = (failed \/ fb.id = 0 \/ ~win.shown)
        /\ fb' = [id |-> 0, size |-> NoSize]
        /\ UNCHANGED <<mpc, auto, dpc, open, pushed, fps, fpc, tpc, timer, inputs, picture>>
    BY DEF NewFrame, Takes, timerVars, fpsVars, Consumed
  <1>2. /\ VarsOK /\ WindowOK(win) /\ PictureInv /\ FrameInv /\ QueueInv /\ AnnouncedInv
        /\ EndInv /\ AssertInv /\ events \in Seq(Events)
    BY DEF IInv, VarsOK
  <1>3. Has(events, "frame")
    BY <1>1, <1>2, Taken DEF Has
  <1>4. /\ fb.id # 0 /\ win.shown /\ dpc \notin {"new", "post"} /\ fb.id \in Nat
        /\ fb.size \in PosSize /\ win.frame < fb.id /\ win.resume < fb.id /\ fb.id <= pushed
    BY <1>1, <1>2, <1>3 DEF AnnouncedInv, QueueInv, FrameInv, VarsOK
  <1>5. /\ WindowOK(v) /\ SameWindow(win, v) /\ RectFollows(win, v)
        /\ v.orientation = win.orientation /\ (ContentOK(win) => ContentOK(v))
        /\ PauseOK(v) /\ v.frame <= pushed /\ v.resume <= pushed
    <2>1. CASE win.paused
      <3>1. v = [win EXCEPT !.resume = fb.id, !.resumeSize = fb.size]
        BY <2>1 DEF sc_screen_update_frame
      <3>2. win \in Windows /\ fb.size \in Nat \X Nat
        BY <1>2, <1>4 DEF WindowOK, PosSize
      <3> HIDE DEF v
      <3>3. v \in Windows
        BY <1>4, <3>1, <3>2 DEF Windows
      <3>4. /\ SameWindow(win, v) /\ SameRect(win, v) /\ v.orientation = win.orientation
            /\ v.frameSize = win.frameSize /\ v.frame = win.frame /\ v.paused = win.paused
            /\ v.resume = fb.id /\ v.resumeSize = fb.size
            /\ v.pending = win.pending /\ v.windowed = win.windowed
        BY <3>1, <3>2 DEF Windows, SameWindow, SameRect
      <3>5. WindowOK(v)
        BY <1>2, <1>4, <3>3, <3>4 DEF WindowOK, SameWindow
      <3>6. ContentOK(win) => ContentOK(v)
        BY <3>4 DEF ContentOK, SameRect
      <3> QED
        BY <1>2, <1>4, <2>1, <3>4, <3>5, <3>6 DEF RectFollows, PauseOK, FrameInv
    <2>2. CASE ~win.paused
      <3>1. v = sc_screen_apply_frame(win, fb.id, fb.size, auto) /\ auto \in BOOLEAN
        BY <1>2, <2>2 DEF sc_screen_update_frame, VarsOK
      <3>2. /\ WindowOK(v) /\ SameWindow(win, v) /\ RectFollows(win, v)
            /\ v.frame = fb.id /\ v.orientation = win.orientation
            /\ v.paused = win.paused /\ v.resume = win.resume
            /\ ContentOK(win) => ContentOK(v)
        BY <1>2, <1>4, <3>1, FrameApplied
      <3> HIDE DEF v
      <3> QED
        BY <1>2, <1>4, <2>2, <3>2 DEF PauseOK, FrameInv
    <2> QED
      BY <2>1, <2>2 DEF WindowOK, Windows
  <1> HIDE DEF v
  <1>6. win' = v /\ events' \in Seq(Events) /\ ~Has(events', "frame") /\ Once(events', "frame")
    BY <1>1, <1>2, Shown DEF AnnouncedInv
  <1>7. VarsOK'
    <2>1. fb' \in [id : Nat, size : Nat \X Nat]
      BY <1>1 DEF NoSize
    <2>2. failed' \in BOOLEAN
      BY <1>1, <1>4, <1>2 DEF VarsOK
    <2> QED
      BY <1>1, <1>2, <1>6, <2>1, <2>2 DEF VarsOK
  <1>8. WindowOK(win)'
    BY <1>5, <1>6
  <1>9. PictureInv'
    BY <1>1, <1>5, PictureShown
  <1>10. FrameInv'
    <2>1. fb'.id = 0 /\ 0 <= pushed
      BY <1>1, <1>2 DEF VarsOK
    <2> QED
      BY <1>1, <1>2, <1>5, <1>6, <2>1 DEF FrameInv
  <1>11. QueueInv'
    BY <1>1, QueueShown
  <1>12. AnnouncedInv'
    BY <1>1, <1>4, <1>5, <1>6 DEF AnnouncedInv, SameWindow
  <1>13. EndInv'
    BY <1>1, <1>2, <1>5, <1>6 DEF EndInv, SameWindow
  <1>14. AssertInv'
    BY <1>1, <1>2, <1>4 DEF AssertInv
  <1> QED
    BY <1>7, <1>8, <1>9, <1>10, <1>11, <1>12, <1>13, <1>14 DEF IInv

\* A window event: sizes and the rectangle change, at most.
LEMMA WindowEventKeeps ==
    ASSUME IInv, NEW v, mpc = "loop", events # <<>>, Shows(v),
           Head(events).type \in {"resized", "windowed"},
           UNCHANGED <<mpc, sinkVars, fpsVars, timerVars, inputs, picture, failed>>,
           WindowStep(win, v), v.orientation = win.orientation,
           Head(events).type = "resized" /\ v.shown => RectOK(v)
    PROVE  IInv'
  <1>1. UNCHANGED <<mpc, fb, auto, dpc, open, pushed, fps, fpc, tpc, timer, inputs, picture, failed>>
    BY DEF sinkVars, fpsVars, timerVars
  <1>2. /\ VarsOK /\ WindowOK(win) /\ PictureInv /\ FrameInv /\ QueueInv /\ AnnouncedInv
        /\ EndInv /\ AssertInv /\ events \in Seq(Events)
    BY DEF IInv, VarsOK
  <1>3. /\ WindowOK(v) /\ SameWindow(win, v) /\ FramesFollow(win, v) /\ RectFollows(win, v)
        /\ ContentOK(win) => ContentOK(v)
    BY DEF WindowStep
  <1>4. win' = v /\ events' \in Seq(Events)
    BY <1>2, Shown
  <1>5. VarsOK'
    BY <1>1, <1>2, <1>4 DEF VarsOK
  <1>6. WindowOK(win)'
    BY <1>3, <1>4
  <1>7. PictureInv'
    <2>1. CASE v.shown
      BY <1>1, <1>3, <2>1, PictureShown
    <2>2. CASE ~v.shown
      BY <1>1, <1>2, <1>4, <2>2 DEF PictureInv
    <2> QED
      BY <2>1, <2>2
  <1>8. FrameInv'
    BY <1>1, <1>2, <1>3, <1>4, FramesShown
  <1>9. QueueInv'
    BY <1>1, QueueShown
  <1>10. AnnouncedInv'
    BY <1>1, <1>3, AnnouncedShown DEF SameWindow
  <1>11. EndInv'
    BY <1>1, <1>2, <1>3, <1>4 DEF EndInv, SameWindow
  <1>12. AssertInv'
    BY <1>1, <1>2 DEF AssertInv
  <1> QED
    BY <1>5, <1>6, <1>7, <1>8, <1>9, <1>10, <1>11, <1>12 DEF IInv

\* SDL_EVENT_WINDOW_RESIZED.
LEMMA ResizedKeeps ==
    ASSUME IInv, Resized
    PROVE  IInv'
  <1> DEFINE v == sc_screen_on_resize(win)
  <1>1. /\ mpc = "loop" /\ events # <<>> /\ Head(events).type = "resized" /\ Shows(v)
        /\ UNCHANGED <<mpc, sinkVars, fpsVars, timerVars, inputs, picture, failed>>
    BY DEF Resized, Takes
  <1>2. WindowOK(win)
    BY DEF IInv
  <1>3. WindowStep(win, v) /\ v.orientation = win.orientation /\ (v.shown => RectOK(v))
    <2>1. CASE win.shown
      <3>1. v = sc_screen_update_content_rect(win)
        BY <2>1 DEF sc_screen_on_resize
      <3>2. /\ WindowOK(v) /\ SameWindow(win, v) /\ SameFrame(win, v) /\ RectOK(v)
            /\ v.content = win.content
        BY <1>2, <3>1, RectUpdated
      <3> HIDE DEF v
      <3> QED
        BY <3>2 DEF WindowStep, FramesFollow, PauseOK, RectFollows, ContentOK, SameFrame
    <2>2. CASE ~win.shown
      <3>1. v = win
        BY <2>2 DEF sc_screen_on_resize
      <3>2. SameWindow(win, v) /\ SameFrame(win, v)
        BY <3>1 DEF SameWindow, SameFrame
      <3> QED
        BY <1>2, <2>2, <3>1, <3>2, SizeIsAStep
    <2> QED
      BY <2>1, <2>2
  <1> HIDE DEF v
  <1> QED
    BY <1>1, <1>3, WindowEventKeeps

\* SDL_EVENT_WINDOW_RESTORED and SDL_EVENT_WINDOW_LEAVE_FULLSCREEN.
LEMMA WindowedKeeps ==
    ASSUME IInv, Windowed
    PROVE  IInv'
  <1> DEFINE r == apply_pending_resize(win)
             v == IF is_windowed(win) THEN sc_screen_update_content_rect(r) ELSE win
  <1>1. /\ mpc = "loop" /\ events # <<>> /\ Head(events).type = "windowed" /\ Shows(v)
        /\ UNCHANGED <<mpc, sinkVars, fpsVars, timerVars, inputs, picture, failed>>
    BY DEF Windowed, Takes
  <1>2. WindowOK(win)
    BY DEF IInv
  <1>3. WindowStep(win, v) /\ v.orientation = win.orientation
    <2>1. CASE is_windowed(win)
      <3>1. WindowOK(r) /\ SameWindow(win, r) /\ SameFrame(win, r) /\ r.content = win.content
        BY <1>2, PendingApplied
      <3> HIDE DEF r
      <3>2. /\ WindowOK(v) /\ SameWindow(r, v) /\ SameFrame(r, v) /\ RectOK(v)
            /\ v.content = r.content
        BY <2>1, <3>1, RectUpdated
      <3> HIDE DEF v
      <3>3. SameWindow(win, v) /\ SameFrame(win, v) /\ v.content = win.content
        BY <3>1, <3>2 DEF SameWindow, SameFrame
      <3> QED
        BY <3>2, <3>3 DEF WindowStep, FramesFollow, PauseOK, RectFollows, ContentOK, SameFrame
    <2>2. CASE ~is_windowed(win)
      <3>1. v = win
        BY <2>2
      <3>2. SameWindow(win, v) /\ SameFrame(win, v)
        BY <3>1 DEF SameWindow, SameFrame
      <3> QED
        BY <1>2, <3>1, <3>2, SizeIsAStep
    <2> QED
      BY <2>1, <2>2
  <1> HIDE DEF v
  <1> QED
    BY <1>1, <1>3, WindowEventKeeps

\* An event that ends the loop, or comes after it.
LEMMA AfterLoopKeeps ==
    ASSUME IInv, NEW v, events # <<>>, Shows(v), mpc' \in {"interrupt", "wait", "hide"},
           UNCHANGED <<sinkVars, inputs, picture>>,
           WindowOK(v), v.orientation = win.orientation, v.frame = win.frame,
           v.resume = win.resume, v.paused = win.paused,
           fps' \in FpsTypes, fpc' \in {"none", "check", "locked", "sleep", "ended"},
           tpc' \in {"none", "icon", "timer", "ended"}, timer' \in BOOLEAN, failed' \in BOOLEAN,
           v.started <=> tpc' # "none",
           tpc' \in {"none", "icon"} => tpc \in {"none", "icon"},
           AssertInv'
    PROVE  IInv'
  <1>1. UNCHANGED <<fb, auto, dpc, open, pushed, inputs, picture>>
    BY DEF sinkVars
  <1>2. /\ VarsOK /\ WindowOK(win) /\ PictureInv /\ FrameInv /\ QueueInv /\ AnnouncedInv
        /\ EndInv /\ AssertInv /\ events \in Seq(Events)
    BY DEF IInv, VarsOK
  <1>3. win' = v /\ events' \in Seq(Events)
    BY <1>2, Shown
  <1>4. VarsOK'
    BY <1>1, <1>2, <1>3 DEF VarsOK
  <1>5. WindowOK(win)' /\ PictureInv'
    BY <1>1, <1>2, <1>3 DEF PictureInv
  <1>6. FrameInv'
    BY <1>1, <1>2, <1>3 DEF FrameInv, PauseOK
  <1>7. QueueInv'
    BY <1>1, QueueShown
  <1>8. AnnouncedInv'
    BY DEF AnnouncedInv
  <1>9. EndInv'
    BY <1>1, <1>2, <1>3 DEF EndInv
  <1> QED
    BY <1>4, <1>5, <1>6, <1>7, <1>8, <1>9 DEF IInv

\* SC_EVENT_DEVICE_DISCONNECTED.
LEMMA DeviceDisconnectedKeeps ==
    ASSUME IInv, DeviceDisconnected
    PROVE  IInv'
  <1> DEFINE bare == [win EXCEPT !.disconnected = TRUE, !.tex = "none"]
             alone == sc_screen_update_content_rect(bare)
             hidden == [win EXCEPT !.disconnected = TRUE]
             begun == [alone EXCEPT !.started = TRUE]
  <1>1. /\ mpc = "loop" /\ events # <<>> /\ mpc' = "interrupt"
        /\ failed' = (failed \/ win.disconnected)
        /\ UNCHANGED <<sinkVars, timer, inputs, picture>>
    BY DEF DeviceDisconnected, Takes
  <1>2. /\ VarsOK /\ WindowOK(win) /\ EndInv /\ AssertInv /\ win \in Windows
        /\ win.started = FALSE /\ win.disconnected = FALSE /\ tpc = "none"
    <2>1. VarsOK /\ WindowOK(win) /\ EndInv /\ AssertInv /\ win \in Windows
      BY DEF IInv, WindowOK
    <2>2. win.started \in BOOLEAN /\ win.disconnected \in BOOLEAN
      BY <2>1 DEF Windows
    <2> QED
      BY <1>1, <2>1, <2>2 DEF EndInv
  <1>3. \/ /\ Shows(hidden) /\ UNCHANGED <<fpsVars, tpc>>
        \/ /\ sc_fps_counter_stop \/ UNCHANGED fpsVars
           /\ \/ Shows(begun) /\ tpc' = "icon"
              \/ Shows(alone) /\ UNCHANGED tpc
    BY DEF DeviceDisconnected, sc_disconnect_start
  <1>4. /\ WindowOK(hidden) /\ hidden.orientation = win.orientation /\ hidden.frame = win.frame
        /\ hidden.resume = win.resume /\ hidden.paused = win.paused /\ hidden.started = FALSE
    <2>1. hidden \in Windows
      BY <1>2 DEF Windows
    <2>2. /\ hidden.orientation = win.orientation /\ hidden.frame = win.frame
          /\ hidden.frameSize = win.frameSize /\ hidden.resume = win.resume
          /\ hidden.resumeSize = win.resumeSize /\ hidden.paused = win.paused
          /\ hidden.pending = win.pending /\ hidden.windowed = win.windowed
          /\ hidden.shown = win.shown /\ hidden.started = win.started
      BY <1>2 DEF Windows
    <2> HIDE DEF hidden
    <2> QED
      BY <1>2, <2>1, <2>2 DEF WindowOK
  <1>5. WindowOK(bare) /\ SameFrame(win, bare) /\ bare.started = FALSE
    <2>1. bare \in Windows
      BY <1>2 DEF Windows
    <2>2. /\ SameFrame(win, bare) /\ bare.pending = win.pending /\ bare.windowed = win.windowed
          /\ bare.shown = win.shown /\ bare.started = win.started
      BY <1>2 DEF Windows, SameFrame
    <2> HIDE DEF bare
    <2> QED
      BY <1>2, <2>1, <2>2 DEF WindowOK, SameFrame
  <1> HIDE DEF bare
  <1>6. WindowOK(alone) /\ SameFrame(win, alone) /\ alone.started = FALSE
    <2>1. WindowOK(alone) /\ SameWindow(bare, alone) /\ SameFrame(bare, alone)
      BY <1>5, RectUpdated
    <2> HIDE DEF alone
    <2> QED
      BY <1>5, <2>1 DEF SameWindow, SameFrame
  <1> HIDE DEF alone
  <1>7. WindowOK(begun) /\ SameFrame(win, begun) /\ begun.started = TRUE
    <2>1. begun \in Windows
      BY <1>6 DEF WindowOK, Windows
    <2>2. /\ SameFrame(alone, begun) /\ begun.pending = alone.pending
          /\ begun.windowed = alone.windowed /\ begun.shown = alone.shown /\ begun.started = TRUE
      BY <1>6 DEF WindowOK, Windows, SameFrame
    <2> HIDE DEF begun
    <2> QED
      BY <1>6, <2>1, <2>2 DEF WindowOK, SameFrame
  <1> HIDE DEF hidden, begun
  <1>8. fps' \in FpsTypes /\ fpc' \in {"none", "check", "locked", "sleep", "ended"}
    BY <1>2, <1>3, FpsOperations
  <1>9. failed' = failed /\ failed \in BOOLEAN /\ timer' \in BOOLEAN
    BY <1>1, <1>2 DEF VarsOK
  <1>10. AssertInv'
    BY <1>1, <1>2, <1>9 DEF AssertInv
  <1>11. CASE Shows(hidden) /\ UNCHANGED tpc
    BY <1>1, <1>2, <1>4, <1>8, <1>9, <1>10, <1>11, AfterLoopKeeps
  <1>12. CASE Shows(begun) /\ tpc' = "icon"
    BY <1>1, <1>2, <1>7, <1>8, <1>9, <1>10, <1>12, AfterLoopKeeps DEF SameFrame
  <1>13. CASE Shows(alone) /\ UNCHANGED tpc
    BY <1>1, <1>2, <1>6, <1>8, <1>9, <1>10, <1>13, AfterLoopKeeps DEF SameFrame
  <1> QED
    BY <1>3, <1>11, <1>12, <1>13

\* SDL_EVENT_QUIT, or an error.
LEMMA QuitLoopKeeps ==
    ASSUME IInv, QuitLoop
    PROVE  IInv'
  <1>1. /\ mpc = "loop" /\ events # <<>> /\ mpc' = "interrupt" /\ Shows(win)
        /\ UNCHANGED <<sinkVars, fps, fpc, tpc, timer, inputs, picture, failed>>
    BY DEF QuitLoop, Takes, fpsVars, timerVars
  <1>2. VarsOK /\ WindowOK(win) /\ EndInv /\ AssertInv
    BY DEF IInv
  <1>3. AssertInv'
    BY <1>1, <1>2 DEF AssertInv
  <1>4. /\ fps' \in FpsTypes /\ fpc' \in {"none", "check", "locked", "sleep", "ended"}
        /\ tpc' \in {"none", "icon", "timer", "ended"} /\ timer' \in BOOLEAN /\ failed' \in BOOLEAN
    BY <1>1, <1>2 DEF VarsOK
  <1>5. win.started <=> tpc' # "none"
    BY <1>1, <1>2 DEF EndInv
  <1> QED
    BY <1>1, <1>2, <1>3, <1>4, <1>5, AfterLoopKeeps

\* sc_screen_handle_disconnection(): one event.
LEMMA HandleDisconnectionKeeps ==
    ASSUME IInv, HandleDisconnection
    PROVE  IInv'
  <1> DEFINE u == [win EXCEPT !.tex = "icon", !.content = <<1, 1>>]
             icon == sc_screen_update_content_rect(u)
             v == IF Takes("icon") THEN icon ELSE win
  <1>1. /\ mpc = "wait" /\ events # <<>> /\ mpc' \in {"hide", "wait"} /\ Shows(v)
        /\ timer' = (timer \/ Takes("quit"))
        /\ sc_fps_counter_stop \/ UNCHANGED fpsVars
        /\ UNCHANGED <<sinkVars, tpc, inputs, picture, failed>>
    BY DEF HandleDisconnection, sc_disconnect_interrupt
  <1>2. /\ VarsOK /\ WindowOK(win) /\ EndInv /\ AssertInv /\ win \in Windows
        /\ <<1, 1>> \in PosSize
    BY DEF IInv, WindowOK, PosSize
  <1>3. u \in Windows
    BY <1>2 DEF Windows
  <1>4. /\ SameFrame(win, u) /\ SameWindow(win, u)
        /\ u.pending = win.pending /\ u.windowed = win.windowed
    BY <1>2 DEF Windows, SameFrame, SameWindow
  <1> HIDE DEF u
  <1>5. WindowOK(u)
    BY <1>2, <1>3, <1>4 DEF WindowOK, SameFrame, SameWindow
  <1>6. WindowOK(icon) /\ SameWindow(u, icon) /\ SameFrame(u, icon)
    BY <1>5, RectUpdated
  <1> HIDE DEF icon
  <1>7. WindowOK(v) /\ SameWindow(win, v) /\ SameFrame(win, v)
    BY <1>2, <1>4, <1>6 DEF SameFrame, SameWindow
  <1> HIDE DEF v
  <1>8. /\ fps' \in FpsTypes /\ fpc' \in {"none", "check", "locked", "sleep", "ended"}
        /\ (fps.thread => fps.interrupted) => (fps'.thread => fps'.interrupted)
    <2>1. fps \in FpsTypes /\ (sc_fps_counter_stop => fps' = [fps EXCEPT !.started = FALSE])
      BY <1>2 DEF VarsOK, sc_fps_counter_stop
    <2>2. (fps.thread => fps.interrupted) => (fps'.thread => fps'.interrupted)
      BY <1>1, <2>1 DEF FpsTypes, fpsVars
    <2> QED
      BY <1>1, <1>2, <2>2, FpsOperations
  <1>9. AssertInv'
    BY <1>1, <1>2, <1>8 DEF AssertInv
  <1>10. /\ tpc' \in {"none", "icon", "timer", "ended"} /\ failed' \in BOOLEAN
         /\ tpc' \in {"none", "icon"} => tpc \in {"none", "icon"}
    BY <1>1, <1>2 DEF VarsOK
  <1>11. v.started <=> tpc' # "none"
    BY <1>1, <1>2, <1>7 DEF EndInv, SameWindow
  <1>12. timer' \in BOOLEAN
    BY <1>1
  <1> QED
    BY <1>1, <1>7, <1>8, <1>9, <1>10, <1>11, <1>12, AfterLoopKeeps DEF SameFrame

-----------------------------------------------------------------------------
(* The user.                                                                *)

\* A change of the window by a shortcut, by the user or by the system.
LEMMA InputKeeps ==
    ASSUME IInv, InputEnabled, WindowStep(win, win'), events' = events \o WindowEvents(win'),
           picture' = Drawn(win'.orientation), inputs' \in 0 .. MaxInputs,
           fps' \in FpsTypes, fpc' \in {"none", "check", "locked", "sleep", "ended"},
           UNCHANGED <<mpc, sinkVars, timerVars, failed>>, AssertInv'
    PROVE  IInv'
  <1>1. /\ UNCHANGED <<mpc, fb, auto, dpc, open, pushed, tpc, timer, failed>>
        /\ mpc \in {"loop", "wait"} /\ win.shown
    BY DEF InputEnabled, sinkVars, timerVars
  <1>2. /\ VarsOK /\ WindowOK(win) /\ PictureInv /\ FrameInv /\ QueueInv /\ AnnouncedInv
        /\ EndInv /\ events \in Seq(Events)
    BY DEF IInv, VarsOK
  <1>3. /\ WindowOK(win') /\ SameWindow(win, win') /\ FramesFollow(win, win')
        /\ RectFollows(win, win') /\ (ContentOK(win) => ContentOK(win'))
    BY DEF WindowStep
  <1>4. /\ events' \in Seq(Events)
        /\ \A type : Has(events, type) => Has(events', type)
        /\ \A type : type \notin {"resized", "windowed"} /\ Has(events', type) => Has(events, type)
        /\ \A type : type \notin {"resized", "windowed"} /\ Once(events, type) => Once(events', type)
        /\ win'.window # win.window => Has(events', "resized")
        /\ OpensOK(events) => OpensOK(events')
    BY <1>2, WindowEventsPosted
  <1>5. VarsOK'
    BY <1>1, <1>2, <1>4 DEF VarsOK
  <1>6. PictureInv'
    <2>1. RectOK(win) => RectOK(win') \/ win'.window # win.window
      BY <1>3 DEF RectFollows, SameRect, SameWindow, RectOK
    <2> QED
      BY <1>1, <1>2, <1>3, <1>4, <2>1 DEF PictureInv
  <1>7. FrameInv'
    BY <1>1, <1>2, <1>3, FramesShown
  <1>8. QueueInv'
    BY <1>1, <1>2, <1>4 DEF QueueInv
  <1>9. AnnouncedInv'
    <2>1. mpc = "loop" => dpc # "new"
      BY <1>1, <1>2 DEF AnnouncedInv
    <2> QED
      BY <1>1, <1>2, <1>3, <1>4, <2>1 DEF AnnouncedInv, SameWindow
  <1>10. EndInv'
    BY <1>1, <1>2, <1>3 DEF EndInv, SameWindow
  <1> QED
    BY <1>3, <1>5, <1>6, <1>7, <1>8, <1>9, <1>10 DEF IInv

\* A shortcut.
LEMMA KeyKeeps ==
    ASSUME IInv, NEW key \in Keys, Key(key)
    PROVE  IInv'
  <1>1. /\ InputEnabled /\ win' = Reaction(key) /\ events' = events \o WindowEvents(win')
        /\ (key = "fps" => mpc = "loop" \/ LateFps) /\ inputs' = inputs + 1
        /\ picture' = IF key \in Turns THEN [c \in Corners |-> Moved(key, picture[c])] ELSE picture
        /\ UNCHANGED <<mpc, sinkVars, timerVars, failed>>
    BY DEF Key, Turns
  <1>2. sc_fps_counter_start \/ sc_fps_counter_stop \/ UNCHANGED fpsVars
    BY DEF Key, switch_fps_counter_state
  <1>3. /\ VarsOK /\ WindowOK(win) /\ PictureInv /\ AssertInv /\ win.shown
        /\ win.orientation \in 0 .. 7 /\ inputs < MaxInputs
    BY <1>1 DEF IInv, InputEnabled, WindowOK, Windows
  <1>4. /\ WindowStep(win, win')
        /\ win'.orientation =
              IF key \in Turns THEN sc_orientation_apply(win.orientation, TransformOf(key))
                               ELSE win.orientation
    BY <1>1, <1>3, Reacted
  <1>5. picture' = Drawn(win'.orientation)
    <2>1. CASE key \in Turns
      BY <1>1, <1>3, <1>4, <2>1, DrawnFollows DEF PictureInv
    <2>2. CASE key \notin Turns
      BY <1>1, <1>3, <1>4, <2>2 DEF PictureInv
    <2> QED
      BY <2>1, <2>2
  <1>6. inputs' \in 0 .. MaxInputs
    BY <1>1, <1>3, SizesAssumption DEF VarsOK
  <1>7. fps' \in FpsTypes /\ fpc' \in {"none", "check", "locked", "sleep", "ended"}
    BY <1>2, <1>3, FpsOperations
  <1>8. AssertInv'
    <2>1. CASE key = "fps"
      BY <1>1, <1>3, <2>1 DEF AssertInv
    <2>2. CASE key # "fps"
      <3>1. UNCHANGED fps
        BY <2>2 DEF Key, fpsVars
      <3> QED
        BY <1>1, <1>3, <3>1 DEF AssertInv
    <2> QED
      BY <2>1, <2>2
  <1> QED
    BY <1>1, <1>4, <1>5, <1>6, <1>7, <1>8, InputKeeps

\* The user resizes the window.
LEMMA WindowChangesKeeps ==
    ASSUME IInv, NEW size \in UserSizes, WindowChanges(size)
    PROVE  IInv'
  <1>1. /\ InputEnabled /\ inputs' = inputs + 1 /\ win' = [win EXCEPT !.window = size]
        /\ events' = events \o WindowEvents(win')
        /\ UNCHANGED <<mpc, sinkVars, timerVars, failed>> /\ UNCHANGED <<fps, fpc, picture>>
    BY DEF WindowChanges, fpsVars
  <1>2. /\ VarsOK /\ WindowOK(win) /\ PictureInv /\ AssertInv /\ win \in Windows
        /\ inputs < MaxInputs /\ size \in PosSize
    BY <1>1, SizesAssumption DEF IInv, InputEnabled, WindowOK, PosSize
  <1>3. win' \in Windows
    BY <1>1, <1>2 DEF Windows
  <1>4. /\ SameWindow(win, win') /\ SameFrame(win, win')
        /\ win'.content = win.content /\ win'.rect = win.rect
        /\ win'.pending = win.pending /\ win'.windowed = win.windowed
    BY <1>1, <1>2 DEF Windows, SameWindow, SameFrame
  <1>5. WindowOK(win')
    BY <1>2, <1>3, <1>4 DEF WindowOK, SameWindow, SameFrame
  <1>6. WindowStep(win, win') /\ win'.orientation = win.orientation
    BY <1>4, <1>5, SizeIsAStep
  <1>7. picture' = Drawn(win'.orientation)
    BY <1>1, <1>2, <1>6 DEF PictureInv
  <1>8. /\ inputs' \in 0 .. MaxInputs /\ fps' \in FpsTypes
        /\ fpc' \in {"none", "check", "locked", "sleep", "ended"}
    BY <1>1, <1>2, SizesAssumption, SMTT(30) DEF VarsOK
  <1>9. AssertInv'
    BY <1>1, <1>2 DEF AssertInv
  <1> QED
    BY <1>1, <1>6, <1>7, <1>8, <1>9, InputKeeps

\* SDL_EVENT_WINDOW_EXPOSED.
LEMMA ExposedKeeps ==
    ASSUME IInv, Exposed
    PROVE  IInv'
  <1>1. /\ InputEnabled /\ win' = sc_screen_update_content_rect(win)
        /\ UNCHANGED <<mpc, sinkVars, timerVars, failed>>
        /\ UNCHANGED <<fps, fpc, events, inputs, picture>>
    BY DEF Exposed, fpsVars
  <1>2. VarsOK /\ WindowOK(win) /\ PictureInv /\ AssertInv
    BY DEF IInv
  <1>3. /\ WindowOK(win') /\ SameWindow(win, win') /\ SameFrame(win, win') /\ RectOK(win')
        /\ win'.content = win.content /\ win'.window = win.window /\ win'.mode = win.mode
    BY <1>1, <1>2, RectUpdated
  <1>4. WindowStep(win, win')
    BY <1>3 DEF WindowStep, FramesFollow, PauseOK, RectFollows, ContentOK, SameFrame
  <1>5. events' = events \o WindowEvents(win')
    <2>1. WindowEvents(win') = <<>> \o <<>>
      BY <1>3 DEF WindowEvents
    <2> QED
      BY <1>1, <1>2, <2>1 DEF VarsOK
  <1>6. picture' = Drawn(win'.orientation)
    BY <1>1, <1>2, <1>3 DEF PictureInv, SameFrame
  <1>7. /\ inputs' \in 0 .. MaxInputs /\ fps' \in FpsTypes
        /\ fpc' \in {"none", "check", "locked", "sleep", "ended"}
    BY <1>1, <1>2 DEF VarsOK
  <1>8. AssertInv'
    BY <1>1, <1>2 DEF AssertInv
  <1> QED
    BY <1>1, <1>4, <1>5, <1>6, <1>7, <1>8, InputKeeps

-----------------------------------------------------------------------------
(* Events posted by the other threads and by the system.                    *)

\* An event that brings neither a frame nor a window nor an icon.
LEMMA OtherPosted ==
    ASSUME IInv, NEW e \in Events, e.type \in {"quit", "disconnected", "error", "timeout"},
           events' = events \/ events' = Append(events, e),
           UNCHANGED <<win, mpc, fb, auto, pushed, fps, fpc, picture, failed>>,
           inputs' \in 0 .. MaxInputs, timer' = timer, open' \in BOOLEAN,
           \/ UNCHANGED <<dpc, open, tpc>> /\ (dpc = "new" => e.type = "quit")
           \/ dpc # "new" /\ dpc' = "closed" /\ ~open' /\ UNCHANGED tpc
           \/ tpc = "timer" /\ tpc' = "ended" /\ UNCHANGED <<dpc, open>>
    PROVE  IInv'
  <1>1. /\ VarsOK /\ WindowOK(win) /\ PictureInv /\ FrameInv /\ QueueInv /\ AnnouncedInv
        /\ EndInv /\ AssertInv /\ events \in Seq(Events)
    BY DEF IInv, VarsOK
  <1>2. /\ events' \in Seq(Events)
        /\ \A type : type # e.type => (Has(events', type) <=> Has(events, type))
        /\ \A type : type # e.type /\ Once(events, type) => Once(events', type)
        /\ OpensOK(events) => OpensOK(events')
        /\ events # <<>> => events' # <<>> /\ Head(events') = Head(events)
    <2>1. CASE events' = events
      BY <1>1, <2>1
    <2>2. CASE events' = Append(events, e)
      <3>1. e.type # "open"
        OBVIOUS
      <3> QED
        BY <1>1, <2>2, <3>1, Posted
    <2> QED
      BY <2>1, <2>2
  <1>3. dpc' \in {dpc, "closed"} /\ (dpc' = "new" => dpc = "new") /\ tpc' \in {tpc, "ended"}
    BY DEF IInv
  <1>4. VarsOK'
    BY <1>1, <1>2, <1>3 DEF VarsOK
  <1>5. WindowOK(win)' /\ PictureInv'
    BY <1>1, <1>2 DEF PictureInv
  <1>6. FrameInv'
    BY <1>1, <1>3 DEF FrameInv
  <1>7. QueueInv'
    <2>1. /\ OpensOK(events') /\ Once(events', "open") /\ Once(events', "icon")
          /\ (Has(events', "open") <=> Has(events, "open"))
          /\ (Has(events', "frame") <=> Has(events, "frame"))
          /\ (Has(events', "icon") <=> Has(events, "icon"))
      BY <1>1, <1>2 DEF QueueInv
    <2> QED
      BY <1>1, <1>3, <2>1 DEF QueueInv
  <1>8. AnnouncedInv'
    <2> SUFFICES ASSUME mpc = "loop" PROVE AnnouncedInv'
      BY DEF AnnouncedInv
    <2>1. Once(events', "frame") /\ (Has(events', "frame") <=> Has(events, "frame"))
      BY <1>1, <1>2 DEF AnnouncedInv
    <2>2. tpc = "none"
      BY <1>1 DEF EndInv
    <2>3. dpc' = "new" => \A i \in DOMAIN events' : events'[i].type = "quit"
      <3> SUFFICES ASSUME dpc' = "new" PROVE \A i \in DOMAIN events' : events'[i].type = "quit"
        OBVIOUS
      <3>1. dpc = "new" /\ e.type = "quit" /\ \A i \in DOMAIN events : events[i].type = "quit"
        BY <1>1, <1>3, <2>2 DEF AnnouncedInv
      <3>2. CASE events' = events
        BY <3>1, <3>2
      <3>3. CASE events' = Append(events, e)
        <4>1. \A i \in DOMAIN events' : (i \in DOMAIN events /\ events'[i] = events[i])
                                            \/ events'[i] = e
          BY <1>1, <3>3
        <4> QED
          BY <3>1, <4>1
      <3> QED
        BY <3>2, <3>3
    <2> QED
      BY <1>1, <1>2, <1>3, <2>1, <2>3 DEF AnnouncedInv
  <1>9. EndInv'
    <2>1. /\ Has(events', "open") <=> Has(events, "open")
      BY <1>2
    <2>2. /\ Has(events', "icon") <=> Has(events, "icon")
      BY <1>2
    <2> QED
      BY <1>1, <2>1, <2>2 DEF EndInv
  <1>10. AssertInv'
    BY <1>1 DEF AssertInv
  <1> QED
    BY <1>4, <1>5, <1>6, <1>7, <1>8, <1>9, <1>10 DEF IInv

\* The types of the events without data.
LEMMA EventIs ==
    ASSUME NEW type \in {"frame", "resized", "windowed", "disconnected", "quit", "error", "icon",
                         "timeout"}
    PROVE  Event(type) \in Events /\ Event(type).type = type
  BY DEF Event, Events, NoSize

\* The user quits.
LEMMA QuitKeeps ==
    ASSUME IInv, Quit
    PROVE  IInv'
  <1>1. /\ events' = Append(events, Event("quit")) /\ inputs' = MaxInputs
        /\ UNCHANGED <<win, mpc, fb, auto, pushed, fps, fpc, picture, failed>>
        /\ UNCHANGED <<dpc, open, tpc>> /\ timer' = timer
    BY DEF Quit, sinkVars, fpsVars, timerVars
  <1>2. inputs' \in 0 .. MaxInputs /\ open' \in BOOLEAN
    BY <1>1, SizesAssumption DEF IInv, VarsOK
  <1> QED
    BY <1>1, <1>2, EventIs, OtherPosted

\* The decoder thread ends, and posts how.
LEMMA SinkCloseKeeps ==
    ASSUME IInv, SinkClose
    PROVE  IInv'
  <1>1. /\ \/ events' = Append(events, Event("disconnected"))
           \/ events' = Append(events, Event("error"))
        /\ UNCHANGED <<win, mpc, fb, auto, pushed, fps, fpc, picture, failed>>
        /\ dpc # "new" /\ dpc' = "closed" /\ open' = FALSE /\ UNCHANGED tpc /\ timer' = timer
        /\ UNCHANGED inputs
    BY DEF SinkClose, sc_video_demuxer_on_ended, sc_push_event, fpsVars, timerVars
  <1>2. inputs' \in 0 .. MaxInputs /\ open' \in BOOLEAN /\ ~open'
    BY <1>1 DEF IInv, VarsOK
  <1>3. CASE events' = Append(events, Event("disconnected"))
    BY <1>1, <1>2, <1>3, EventIs, OtherPosted
  <1>4. CASE events' = Append(events, Event("error"))
    BY <1>1, <1>2, <1>4, EventIs, OtherPosted
  <1> QED
    BY <1>1, <1>3, <1>4

\* The timer ends.
LEMMA TimerEndsKeeps ==
    ASSUME IInv, TimerEnds
    PROVE  IInv'
  <1>1. /\ events' = events \/ events' = Append(events, Event("timeout"))
        /\ UNCHANGED <<win, mpc, fb, auto, pushed, fps, fpc, picture, failed>>
        /\ tpc = "timer" /\ tpc' = "ended" /\ UNCHANGED <<dpc, open>> /\ timer' = timer
        /\ UNCHANGED inputs
    BY DEF TimerEnds, sinkVars, fpsVars
  <1>2. inputs' \in 0 .. MaxInputs /\ open' \in BOOLEAN
    BY <1>1 DEF IInv, VarsOK
  <1> QED
    BY <1>1, <1>2, EventIs, OtherPosted

\* The icon is loaded, while nobody can have posted another.
LEMMA LoadIconKeeps ==
    ASSUME IInv, LoadIcon
    PROVE  IInv'
  <1>1. /\ events' = events \/ events' = Append(events, Event("icon"))
        /\ UNCHANGED <<win, mpc, fb, auto, dpc, open, pushed, fps, fpc, timer, inputs, picture, failed>>
        /\ tpc = "icon" /\ tpc' = "timer"
    BY DEF LoadIcon, sinkVars, fpsVars
  <1>2. /\ VarsOK /\ WindowOK(win) /\ PictureInv /\ FrameInv /\ QueueInv /\ AnnouncedInv
        /\ EndInv /\ AssertInv /\ events \in Seq(Events)
    BY DEF IInv, VarsOK
  <1>3. mpc \notin {"loop", "destroy", "ended"}
    BY <1>1, <1>2 DEF EndInv
  <1>4. /\ events' \in Seq(Events) /\ OpensOK(events')
        /\ Once(events', "open") /\ Once(events', "icon")
        /\ (Has(events', "open") <=> Has(events, "open"))
        /\ (Has(events', "frame") <=> Has(events, "frame"))
    <2>1. /\ OpensOK(events) /\ Once(events, "open") /\ Once(events, "icon")
          /\ ~Has(events, "icon")
      BY <1>1, <1>2 DEF QueueInv
    <2>2. CASE events' = Append(events, Event("icon"))
      BY <1>2, <2>1, <2>2, EventIs, Posted
    <2> QED
      BY <1>1, <1>2, <2>1, <2>2
  <1>5. VarsOK'
    BY <1>1, <1>2, <1>4 DEF VarsOK
  <1>6. WindowOK(win)' /\ PictureInv'
    BY <1>1, <1>2, <1>3 DEF PictureInv
  <1>7. FrameInv'
    BY <1>1, <1>2 DEF FrameInv
  <1>8. QueueInv'
    BY <1>1, <1>2, <1>4 DEF QueueInv
  <1>9. AnnouncedInv'
    BY <1>1, <1>3 DEF AnnouncedInv
  <1>10. EndInv'
    BY <1>1, <1>2, <1>3 DEF EndInv
  <1>11. AssertInv'
    BY <1>1, <1>2 DEF AssertInv
  <1> QED
    BY <1>5, <1>6, <1>7, <1>8, <1>9, <1>10, <1>11 DEF IInv

-----------------------------------------------------------------------------
(* The decoder thread.                                                      *)

\* sc_screen_frame_sink_open(): the only event that opens the window, and it
\* comes before any frame.
LEMMA SinkOpenKeeps ==
    ASSUME IInv, NEW size \in FirstSizes, SinkOpen(size)
    PROVE  IInv'
  <1> DEFINE e == [type |-> "open", size |-> size]
  <1>1. /\ dpc = "new"
        /\ \/ events' = Append(events, e) /\ open' = TRUE /\ dpc' = "open"
           \/ dpc' = "failed" /\ UNCHANGED <<events, open>>
        /\ UNCHANGED <<win, mpc, fb, auto, pushed, fps, fpc, tpc, timer, inputs, picture, failed>>
    BY DEF SinkOpen, sc_push_event, fpsVars, timerVars
  <1>2. /\ VarsOK /\ WindowOK(win) /\ PictureInv /\ FrameInv /\ QueueInv /\ AnnouncedInv
        /\ EndInv /\ AssertInv /\ events \in Seq(Events)
    BY DEF IInv, VarsOK
  <1>3. size \in PosSize /\ e \in Events /\ e.type = "open" /\ e.size = size
    BY SizesAssumption DEF PosSize, Events
  <1>4. mpc \notin {"joinScreen", "destroy", "ended"} /\ fb.id = 0
        /\ ~Has(events, "open") /\ ~Has(events, "frame")
    BY <1>1, <1>2 DEF EndInv, FrameInv, QueueInv
  <1> HIDE DEF e
  <1>5. /\ events' \in Seq(Events) /\ OpensOK(events')
        /\ Once(events', "open") /\ Once(events', "icon")
        /\ (Once(events, "frame") => Once(events', "frame")) /\ ~Has(events', "frame")
        /\ (Has(events', "icon") <=> Has(events, "icon"))
        /\ (Has(events', "resized") <=> Has(events, "resized"))
    <2>1. OpensOK(events) /\ Once(events, "open") /\ Once(events, "icon")
      BY <1>2 DEF QueueInv
    <2>2. CASE events' = Append(events, e)
      BY <1>2, <1>3, <1>4, <2>1, <2>2, Posted
    <2>3. CASE events' = events
      BY <1>2, <1>4, <2>1, <2>3
    <2> QED
      BY <1>1, <2>2, <2>3
  <1>6. VarsOK'
    BY <1>1, <1>2, <1>5, ZenonT(60) DEF VarsOK
  <1>7. WindowOK(win)' /\ PictureInv'
    BY <1>1, <1>2, <1>5 DEF PictureInv
  <1>8. FrameInv'
    BY <1>1, <1>2 DEF FrameInv
  <1>9. QueueInv'
    BY <1>1, <1>2, <1>5 DEF QueueInv
  <1>10. AnnouncedInv'
    <2> SUFFICES ASSUME mpc = "loop" PROVE AnnouncedInv'
      BY <1>1 DEF AnnouncedInv
    <2>1. dpc' = "open" => events' # <<>> /\ Head(events').type \in {"open", "quit"}
      <3> SUFFICES ASSUME events' = Append(events, e)
                   PROVE  events' # <<>> /\ Head(events').type \in {"open", "quit"}
        BY <1>1
      <3>1. CASE events = <<>>
        BY <1>2, <1>3, <3>1, Posted
      <3>2. CASE events # <<>>
        <4>1. Head(events).type = "quit"
          BY <1>1, <1>2, <3>2, Taken DEF AnnouncedInv
        <4> QED
          BY <1>2, <1>3, <3>2, <4>1, Posted
      <3> QED
        BY <3>1, <3>2
    <2> QED
      BY <1>1, <1>2, <1>4, <1>5, <2>1 DEF AnnouncedInv
  <1>11. EndInv'
    BY <1>1, <1>2, <1>4 DEF EndInv
  <1>12. AssertInv'
    BY <1>1, <1>2 DEF AssertInv
  <1> QED
    BY <1>6, <1>7, <1>8, <1>9, <1>10, <1>11, <1>12 DEF IInv

\* sc_screen_frame_sink_push(): the newest frame is pending, and is announced
\* unless the one it replaces was.
LEMMA SinkPushKeeps ==
    ASSUME IInv, NEW size \in Sizes, NEW resized \in BOOLEAN, SinkPush(size, resized)
    PROVE  IInv'
  <1>1. /\ dpc = "open" /\ pushed < MaxFrames /\ pushed' = pushed + 1
        /\ fb' = [id |-> pushed + 1, size |-> size] /\ auto' = ~resized
        /\ dpc' = IF fb.id # 0 THEN "open" ELSE "post"
        /\ UNCHANGED <<win, mpc, events, open, fps, fpc, tpc, timer, inputs, picture, failed>>
    BY DEF SinkPush, sc_frame_buffer_push, fpsVars, timerVars
  <1>2. /\ VarsOK /\ WindowOK(win) /\ PictureInv /\ FrameInv /\ QueueInv /\ AnnouncedInv
        /\ EndInv /\ AssertInv
    BY DEF IInv
  <1>3. /\ size \in PosSize /\ size \in Nat \X Nat /\ pushed \in Nat
        /\ win.frame \in Nat /\ win.resume \in Nat
    BY <1>2, SizesAssumption DEF PosSize, VarsOK, WindowOK, Windows
  <1>4. /\ fb'.id = pushed + 1 /\ fb'.size = size /\ pushed + 1 \in 0 .. MaxFrames
        /\ fb' \in [id : Nat, size : Nat \X Nat] /\ auto' \in BOOLEAN
    BY <1>1, <1>3, SizesAssumption
  <1>5. VarsOK'
    BY <1>1, <1>2, <1>4 DEF VarsOK
  <1>6. WindowOK(win)' /\ PictureInv'
    BY <1>1, <1>2 DEF PictureInv
  <1>7. FrameInv'
    <2>1. win.frame <= pushed /\ win.resume <= pushed
      BY <1>2 DEF FrameInv
    <2>2. /\ win.frame <= pushed + 1 /\ win.resume <= pushed + 1
          /\ win.frame < pushed + 1 /\ win.resume < pushed + 1 /\ pushed + 1 <= pushed + 1
      BY <1>3, <2>1
    <2> QED
      BY <1>1, <1>2, <1>3, <1>4, <2>2 DEF FrameInv
  <1>8. QueueInv'
    BY <1>1, <1>2 DEF QueueInv
  <1>9. AnnouncedInv'
    <2>1. fb'.id # 0
      BY <1>3, <1>4
    <2> QED
      BY <1>1, <1>2, <2>1 DEF AnnouncedInv
  <1>10. EndInv'
    BY <1>1, <1>2 DEF EndInv
  <1>11. AssertInv'
    BY <1>1, <1>2 DEF AssertInv
  <1> QED
    BY <1>5, <1>6, <1>7, <1>8, <1>9, <1>10, <1>11 DEF IInv

\* The event of the frame, or a failure to post it.
LEMMA SinkPostKeeps ==
    ASSUME IInv, SinkPost
    PROVE  IInv'
  <1>1. /\ dpc = "post"
        /\ \/ events' = Append(events, Event("frame")) /\ dpc' = "open"
           \/ dpc' = "failed" /\ UNCHANGED events
        /\ UNCHANGED <<win, mpc, fb, auto, open, pushed, fps, fpc, tpc, timer, inputs, picture, failed>>
    BY DEF SinkPost, sc_push_event, fpsVars, timerVars
  <1>2. /\ VarsOK /\ WindowOK(win) /\ PictureInv /\ FrameInv /\ QueueInv /\ AnnouncedInv
        /\ EndInv /\ AssertInv /\ events \in Seq(Events)
    BY DEF IInv, VarsOK
  <1>3. mpc \notin {"joinScreen", "destroy", "ended"}
    BY <1>1, <1>2 DEF EndInv
  <1>4. /\ events' \in Seq(Events) /\ OpensOK(events')
        /\ Once(events', "open") /\ Once(events', "icon")
        /\ (Has(events', "icon") <=> Has(events, "icon"))
        /\ (Has(events', "resized") <=> Has(events, "resized"))
        /\ (events # <<>> => events' # <<>> /\ Head(events') = Head(events))
        /\ (~Has(events, "frame") => Once(events', "frame"))
        /\ (dpc' = "open" => Has(events', "frame"))
    <2>1. OpensOK(events) /\ Once(events, "open") /\ Once(events, "icon")
      BY <1>2 DEF QueueInv
    <2>2. ~Has(events, "frame") => Once(events, "frame")
      BY DEF Has, Once
    <2>3. CASE events' = Append(events, Event("frame"))
      BY <1>2, <2>1, <2>2, <2>3, EventIs, Posted
    <2>4. CASE events' = events /\ dpc' = "failed"
      BY <1>2, <2>1, <2>2, <2>4
    <2> QED
      BY <1>1, <2>3, <2>4
  <1>5. VarsOK'
    BY <1>1, <1>2, <1>4 DEF VarsOK
  <1>6. WindowOK(win)' /\ PictureInv'
    BY <1>1, <1>2, <1>4 DEF PictureInv
  <1>7. FrameInv'
    BY <1>1, <1>2 DEF FrameInv
  <1>8. QueueInv'
    BY <1>1, <1>2, <1>4 DEF QueueInv
  <1>9. AnnouncedInv'
    BY <1>1, <1>2, <1>4 DEF AnnouncedInv
  <1>10. EndInv'
    BY <1>1, <1>2, <1>3 DEF EndInv
  <1>11. AssertInv'
    BY <1>1, <1>2 DEF AssertInv
  <1> QED
    BY <1>5, <1>6, <1>7, <1>8, <1>9, <1>10, <1>11 DEF IInv

-----------------------------------------------------------------------------
(* The end of scrcpy(), and the counter.                                    *)

\* A step of the end, which handles no event.
LEMMA EndStepKeeps ==
    ASSUME IInv, mpc # "loop",
           mpc' \in {"wait", "hide", "join", "joinScreen", "destroy", "ended"},
           win' = win \/ win' = [win EXCEPT !.shown = FALSE],
           events' \in Seq(Events), QueueInv',
           UNCHANGED <<sinkVars, timerVars, inputs, picture>>,
           fps' \in FpsTypes, fpc' \in {"none", "check", "locked", "sleep", "ended"},
           failed' \in BOOLEAN, EndInv', AssertInv'
    PROVE  IInv'
  <1>1. UNCHANGED <<fb, auto, dpc, open, pushed, inputs, picture, tpc, timer>>
    BY DEF sinkVars, timerVars
  <1>2. VarsOK /\ WindowOK(win) /\ PictureInv /\ FrameInv
    BY DEF IInv
  <1>3. VarsOK'
    BY <1>1, <1>2 DEF VarsOK
  <1>4. /\ WindowOK(win') /\ win'.orientation = win.orientation /\ win'.frame = win.frame
        /\ win'.resume = win.resume /\ win'.paused = win.paused
    BY <1>2, ZenonT(60) DEF WindowOK, Windows
  <1>5. PictureInv'
    BY <1>1, <1>2, <1>4 DEF PictureInv
  <1>6. FrameInv'
    BY <1>1, <1>2, <1>4 DEF FrameInv, PauseOK
  <1>7. AnnouncedInv'
    BY DEF AnnouncedInv
  <1> QED
    BY <1>3, <1>4, <1>5, <1>6, <1>7 DEF IInv

\* sc_screen_interrupt(): the thread of the counter is told.
LEMMA InterruptKeeps ==
    ASSUME IInv, Interrupt
    PROVE  IInv'
  <1>1. /\ mpc = "interrupt" /\ sc_fps_counter_interrupt /\ mpc' \in {"wait", "hide"}
        /\ UNCHANGED <<win, events, sinkVars, timerVars, inputs, picture, failed>>
    BY DEF Interrupt
  <1>2. UNCHANGED <<dpc, open, tpc>>
    BY <1>1 DEF sinkVars, timerVars
  <1>3. VarsOK /\ QueueInv /\ EndInv /\ AssertInv /\ events \in Seq(Events) /\ failed \in BOOLEAN
    BY DEF IInv, VarsOK
  <1>4. /\ fps' \in FpsTypes /\ fpc' \in {"none", "check", "locked", "sleep", "ended"}
        /\ fps'.thread => fps'.interrupted
    BY <1>1, <1>3, FpsInterrupted
  <1>5. QueueInv'
    BY <1>1, <1>2, <1>3 DEF QueueInv
  <1>6. EndInv'
    BY <1>1, <1>2, <1>3 DEF EndInv
  <1>7. AssertInv'
    BY <1>1, <1>3, <1>4 DEF AssertInv
  <1> QED
    BY <1>1, <1>3, <1>4, <1>5, <1>6, <1>7, EndStepKeeps

\* sc_screen_hide_window().
LEMMA HideWindowKeeps ==
    ASSUME IInv, HideWindow
    PROVE  IInv'
  <1>1. /\ mpc = "hide" /\ mpc' = "join" /\ win' = [win EXCEPT !.shown = FALSE]
        /\ UNCHANGED <<events, sinkVars, fpsVars, timerVars, inputs, picture, failed>>
    BY DEF HideWindow
  <1>2. UNCHANGED <<dpc, open, tpc, fps, fpc>>
    BY <1>1 DEF sinkVars, timerVars, fpsVars
  <1>3. /\ VarsOK /\ QueueInv /\ EndInv /\ AssertInv /\ events \in Seq(Events)
        /\ failed \in BOOLEAN /\ fps \in FpsTypes
        /\ fpc \in {"none", "check", "locked", "sleep", "ended"} /\ WindowOK(win)
    BY DEF IInv, VarsOK
  <1>4. win'.started = win.started
    BY <1>1, <1>3 DEF WindowOK, Windows
  <1>5. QueueInv'
    BY <1>1, <1>2, <1>3 DEF QueueInv
  <1>6. EndInv'
    BY <1>1, <1>2, <1>3, <1>4 DEF EndInv
  <1>7. AssertInv'
    BY <1>1, <1>2, <1>3 DEF AssertInv
  <1> QED
    BY <1>1, <1>2, <1>3, <1>5, <1>6, <1>7, EndStepKeeps

\* The demuxer is joined: the thread of the counter has been told.
LEMMA JoinDemuxerKeeps ==
    ASSUME IInv, JoinDemuxer
    PROVE  IInv'
  <1>1. /\ mpc = "join" /\ mpc' = "joinScreen" /\ dpc = "closed"
        /\ failed' = (failed \/ (fps.thread /\ ~fps.interrupted))
        /\ UNCHANGED <<win, events, sinkVars, fpsVars, timerVars, inputs, picture>>
    BY DEF JoinDemuxer, FpsJoinFails
  <1>2. UNCHANGED <<dpc, open, tpc, fps, fpc>>
    BY <1>1 DEF sinkVars, timerVars, fpsVars
  <1>3. /\ VarsOK /\ QueueInv /\ EndInv /\ AssertInv /\ events \in Seq(Events)
        /\ failed \in BOOLEAN /\ fps \in FpsTypes
        /\ fpc \in {"none", "check", "locked", "sleep", "ended"}
    BY DEF IInv, VarsOK
  <1>4. failed' \in BOOLEAN
    BY <1>1, <1>3
  <1>5. QueueInv'
    BY <1>1, <1>2, <1>3 DEF QueueInv
  <1>6. EndInv'
    BY <1>1, <1>2, <1>3 DEF EndInv
  <1>7. AssertInv'
    BY <1>1, <1>2, <1>3 DEF AssertInv
  <1> QED
    BY <1>1, <1>2, <1>3, <1>4, <1>5, <1>6, <1>7, EndStepKeeps

\* sc_screen_join(): the thread of the disconnection has ended.
LEMMA JoinScreenKeeps ==
    ASSUME IInv, JoinScreen
    PROVE  IInv'
  <1>1. /\ mpc = "joinScreen" /\ mpc' = "destroy" /\ (win.started => tpc = "ended")
        /\ UNCHANGED <<win, events, sinkVars, fpsVars, timerVars, inputs, picture, failed>>
    BY DEF JoinScreen
  <1>2. UNCHANGED <<dpc, open, tpc, fps, fpc>>
    BY <1>1 DEF sinkVars, timerVars, fpsVars
  <1>3. /\ VarsOK /\ QueueInv /\ EndInv /\ AssertInv /\ events \in Seq(Events)
        /\ failed \in BOOLEAN /\ fps \in FpsTypes
        /\ fpc \in {"none", "check", "locked", "sleep", "ended"}
    BY DEF IInv, VarsOK
  <1>4. QueueInv'
    BY <1>1, <1>2, <1>3 DEF QueueInv
  <1>5. EndInv'
    BY <1>1, <1>2, <1>3 DEF EndInv
  <1>6. AssertInv'
    BY <1>1, <1>2, <1>3 DEF AssertInv
  <1> QED
    BY <1>1, <1>2, <1>3, <1>4, <1>5, <1>6, EndStepKeeps

\* sc_screen_destroy(): removing one event of each type is enough.
LEMMA DestroyKeeps ==
    ASSUME IInv, Destroy
    PROVE  IInv'
  <1> DEFINE s == sc_dequeue_event(events, "icon")
  <1>1. /\ mpc = "destroy" /\ mpc' = "ended" /\ failed' = (failed \/ open)
        /\ events' = sc_dequeue_event(s, "open")
        /\ UNCHANGED <<win, sinkVars, fpsVars, timerVars, inputs, picture>>
    BY DEF Destroy
  <1>2. UNCHANGED <<dpc, open, tpc, fps, fpc>>
    BY <1>1 DEF sinkVars, timerVars, fpsVars
  <1>3. /\ VarsOK /\ QueueInv /\ EndInv /\ AssertInv /\ events \in Seq(Events)
        /\ failed \in BOOLEAN /\ open \in BOOLEAN /\ fps \in FpsTypes
        /\ fpc \in {"none", "check", "locked", "sleep", "ended"}
        /\ OpensOK(events) /\ Once(events, "open") /\ Once(events, "icon")
    BY DEF IInv, VarsOK, QueueInv
  <1>4. dpc = "closed" /\ ~open
    BY <1>1, <1>3 DEF EndInv
  <1>5. s \in Seq(Events) /\ ~Has(s, "icon") /\ Once(s, "open") /\ Once(s, "icon") /\ OpensOK(s)
    BY <1>3, Dequeued
  <1> HIDE DEF s
  <1>6. /\ events' \in Seq(Events) /\ ~Has(events', "open") /\ ~Has(events', "icon")
        /\ Once(events', "open") /\ Once(events', "icon") /\ OpensOK(events')
    BY <1>1, <1>5, Dequeued
  <1>7. QueueInv'
    BY <1>2, <1>4, <1>6 DEF QueueInv
  <1>8. EndInv'
    BY <1>1, <1>2, <1>3, <1>6 DEF EndInv
  <1>9. AssertInv'
    BY <1>1, <1>2, <1>3, <1>4 DEF AssertInv
  <1> QED
    BY <1>1, <1>2, <1>3, <1>4, <1>6, <1>7, <1>8, <1>9, EndStepKeeps

\* A step of the thread of the counter moves only this thread.
LEMMA FpsKeeps ==
    ASSUME IInv,
           fpc' \in {"none", "check", "locked", "sleep", "ended"},
           UNCHANGED <<win, mpc, events, sinkVars, fps, timerVars, inputs, picture, failed>>
    PROVE  IInv'
  <1>1. UNCHANGED <<win, mpc, events, fb, auto, dpc, open, pushed, fps, tpc, timer, inputs,
                    picture, failed>>
    BY DEF sinkVars, timerVars
  <1>2. /\ VarsOK /\ WindowOK(win) /\ PictureInv /\ FrameInv /\ QueueInv /\ AnnouncedInv
        /\ EndInv /\ AssertInv
    BY DEF IInv
  <1>3. VarsOK'
    BY <1>1, <1>2 DEF VarsOK
  <1>4. WindowOK(win)' /\ PictureInv'
    BY <1>1, <1>2 DEF PictureInv
  <1>5. FrameInv' /\ QueueInv'
    BY <1>1, <1>2 DEF FrameInv, QueueInv
  <1>6. AnnouncedInv'
    BY <1>1, <1>2 DEF AnnouncedInv
  <1>7. EndInv' /\ AssertInv'
    BY <1>1, <1>2 DEF EndInv, AssertInv
  <1> QED
    BY <1>3, <1>4, <1>5, <1>6, <1>7 DEF IInv

\* Every step keeps the invariant.
LEMMA NextKeeps ==
    ASSUME IInv, [Next]_vars
    PROVE  IInv'
  <1>1. CASE Main
    BY <1>1, OpenWindowKeeps, NewFrameKeeps, ResizedKeeps, WindowedKeeps,
       DeviceDisconnectedKeeps, QuitLoopKeeps, InterruptKeeps, HandleDisconnectionKeeps,
       HideWindowKeeps, JoinDemuxerKeeps, JoinScreenKeeps, DestroyKeeps DEF Main
  <1>2. CASE User
    BY <1>2, KeyKeeps, WindowChangesKeeps, QuitKeeps, ExposedKeeps DEF User
  <1>3. CASE Decoder
    BY <1>3, SinkOpenKeeps, SinkPushKeeps, SinkPostKeeps, SinkCloseKeeps DEF Decoder
  <1>4. CASE Fps
    <2>1. /\ fpc' \in {"none", "check", "locked", "sleep", "ended"}
          /\ UNCHANGED <<win, mpc, events, sinkVars, fps, timerVars, inputs, picture, failed>>
      BY <1>4 DEF Fps, FpsChecks, FpsWaits
    <2> QED
      BY <2>1, FpsKeeps
  <1>5. CASE Timer
    BY <1>5, LoadIconKeeps, TimerEndsKeeps DEF Timer
  <1>6. CASE UNCHANGED vars
    <2>1. /\ fpc' \in {"none", "check", "locked", "sleep", "ended"}
          /\ UNCHANGED <<win, mpc, events, sinkVars, fps, timerVars, inputs, picture, failed>>
      BY <1>6 DEF vars, fpsVars, IInv, VarsOK
    <2> QED
      BY <2>1, FpsKeeps
  <1> QED
    BY <1>1, <1>2, <1>3, <1>4, <1>5, <1>6 DEF Next

-----------------------------------------------------------------------------
(* The theorems.                                                            *)

\* The invariant of the window, of its frames and of its events holds.
THEOREM Invariance == Spec => []IInv
  <1>1. IInv /\ [Next]_vars => IInv'
    BY NextKeeps
  <1> QED
    BY <1>1, InitEstablishes, PTL DEF Spec

\* Each corner of the frame is drawn in a corner.
LEMMA DrawnIsCorners ==
    ASSUME NEW o \in 0 .. 7
    PROVE  Drawn(o) \in [Corners -> Corners]
  <1> SUFFICES ASSUME NEW c \in Corners PROVE Drawn(o)[c] \in Corners
    BY DEF Drawn
  <1>1. PICK x \in 0 .. 1, y \in 0 .. 1 : c = <<x, y>>
    BY DEF Corners
  <1>2. /\ Drawn(0)[c] = <<x, y>> /\ Drawn(1)[c] = <<1 - y, x>>
        /\ Drawn(2)[c] = <<1 - x, 1 - y>> /\ Drawn(3)[c] = <<y, 1 - x>>
        /\ Drawn(4)[c] = <<1 - x, y>> /\ Drawn(5)[c] = <<1 - y, 1 - x>>
        /\ Drawn(6)[c] = <<x, 1 - y>> /\ Drawn(7)[c] = <<y, x>>
    BY <1>1, DrawnAt
  <1>3. \A a, b \in 0 .. 1 : <<a, b>> \in Corners /\ 1 - a \in 0 .. 1
    BY DEF Corners
  <1>4. o \in {0, 1, 2, 3, 4, 5, 6, 7}
    OBVIOUS
  <1> QED
    BY <1>2, <1>3, <1>4

\* Every variable stays within the values the code can give it.
THEOREM TypeCorrect == Spec => []TypeOK
  <1>1. IInv => TypeOK
    <2> SUFFICES ASSUME IInv PROVE TypeOK
      OBVIOUS
    <2>1. VarsOK /\ win \in Windows /\ picture = Drawn(win.orientation)
      BY DEF IInv, WindowOK, PictureInv
    <2>2. /\ win.orientation \in 0 .. 7 /\ win.mode \in {"windowed", "fullscreen"}
          /\ win.window \in PosSize /\ win.content \in PosSize
          /\ win.tex \in {"none", "frame", "icon"}
      BY <2>1 DEF Windows
    <2>3. picture \in [Corners -> Corners]
      BY <2>1, <2>2, DrawnIsCorners
    <2>4. /\ win.window \in Nat \X Nat /\ win.content \in Nat \X Nat
          /\ win.content[1] > 0 /\ win.content[2] > 0
      BY <2>2 DEF PosSize
    <2> QED
      BY <2>1, <2>2, <2>3, <2>4 DEF TypeOK, VarsOK, FpsTypes
  <1> QED
    BY <1>1, Invariance, PTL

\* A frame that is pending has one event on its way, an event has its frame, and
\* what is shown, what a pause keeps aside and what is pending are in this order.
THEOREM NewestFrameIsShown == Spec => []FramesAreShown
  <1>1. IInv /\ TypeOK => FramesAreShown
    <2> SUFFICES ASSUME IInv, TypeOK PROVE FramesAreShown
      OBVIOUS
    <2>1. events \in Seq(Events) /\ FrameInv /\ AnnouncedInv
      BY DEF IInv, VarsOK
    <2>2. /\ Once(events, "frame") => Count("frame") = IF Has(events, "frame") THEN 1 ELSE 0
          /\ Count("frame") > 0 => Has(events, "frame")
      BY <2>1, Counted
    <2>3. mpc = "loop" /\ dpc = "open" => (fb.id # 0) = (Count("frame") = 1)
      BY <2>1, <2>2 DEF AnnouncedInv
    <2>4. mpc = "loop" /\ Count("frame") > 0 => fb.id # 0 /\ Count("frame") = 1
      BY <2>1, <2>2 DEF AnnouncedInv
    <2>5. /\ win.resume # 0 => win.frame < win.resume
          /\ fb.id # 0 => win.frame < fb.id /\ win.resume < fb.id
      BY <2>1 DEF FrameInv, PauseOK
    <2> QED
      BY <2>3, <2>4, <2>5 DEF FramesAreShown
  <1> QED
    BY <1>1, Invariance, TypeCorrect, PTL

\* A click lands where the user sees it, after any sequence of rotations and flips
\* and at any size of the frames and of the window.
THEOREM ClicksLand == Spec => []ClicksFollowPicture
  <1>1. IInv => ClicksFollowPicture
    <2> SUFFICES ASSUME IInv, mpc = "loop", win.shown PROVE ClicksFollowPicture
      BY DEF ClicksFollowPicture
    <2>1. /\ events \in Seq(Events) /\ WindowOK(win) /\ win.frameSize \in PosSize
          /\ ContentOK(win) /\ picture = Drawn(win.orientation)
          /\ RectOK(win) \/ Has(events, "resized")
      BY DEF IInv, VarsOK, WindowOK, PictureInv
    <2>2. ASSUME NEW c \in Corners
          PROVE  Convert(win.rect.x + picture[c][1] * win.rect.w,
                         win.rect.y + picture[c][2] * win.rect.h)
                    = <<c[1] * win.frameSize[1], c[2] * win.frameSize[2]>>
      BY <2>1, ClickLands
    <2>3. Count("resized") = 0 => RectOK(win)
      BY <2>1, Counted
    <2>4. RectOK(win) => win = sc_screen_update_content_rect(win)
      BY <2>1 DEF RectOK, WindowOK, Windows, sc_screen_update_content_rect
    <2> QED
      BY <2>2, <2>3, <2>4 DEF ClicksFollowPicture
  <1> QED
    BY <1>1, Invariance, PTL

\* The assertions hold and nothing that an event holds is left behind, if the
\* counter is not started after the device is disconnected.
THEOREM AssertionsHold ==
    ASSUME ~LateFps
    PROVE  Spec => []ScreenIsSafe
  <1>1. IInv => ScreenIsSafe
    <2> SUFFICES ASSUME IInv PROVE ScreenIsSafe
      OBVIOUS
    <2>1. events \in Seq(Events) /\ EndInv /\ ~failed
      BY DEF IInv, VarsOK, AssertInv
    <2>2. /\ Count("open") = 0 <=> ~Has(events, "open")
          /\ Count("icon") = 0 <=> ~Has(events, "icon")
      BY <2>1, Counted
    <2> QED
      BY <2>1, <2>2 DEF ScreenIsSafe, EndInv
  <1> QED
    BY <1>1, Invariance, PTL

=============================================================================
