------------------------------ MODULE Geometry ------------------------------
(***************************************************************************)
(* How cuad's capture thread makes one desktop of several displays         *)
(* (capture.rs): plan_layout pairs the displays that are lit, heads, with  *)
(* the compositor's monitors and places them in desktop pixels, grab cuts  *)
(* a region of the desktop into a piece of each display's scanout, and     *)
(* screenshot makes the picture smaller.  To a picture's pixels refer the  *)
(* coordinates of clients, by the scale and the origin that come with it.  *)
(*                                                                         *)
(* Cuad has the control around this: when a layout is applied, saved and   *)
(* followed by the pointer.  Here numbers are exact; the code's are f64,   *)
(* and f32 in clients.                                                     *)
(***************************************************************************)
EXTENDS Integers, Sequences, FiniteSetsExt

CONSTANTS
  Topology,  \* sequences of heads: [name, width, height]
  Layout,    \* sequences of monitors: [connector, x, y, width, height, primary]
  Region,    \* what clients ask for: rects of the desktop
  MaxSide,   \* and how large the picture may be
  NoRect,    \* None
  NoShot

Rects == [x : Int, y : Int, width : Nat \ {0}, height : Nat \ {0}]
Heads == Seq([name : STRING \X Nat, width : Nat \ {0}, height : Nat \ {0}])
Monitors == Seq([connector : STRING \X Nat, x : Int, y : Int, width : Nat, height : Nat,
                 primary : BOOLEAN])

ASSUME GeometryAssumption ==
  /\ Topology \subseteq Heads \ {<<>>} /\ Topology # {}
  /\ Layout \subseteq Monitors \ {<<>>}
  /\ Region \subseteq Rects /\ MaxSide \subseteq Nat
  /\ NoRect \notin Rects

VARIABLES
  heads,     \* the displays, in the order of their CRTCs
  monitors,  \* the layout in force, << >> for none
  placed,    \* placed[h]: where a head is in the desktop, or NoRect
  primary,   \* the head that is 1:1 with the desktop
  shot,      \* the last screenshot of this arrangement: what of the desktop it
             \* shows, its size, and the desktop pixels to one of it
  gone       \* the capture thread has panicked

geometry == <<heads, monitors, placed, primary, shot, gone>>

Shots == [region : Rects, width : Nat \ {0}, height : Nat \ {0}, asked : Nat,
          scale : (Nat \ {0}) \X (Nat \ {0})]

-----------------------------------------------------------------------------
(* Pairing: "HDMI-A-1" is the kernel's name for what others call "HDMI-1". *)

Key(name) == IF name[1] = "HDMI-A" THEN <<"HDMI", name[2]>> ELSE name

First(S) == IF S = {} THEN 0 ELSE Min(S)

\* The monitor that has the head's name, or 0.
Named(hs, ms, h) == First({m \in DOMAIN ms : Key(ms[m].connector) = Key(hs[h].name)})

FreeHeads(hs, ms) == {h \in DOMAIN hs : Named(hs, ms, h) = 0}
FreeMonitors(hs, ms) == DOMAIN ms \ {Named(hs, ms, h) : h \in DOMAIN hs}

\* One head and one monitor that are left over are each other's.
Pair(hs, ms, h) ==
  IF FreeHeads(hs, ms) = {h} /\ Cardinality(FreeMonitors(hs, ms)) = 1
  THEN First(FreeMonitors(hs, ms)) ELSE Named(hs, ms, h)

Paired(hs, ms) == {h \in DOMAIN hs : Pair(hs, ms, h) # 0}

-----------------------------------------------------------------------------
(* Placing: plan_layout *)

\* n / d to the nearest integer, halves away from zero.
Rounded(n, d) == IF n >= 0 THEN (2 * n + d) \div (2 * d) ELSE -((d - 2 * n) \div (2 * d))

Distance(a, b) == IF a >= b THEN a - b ELSE b - a

\* The aspects of a head and its monitor differ by more than 2 %.
Rotated(head, m) ==
  50 * Distance(head.width * m.height, head.height * m.width) > head.height * m.width

Fits(hs, ms) ==
  /\ Paired(hs, ms) # {}
  /\ \A h \in Paired(hs, ms) :
       LET m == ms[Pair(hs, ms, h)]
       IN  m.width > 0 /\ m.height > 0 /\ ~Rotated(hs[h], m)

\* The first head whose monitor says so, or the first that has one.
PrimaryOf(hs, ms) ==
  LET flagged == {h \in Paired(hs, ms) : ms[Pair(hs, ms, h)].primary}
  IN  First(IF flagged # {} THEN flagged ELSE Paired(hs, ms))

\* Desktop pixels to v of the layout's: the primary's own are 1:1.
Scaled(hs, ms, v) ==
  LET p == PrimaryOf(hs, ms) IN Rounded(v * hs[p].width, ms[Pair(hs, ms, p)].width)

\* Slip: every display keeps the size of its mode.
ModeSize(hs, ms, h) == [width |-> hs[h].width, height |-> hs[h].height]

Size(hs, ms, h) ==
  IF h = PrimaryOf(hs, ms) THEN [width |-> hs[h].width, height |-> hs[h].height]
  ELSE LET m == ms[Pair(hs, ms, h)]
       IN  [width |-> Max({1, Scaled(hs, ms, m.width)}),
            height |-> Max({1, Scaled(hs, ms, m.height)})]

Place(hs, ms, h) ==
  IF h \notin Paired(hs, ms) THEN NoRect
  ELSE LET m == ms[Pair(hs, ms, h)] size == Size(hs, ms, h)
       IN  [x |-> Scaled(hs, ms, m.x), y |-> Scaled(hs, ms, m.y),
            width |-> size.width, height |-> size.height]

-----------------------------------------------------------------------------
(* Rects *)

Right(r) == r.x + r.width
Bottom(r) == r.y + r.height

Area(x0, y0, x1, y1) ==
  IF x1 > x0 /\ y1 > y0 THEN [x |-> x0, y |-> y0, width |-> x1 - x0, height |-> y1 - y0]
  ELSE NoRect

Intersect(a, b) ==
  Area(Max({a.x, b.x}), Max({a.y, b.y}),
       Min({Right(a), Right(b)}), Min({Bottom(a), Bottom(b)}))

Union(rs) ==
  Area(Min({r.x : r \in rs}), Min({r.y : r \in rs}),
       Max({Right(r) : r \in rs}), Max({Bottom(r) : r \in rs}))

Alone(hs) == [x |-> 0, y |-> 0, width |-> hs[1].width, height |-> hs[1].height]

Shown == {h \in DOMAIN heads : placed[h] # NoRect}
Desktop == Union({placed[h] : h \in Shown})

-----------------------------------------------------------------------------
(* Grabbing: grab, cursor *)

\* n / d, rounded up.
Up(n, d) == -((-n) \div d)

\* Slip: the end of a piece is rounded down like its start.
NativeFloor(h, part) ==
  LET d == placed[h] head == heads[h]
      x(v) == (v - d.x) * head.width
      y(v) == (v - d.y) * head.height
  IN  Area(x(part.x) \div d.width, y(part.y) \div d.height,
           Min({head.width, x(Right(part)) \div d.width}),
           Min({head.height, y(Bottom(part)) \div d.height}))

\* The pixels of h's scanout that cover a part of its place.
Native(h, part) ==
  LET d == placed[h] head == heads[h]
      x(v) == (v - d.x) * head.width
      y(v) == (v - d.y) * head.height
  IN  Area(x(part.x) \div d.width, y(part.y) \div d.height,
           Min({head.width, Up(x(Right(part)), d.width)}),
           Min({head.height, Up(y(Bottom(part)), d.height)}))

\* A length or a position on h's scanout in desktop pixels: to_desktop, across.
CursorX(h, v) == Rounded(v * placed[h].width, heads[h].width)

-----------------------------------------------------------------------------
(* Making smaller: screenshot, downscale_to, downscale_box *)

Longest(w, h) == Max({w, h})

\* The picture stays as it is; 0 is for any size.
Small(w, h, side) == side = 0 \/ Longest(w, h) <= Max({side, 16})

Factor(w, h, side) == Longest(w, h) \div Max({side, 16})

\* Averaging squares of that many pixels reads past the picture's end: the last
\* square of one that is thinner than a square.
Overruns(w, h, side) ==
  LET f == Factor(w, h, side)
  IN  /\ ~Small(w, h, side) /\ f > 1
      /\ (Max({1, h \div f}) * f - 1) * w + Max({1, w \div f}) * f > w * h

Downscaled(w, h, side) ==
  LET most == Max({side, 16})
      f == Factor(w, h, side)
      cw == Max({1, w \div f})
      ch == Max({1, h \div f})
  IN  IF Small(w, h, side) THEN <<w, h>>
      ELSE IF Longest(cw, ch) <= most THEN <<cw, ch>>
      ELSE <<Max({1, Rounded(cw * most, Longest(cw, ch))}),
             Max({1, Rounded(ch * most, Longest(cw, ch))})>>

\* Slip: the scale is that of the longest sides asked for.
ScaleBySide(w, h, side) == IF Small(w, h, side) THEN <<1, 1>> ELSE <<Longest(w, h), side>>

Scale(w, h, side) ==
  IF Small(w, h, side) THEN <<1, 1>> ELSE <<w, Downscaled(w, h, side)[1]>>

\* Clients: a picture's pixel in desktop pixels.
ToScanout(v, origin) == Rounded(v * shot.scale[1], shot.scale[2]) + origin

-----------------------------------------------------------------------------

\* apply_default: the first head, and no layout.
Default(hs) ==
  /\ monitors' = <<>> /\ primary' = 1
  /\ placed' = [h \in DOMAIN hs |-> IF h = 1 THEN Alone(hs) ELSE NoRect]

\* set_layout, for one that fits.
Arrange(hs, ms) ==
  /\ monitors' = ms /\ primary' = PrimaryOf(hs, ms)
  /\ placed' = [h \in DOMAIN hs |-> Place(hs, ms, h)]

\* open_heads: the layout is kept if it fits the displays there are.
OpenHeads(hs, ms) ==
  /\ heads' = hs
  /\ IF ms # <<>> /\ Fits(hs, ms) THEN Arrange(hs, ms) ELSE Default(hs)
  /\ shot' = NoShot /\ gone' = FALSE

GeometryInit ==
  /\ heads \in Topology
  /\ monitors = <<>> /\ primary = 1
  /\ placed = [h \in DOMAIN heads |-> IF h = 1 THEN Alone(heads) ELSE NoRect]
  /\ shot = NoShot /\ gone = FALSE

Plug == ~gone /\ \E hs \in Topology : OpenHeads(hs, monitors)

SetLayout(ms) ==
  /\ ~gone /\ Fits(heads, ms)
  /\ Arrange(heads, ms)
  /\ shot' = NoShot
  /\ UNCHANGED <<heads, gone>>

DropLayout ==
  /\ ~gone
  /\ Default(heads)
  /\ shot' = NoShot
  /\ UNCHANGED <<heads, gone>>

TakeScreenshot(r, side) ==
  LET region == Intersect(r, Desktop)
      w == region.width
      h == region.height
  IN  /\ ~gone /\ region # NoRect /\ ~Overruns(w, h, side)
      /\ shot' = [region |-> region, width |-> Downscaled(w, h, side)[1],
                  height |-> Downscaled(w, h, side)[2], asked |-> side,
                  scale |-> Scale(w, h, side)]
      /\ UNCHANGED <<heads, monitors, placed, primary, gone>>

\* A thin region: the capture thread panics, and nothing captures until cuad
\* is started again, with whatever layout the file has.
ScreenshotPanics(r, side) ==
  LET region == Intersect(r, Desktop)
  IN  /\ ~gone /\ region # NoRect /\ Overruns(region.width, region.height, side)
      /\ gone' = TRUE
      /\ UNCHANGED <<heads, monitors, placed, primary, shot>>

Restart == gone /\ \E hs \in Topology, ms \in Layout \cup {<<>>} : OpenHeads(hs, ms)

GeometryNext ==
  \/ Plug \/ DropLayout \/ Restart
  \/ \E ms \in Layout : SetLayout(ms)
  \/ \E r \in Region, side \in MaxSide : TakeScreenshot(r, side) \/ ScreenshotPanics(r, side)

GeometrySpec == GeometryInit /\ [][GeometryNext]_geometry

-----------------------------------------------------------------------------
(* Properties *)

\* The arrangement is one of the displays there are now, the primary is one of
\* those shown, and the last screenshot shows a part of the desktop.
GeometryTypeOK ==
  /\ heads \in Topology /\ monitors \in Layout \cup {<<>>}
  /\ primary \in Shown
  /\ DOMAIN placed = DOMAIN heads /\ \A h \in Shown : placed[h] \in Rects
  /\ gone \in BOOLEAN
  /\ shot # NoShot => shot \in Shots /\ Intersect(shot.region, Desktop) = shot.region

\* What an arrangement is: by the layout in force, which fits the displays there
\* are, or the default one.
Arranged ==
  IF monitors = <<>> THEN
    /\ primary = 1
    /\ placed = [h \in DOMAIN heads |-> IF h = 1 THEN Alone(heads) ELSE NoRect]
  ELSE
    /\ Fits(heads, monitors)
    /\ primary = PrimaryOf(heads, monitors)
    /\ placed = [h \in DOMAIN heads |-> Place(heads, monitors, h)]

\* What a screenshot is: its region made smaller.
Shrunk ==
  shot # NoShot =>
    LET w == shot.region.width
        h == shot.region.height
    IN  /\ shot.asked \in MaxSide
        /\ <<shot.width, shot.height>> = Downscaled(w, h, shot.asked)
        /\ shot.scale = Scale(w, h, shot.asked)

\* Whatever layouts came and whatever was plugged, one desktop pixel of the
\* primary is one pixel of its present mode ("scale the layout so the primary
\* head is 1:1"): plan_layout, apply_default, open_heads.
PrimaryNative ==
  LET d == placed[primary]
      all == [x |-> 0, y |-> 0, width |-> d.width, height |-> d.height]
  IN  /\ Native(primary, d) = all
      /\ heads[primary].width = d.width /\ heads[primary].height = d.height

\* How far a display's end may be from where the next one starts: a pixel, of
\* rounding, and as much as the primary's aspect is not its monitor's.
Slack(h) == 50 + IF h = primary THEN heads[h].height ELSE 0

\* Displays that touch in the compositor's layout touch in the desktop, at the
\* same side: plan_layout leaves no gap in it and no overlap of more than a
\* pixel, whatever the displays' scales, where each size and each position is
\* rounded by itself.
SeamsHold ==
  monitors # <<>> =>
    \A g \in Shown, h \in Shown :
      LET m == monitors[Pair(heads, monitors, g)]
          n == monitors[Pair(heads, monitors, h)]
      IN  /\ Right(m) = n.x => Distance(Right(placed[g]), placed[h].x) <= 1
          /\ Bottom(m) = n.y => 50 * Distance(Bottom(placed[g]), placed[h].y) <= Slack(g)

\* Of every display that a screenshot touches, grab takes scanout pixels that
\* are there and cover its part ("floor/ceil so a fractional scale never leaves
\* a gap"), and less than a pixel more on each side.
NoGap ==
  shot # NoShot =>
    \A h \in Shown :
      LET d == placed[h]
          part == Intersect(shot.region, d)
          n == Native(h, part)
          Covers(lo, hi, first, past, at, size, mode) ==
            /\ 0 <= first /\ past <= mode
            /\ first * size <= (lo - at) * mode /\ (lo - at) * mode < (first + 1) * size
            /\ (past - 1) * size < (hi - at) * mode /\ (hi - at) * mode <= past * size
      IN  part # NoRect =>
            /\ n # NoRect
            /\ Covers(part.x, Right(part), n.x, Right(n), d.x, d.width, heads[h].width)
            /\ Covers(part.y, Bottom(part), n.y, Bottom(n), d.y, d.height, heads[h].height)

\* "Downscale so the longest side equals max_side": the two stages of
\* downscale_to end there, and a picture that is not larger stays as it is.
LongestIsMaxSide ==
  shot # NoShot =>
    LET r == shot.region
        all == Longest(r.width, r.height)
    IN  Longest(shot.width, shot.height) =
          IF shot.asked = 0 THEN all ELSE Min({all, Max({shot.asked, 16})})

\* A client that multiplies a pixel of the picture by `scale` and adds the
\* origin aims at something the picture shows, across.  Down, where the scale is
\* the width's too and the height was rounded by itself, it may aim below by
\* half a pixel of the picture and the last rounding, but no more than that if
\* the picture is not taller than wide: of 56x39 in 16x12 the last row is row 39.
\* (Of a narrow picture the width is rounded most.)
AimsInside ==
  shot # NoShot =>
    LET r == shot.region
    IN  /\ \A i \in 0 .. shot.width - 1 : ToScanout(i, r.x) \in r.x .. Right(r) - 1
        /\ r.height <= r.width =>
             \A j \in 0 .. shot.height - 1 :
               /\ r.y <= ToScanout(j, r.y)
               /\ 2 * shot.scale[2] * (ToScanout(j, r.y) - Bottom(r))
                    < shot.scale[1] + shot.scale[2]

\* Where clients say the pointer is, the cursor's position and its hot spot, each
\* moved to the desktop and rounded, is within a pixel of where it is.
CursorNear ==
  \A h \in Shown : \A p \in 0 .. heads[h].width - 1, hot \in 0 .. 3 :
    Distance((CursorX(h, p - hot) + CursorX(h, hot)) * heads[h].width,
             p * placed[h].width) <= heads[h].width

\* The displays are arranged as in the layout.
PlacedInv == GeometryTypeOK /\ Arranged /\ PrimaryNative /\ SeamsHold

\* What is told of a picture and of the cursor is so: size, scale, position.
ToldInv == Shrunk /\ LongestIsMaxSide /\ AimsInside /\ CursorNear
=============================================================================
