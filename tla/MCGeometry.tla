------------------------------ MODULE MCGeometry ------------------------------
(* 4:3 displays of three sizes, one of four times the size, in two connectors  *)
(* and a third; their monitors beside, below and on each other.                *)
EXTENDS Geometry

Lit(name, n) == [name |-> name, width |-> 4 * n, height |-> 3 * n]
DP == <<"DP", 2>>
HDMI == <<"HDMI-A", 1>>

MCTopology ==
  {<<Lit(DP, 6)>>, <<Lit(DP, 6), Lit(HDMI, 5)>>, <<Lit(HDMI, 16), Lit(DP, 6)>>,
   <<Lit(HDMI, 5), Lit(<<"VGA", 7>>, 4), Lit(DP, 5)>>}

Monitor(name, x, y, n, flag) ==
  [connector |-> name, x |-> x, y |-> y, width |-> 4 * n, height |-> 3 * n,
   primary |-> flag]

\* The second to the right of the first, below it, left of it, on it, and a
\* little lower.
At(m, n) == {<<4 * m, 0>>, <<0, 3 * m>>, <<-4 * n, 0>>, <<0, 0>>, <<4 * m, 5>>}

\* The flag is the first's, the second's or nobody's; the last of these names the
\* second by a name no display has.
Pairs ==
  UNION {{<<Monitor(DP, 0, 0, m, which = 1),
            Monitor(<<"HDMI", Min({which, 1})>>, at[1], at[2], n, which = 2)>> :
            at \in At(m, n), which \in 0 .. 2} :
           <<m, n>> \in {<<4, 5>>, <<6, 3>>, <<6, 5>>}}

\* 64x48 shown as 50x37, a rotated one, and one without an area.
Odd ==
  {<<[Monitor(<<"HDMI", 1>>, 0, 0, 1, TRUE) EXCEPT !.width = 50, !.height = 37],
     Monitor(DP, 0, 37, 4, FALSE)>>,
   <<[Monitor(DP, 0, 0, 6, TRUE) EXCEPT !.width = 18, !.height = 24]>>,
   <<[Monitor(DP, 0, 0, 6, TRUE) EXCEPT !.width = 0]>>}

MCLayout == Pairs \cup Odd

\* A part at either end of the desktop, all of it, thin ones in both directions,
\* one that ends between two pixels of a scanout, and one whose picture's last row
\* is aimed below it.
MCRegion ==
  {[x |-> r[1], y |-> r[2], width |-> r[3], height |-> r[4]] :
     r \in {<<-40, -40, 200, 200>>, <<-3, 1, 70, 2>>, <<7, -40, 3, 200>>, <<7, 5, 23, 19>>,
            <<-40, -3, 47, 19>>, <<15, 11, 70, 70>>,
            <<0, 0, 56, 39>>}}
===============================================================================
