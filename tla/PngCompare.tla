------------------------------ MODULE PngCompare ------------------------------
(***************************************************************************)
(* Comparing and measuring pictures (PngCompare.h), for --golden and       *)
(* --expect-window.  A bitmap has a width, a height and, for each place    *)
(* y * width + x, a pixel: its channels in the order of memory, blue,      *)
(* green, red and alpha, of 8 bits each.  A bitmap has at least one pixel, *)
(* as a PNG has: of none, the code's fractions would be no numbers.  They  *)
(* are given in thousandths; the rounding of the doubles is left out.      *)
(***************************************************************************)
EXTENDS Integers, FiniteSets

Channel == 0 .. 255
Pixel   == Channel \X Channel \X Channel \X Channel

Places(bmp)   == 0 .. bmp.width * bmp.height - 1
IsBitmap(bmp) == /\ bmp.width \in Nat \ {0} /\ bmp.height \in Nat \ {0}
                 /\ bmp.pixel \in [Places(bmp) -> Pixel]

Delta(x, y) == IF x < y THEN y - x ELSE x - y
-----------------------------------------------------------------------------
(* compare_pngs.                                                           *)

SameSize(a, g) == a.width = g.width /\ a.height = g.height

Differing(a, g, tolerance) ==
  {x \in Places(a) :
     \E c \in 1 .. 4 : Delta(a.pixel[x][c], g.pixel[x][c]) > tolerance}

\* compare_golden's verdict.
Matches(a, g, tolerance, thousandths) ==
  /\ SameSize(a, g)
  /\ 1000 * Cardinality(Differing(a, g, tolerance))
       <= thousandths * (a.width * a.height)
-----------------------------------------------------------------------------
(* non_background_fraction.                                                *)

\* The top four bits of blue, green and red, as an index.
Bucket(p) == 256 * (p[1] \div 16) + 16 * (p[2] \div 16) + p[3] \div 16

Members(bmp, b) == {x \in Places(bmp) : Bucket(bmp.pixel[x]) = b}
Buckets(bmp)    == {Bucket(bmp.pixel[x]) : x \in Places(bmp)}

\* The first of those with the most pixels.
IsDominant(bmp, b) ==
  \A d \in Buckets(bmp) :
    \/ Cardinality(Members(bmp, d)) < Cardinality(Members(bmp, b))
    \/ Cardinality(Members(bmp, d)) = Cardinality(Members(bmp, b)) /\ b <= d

Dominant(bmp) == CHOOSE b \in Buckets(bmp) : IsDominant(bmp, b)

\* The colour that stands for a bucket.  (The code calls it the midpoint; it
\* runs from the lower end of bucket 0 to the upper end of bucket 15.)
Representative(b) ==
  <<17 * (b \div 256), 17 * ((b \div 16) % 16), 17 * (b % 16)>>

NonBackground(bmp, fuzz) ==
  LET base == Representative(Dominant(bmp)) IN
  {x \in Places(bmp) :
     \E c \in 1 .. 3 : Delta(bmp.pixel[x][c], base[c]) > fuzz}

\* The fraction is at least so much.
HasContent(bmp, fuzz, thousandths) ==
  1000 * Cardinality(NonBackground(bmp, fuzz))
    >= thousandths * (bmp.width * bmp.height)
=============================================================================
