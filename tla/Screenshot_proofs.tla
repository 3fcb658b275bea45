-------------------------- MODULE Screenshot_proofs --------------------------
(***************************************************************************)
(* Proofs about Screenshot, for every pictures, golden, tolerance and      *)
(* minimum, every pipe size and number of polls and probes: types, that a  *)
(* success is about a picture of this session that shows what it should    *)
(* and a failure about one that does not, that the picture answers the     *)
(* last request, and that the trigger is a ShotService.                    *)
(***************************************************************************)
EXTENDS Screenshot, FiniteSetTheorems, WellFoundedInduction, TLAPS

USE ScreenshotAssumption

(***************************************************************************)
(* Measuring a picture.                                                    *)
(***************************************************************************)

\* A set of natural numbers that is not empty has a smallest one.
LEMMA Smallest ==
  ASSUME NEW T \in SUBSET Nat, T # {}
  PROVE  \E m \in T : \A k \in T : m <= k
<1> DEFINE R == OpToRel(<, Nat)
<1>1. R = {ss \in Nat \X Nat : ss[1] < ss[2]} BY DEF OpToRel
<1>2. IsWellFoundedOn(R, Nat) BY NatLessThanWellFounded
<1> HIDE DEF R
<1>3. PICK m \in T : \A k \in T : ~ (<<k, m>> \in R) BY <1>2, WFMin
<1>4. ASSUME NEW k \in T, k < m PROVE FALSE
  <2>1. <<k, m>> \in Nat \X Nat /\ <<k, m>>[1] < <<k, m>>[2] BY <1>4
  <2>2. <<k, m>> \in R BY <1>1, <2>1
  <2> QED BY <1>3, <2>2
<1>5. \A k \in T : m \in Nat /\ k \in Nat OBVIOUS
<1> QED BY <1>4, <1>5

\* A picture has as many places as its sizes say, and its subsets are finite.
LEMMA PlacesCounted ==
  ASSUME NEW bmp, IsBitmap(bmp)
  PROVE  /\ bmp.width * bmp.height \in Nat /\ Places(bmp) # {}
         /\ IsFiniteSet(Places(bmp))
         /\ Cardinality(Places(bmp)) = bmp.width * bmp.height
         /\ \A s \in SUBSET Places(bmp) :
              IsFiniteSet(s) /\ Cardinality(s) \in Nat
<1> DEFINE n == bmp.width * bmp.height
<1>1. n \in Nat /\ n >= 1
  <2>1. ASSUME NEW w \in Nat \ {0}, NEW h \in Nat \ {0}
        PROVE  w * h \in Nat /\ w * h >= 1
    <3>1. w * h >= w * 1 /\ w >= 1 BY <2>1
    <3> QED BY <3>1
  <2> QED BY <2>1 DEF IsBitmap
<1>2. Places(bmp) = 0 .. n - 1 BY DEF Places
<1> HIDE DEF n
<1>3. 0 \in Int /\ n - 1 \in Int BY <1>1
<1>4. /\ IsFiniteSet(0 .. n - 1)
      /\ Cardinality(0 .. n - 1) = IF 0 > n - 1 THEN 0 ELSE (n - 1) - 0 + 1
  BY <1>3, FS_Interval
<1>5. Cardinality(0 .. n - 1) = n BY <1>1, <1>4
<1>6. \A s \in SUBSET Places(bmp) : IsFiniteSet(s) /\ Cardinality(s) \in Nat
  BY <1>2, <1>4, FS_Subset, FS_CardinalityType
<1>7. 0 \in 0 .. n - 1 BY <1>1
<1> QED BY <1>1, <1>2, <1>4, <1>5, <1>6, <1>7 DEF n

\* The channels of a pixel are numbers.
LEMMA ChannelsAreNumbers ==
  ASSUME NEW p \in Pixel, NEW c \in 1 .. 4
  PROVE  p[c] \in Int
<1>1. /\ p[1] \in Channel /\ p[2] \in Channel /\ p[3] \in Channel
      /\ p[4] \in Channel
  BY DEF Pixel
<1>2. \A v \in Channel : v \in Int BY DEF Channel
<1>3. c = 1 \/ c = 2 \/ c = 3 \/ c = 4 OBVIOUS
<1> QED BY <1>1, <1>2, <1>3

\* A channel is at most 15 away from what stands for its top four bits.
LEMMA SixteenthClose ==
  ASSUME NEW v \in Channel
  PROVE  /\ v \div 16 \in 0 .. 15
         /\ Delta(v, 17 * (v \div 16)) <= 15
<1>1. v \in 0 .. 255 BY DEF Channel
<1>2. v \div 16 \in 0 .. 15 BY <1>1
<1>3. 16 * (v \div 16) <= v /\ v <= 16 * (v \div 16) + 15 BY <1>1
<1> QED BY <1>1, <1>2, <1>3 DEF Delta

\* The index of a bucket gives back its three digits.
LEMMA BucketDigits ==
  ASSUME NEW x \in 0 .. 15, NEW y \in 0 .. 15, NEW z \in 0 .. 15
  PROVE  LET b == 256 * x + 16 * y + z IN
           b \div 256 = x /\ (b \div 16) % 16 = y /\ b % 16 = z
<1> DEFINE b == 256 * x + 16 * y + z
<1>1. b \div 256 = x OBVIOUS
<1>2. b \div 16 = 16 * x + y OBVIOUS
<1>3. (16 * x + y) % 16 = y OBVIOUS
<1>4. b % 16 = z OBVIOUS
<1> QED BY <1>1, <1>2, <1>3, <1>4

\* A pixel is at most 15 away, in every channel, from what stands for its
\* bucket.
LEMMA BucketClose ==
  ASSUME NEW p \in Pixel
  PROVE  /\ Bucket(p) \in Nat
         /\ \A c \in 1 .. 3 : Delta(p[c], Representative(Bucket(p))[c]) <= 15
<1>1. p[1] \in Channel /\ p[2] \in Channel /\ p[3] \in Channel BY DEF Pixel
<1> DEFINE x == p[1] \div 16
           y == p[2] \div 16
           z == p[3] \div 16
<1>2. x \in 0 .. 15 /\ y \in 0 .. 15 /\ z \in 0 .. 15
  BY <1>1, SixteenthClose
<1>3. Bucket(p) = 256 * x + 16 * y + z BY DEF Bucket
<1>4. /\ Delta(p[1], 17 * x) <= 15 /\ Delta(p[2], 17 * y) <= 15
      /\ Delta(p[3], 17 * z) <= 15
  BY <1>1, SixteenthClose
<1> HIDE DEF x, y, z
<1>5. /\ Bucket(p) \div 256 = x /\ (Bucket(p) \div 16) % 16 = y
      /\ Bucket(p) % 16 = z
  BY <1>2, <1>3, BucketDigits
<1>6. Representative(Bucket(p)) = <<17 * x, 17 * y, 17 * z>>
  BY <1>5 DEF Representative
<1>7. Bucket(p) \in Nat BY <1>2, <1>3
<1>8. \A c \in 1 .. 3 : c = 1 \/ c = 2 \/ c = 3 OBVIOUS
<1> QED BY <1>4, <1>6, <1>7, <1>8

\* There is a bucket with the most pixels, and a first of those.
LEMMA DominantExists ==
  ASSUME NEW bmp, IsBitmap(bmp)
  PROVE  Dominant(bmp) \in Buckets(bmp) /\ IsDominant(bmp, Dominant(bmp))
<1> DEFINE n == bmp.width * bmp.height
           count(b) == Cardinality(Members(bmp, b))
           T == {n - count(b) : b \in Buckets(bmp)}
<1>1. \A b \in Buckets(bmp) : b \in Nat
  BY BucketClose DEF Buckets, IsBitmap
<1>2. \A b : count(b) \in Nat /\ n - count(b) \in Nat
  <2> TAKE b
  <2>1. Members(bmp, b) \in SUBSET Places(bmp) BY DEF Members
  <2>2. Cardinality(Members(bmp, b)) <= Cardinality(Places(bmp))
    BY <2>1, PlacesCounted, FS_Subset
  <2>3. count(b) \in Nat /\ n \in Nat /\ count(b) <= n
    BY <2>1, <2>2, PlacesCounted
  <2> HIDE DEF n, count
  <2> QED BY <2>3
<1>3. T \in SUBSET Nat BY <1>2
<1>4. T # {}
  <2>1. Places(bmp) # {} BY PlacesCounted
  <2> QED BY <2>1 DEF Buckets
<1>5. PICK m \in T : \A k \in T : m <= k BY <1>3, <1>4, Smallest
<1> DEFINE B == {b \in Buckets(bmp) : n - count(b) = m}
<1>6. B \in SUBSET Nat /\ B # {} BY <1>1
<1>7. PICK d \in B : \A e \in B : d <= e BY <1>6, Smallest
<1>8. n \in Nat BY PlacesCounted
<1>9. IsDominant(bmp, d)
  <2> SUFFICES ASSUME NEW e \in Buckets(bmp)
               PROVE  count(e) < count(d) \/ (count(e) = count(d) /\ d <= e)
    BY DEF IsDominant
  <2>1. n - count(d) = m /\ m <= n - count(e) BY <1>5
  <2>2. count(e) \in Nat /\ count(d) \in Nat BY <1>2
  <2>3. n - count(e) = m => d <= e BY <1>7
  <2> HIDE DEF n, count, B, T
  <2> QED BY <1>8, <2>1, <2>2, <2>3
<1> QED BY <1>7, <1>9 DEF Dominant

\* When the measure finds enough content, no bucket has more than the rest of
\* the pixels: none of the dominant bucket's pixels is ever counted.
LEMMA ContentMeasured ==
  ASSUME NEW bmp, IsBitmap(bmp), NEW fuzz \in Nat, fuzz >= 15,
         NEW least \in Nat, HasContent(bmp, fuzz, least)
  PROVE  \A b \in Buckets(bmp) :
           1000 * Cardinality(Members(bmp, b))
             <= (1000 - least) * (bmp.width * bmp.height)
<1> DEFINE n == bmp.width * bmp.height
           d == Dominant(bmp)
           M == Members(bmp, d)
           F == NonBackground(bmp, fuzz)
<1>1. 1000 * Cardinality(F) >= least * n
  BY DEF HasContent
<1>2. d \in Buckets(bmp) /\ IsDominant(bmp, d) BY DominantExists
<1>3. F \in SUBSET (Places(bmp) \ M)
  <2> SUFFICES ASSUME NEW x \in F PROVE x \in Places(bmp) /\ x \notin M
    OBVIOUS
  <2>1. x \in Places(bmp) BY DEF NonBackground
  <2>2. bmp.pixel[x] \in Pixel BY <2>1 DEF IsBitmap
  <2>3. PICK c \in 1 .. 3 :
          Delta(bmp.pixel[x][c], Representative(d)[c]) > fuzz
    BY DEF NonBackground
  <2>4. x \in M =>
          Delta(bmp.pixel[x][c], Representative(d)[c]) <= 15
    BY <2>2, BucketClose DEF Members
  <2>5. Delta(bmp.pixel[x][c], Representative(d)[c]) \in Int
    <3>1. bmp.pixel[x][c] \in Int
      <4>1. c \in 1 .. 4 OBVIOUS
      <4> QED BY <2>2, <4>1, ChannelsAreNumbers
    <3>2. Representative(d)[c] \in Int
      <4>1. d \in Nat BY <1>2, BucketClose DEF Buckets, IsBitmap
      <4>2. /\ d \div 256 \in Int /\ (d \div 16) % 16 \in Int
            /\ d % 16 \in Int
        BY <4>1
      <4>3. c = 1 \/ c = 2 \/ c = 3 OBVIOUS
      <4> HIDE DEF d
      <4> QED BY <4>2, <4>3 DEF Representative
    <3> HIDE DEF d
    <3> QED BY <3>1, <3>2 DEF Delta
  <2> HIDE DEF d
  <2> QED BY <2>1, <2>3, <2>4, <2>5
<1>4. M \in SUBSET Places(bmp) BY DEF Members
<1>5. /\ IsFiniteSet(Places(bmp)) /\ Cardinality(Places(bmp)) = n /\ n \in Nat
  BY PlacesCounted
<1>6. /\ IsFiniteSet(Places(bmp) \ M)
      /\ Cardinality(Places(bmp) \ M) = n - Cardinality(M)
  <2>1. Places(bmp) \cap M = M BY <1>4
  <2> QED BY <1>5, <2>1, FS_Difference
<1>7. Cardinality(F) <= n - Cardinality(M) BY <1>3, <1>6, FS_Subset
<1>8. Cardinality(F) \in Nat /\ Cardinality(M) \in Nat
  BY <1>3, <1>4, PlacesCounted
<1> SUFFICES ASSUME NEW b \in Buckets(bmp)
             PROVE  1000 * Cardinality(Members(bmp, b)) <= (1000 - least) * n
  OBVIOUS
<1>9. Cardinality(Members(bmp, b)) <= Cardinality(M)
  <2>1. Members(bmp, b) \in SUBSET Places(bmp) BY DEF Members
  <2>2. Cardinality(Members(bmp, b)) \in Nat BY <2>1, PlacesCounted
  <2> HIDE DEF d
  <2> QED BY <1>2, <1>8, <2>2 DEF IsDominant
<1>10. Cardinality(Members(bmp, b)) \in Nat BY PlacesCounted DEF Members
<1> DEFINE f == Cardinality(F)
           m == Cardinality(M)
           k == Cardinality(Members(bmp, b))
<1>11. (1000 - least) * n = 1000 * n - least * n BY <1>5
<1>12. least * n \in Int BY <1>5
<1> HIDE DEF n, F, M, d, f, m, k
<1>13. 1000 * f >= least * n /\ f <= n - m /\ k <= m
       /\ f \in Nat /\ m \in Nat /\ k \in Nat
  BY <1>1, <1>7, <1>8, <1>9, <1>10 DEF f, m, k
<1>14. 1000 * k <= 1000 * n - least * n
  <2> DEFINE l == least * n
  <2>1. l \in Int /\ 1000 * f >= l BY <1>12, <1>13
  <2> HIDE DEF l
  <2>2. 1000 * k <= 1000 * n - l BY <1>5, <1>13, <2>1
  <2> QED BY <2>2 DEF l
<1> QED BY <1>11, <1>14 DEF k

\* A place of two pictures of one size is near or differing.
LEMMA NearOrDiffering ==
  ASSUME NEW a, IsBitmap(a), NEW g, IsBitmap(g), NEW tolerance \in Nat,
         SameSize(a, g)
  PROVE  {x \in Places(a) : \A c \in 1 .. 4 :
            a.pixel[x][c] - g.pixel[x][c] \in -tolerance .. tolerance}
           = Places(a) \ Differing(a, g, tolerance)
<1> DEFINE D == Differing(a, g, tolerance)
           C == {x \in Places(a) : \A c \in 1 .. 4 :
                   a.pixel[x][c] - g.pixel[x][c] \in -tolerance .. tolerance}
<1>1. Places(g) = Places(a) BY DEF SameSize, Places
<1> SUFFICES ASSUME NEW x \in Places(a) PROVE x \in C <=> x \notin D
  BY DEF Differing
<1>2. a.pixel[x] \in Pixel /\ g.pixel[x] \in Pixel BY <1>1 DEF IsBitmap
<1>3. ASSUME NEW c \in 1 .. 4
      PROVE  a.pixel[x][c] - g.pixel[x][c] \in -tolerance .. tolerance
               <=> ~(Delta(a.pixel[x][c], g.pixel[x][c]) > tolerance)
  <2>1. a.pixel[x][c] \in Int /\ g.pixel[x][c] \in Int
    BY <1>2, ChannelsAreNumbers
  <2> QED BY <2>1 DEF Delta
<1> QED BY <1>3 DEF Differing

\* What matches the golden picture within a tolerance is close to it at nearly
\* all places.
LEMMA GoldenMeasured ==
  ASSUME NEW a, IsBitmap(a), NEW g, IsBitmap(g), NEW tolerance \in Nat,
         NEW most \in Nat, Matches(a, g, tolerance, most)
  PROVE  1000 * Cardinality({x \in Places(a) : \A c \in 1 .. 4 :
                  a.pixel[x][c] - g.pixel[x][c] \in -tolerance .. tolerance})
           >= (1000 - most) * (a.width * a.height)
<1> DEFINE n == a.width * a.height
           D == Differing(a, g, tolerance)
           C == {x \in Places(a) : \A c \in 1 .. 4 :
                   a.pixel[x][c] - g.pixel[x][c] \in -tolerance .. tolerance}
<1>1. SameSize(a, g) /\ 1000 * Cardinality(D) <= most * n BY DEF Matches
<1>2. C = Places(a) \ D BY <1>1, NearOrDiffering
<1>3. D \in SUBSET Places(a) BY DEF Differing
<1>4. IsFiniteSet(Places(a)) /\ Cardinality(Places(a)) = n /\ n \in Nat
      /\ Cardinality(D) \in Nat
  BY <1>3, PlacesCounted
<1>5. Cardinality(Places(a) \ D) = n - Cardinality(D)
  <2>1. Places(a) \cap D = D BY <1>3
  <2> QED BY <1>4, <2>1, FS_Difference
<1>6. (1000 - most) * n = 1000 * n - most * n /\ most * n \in Int BY <1>4
<1> DEFINE d == Cardinality(D)
           c == Cardinality(C)
           l == most * n
<1>7. c = n - d /\ 1000 * d <= l /\ d \in Nat /\ n \in Nat /\ l \in Int
  BY <1>1, <1>2, <1>4, <1>5, <1>6
<1> HIDE DEF n, D, C, d, c, l
<1>8. 1000 * c >= 1000 * n - l BY <1>7
<1> QED BY <1>6, <1>8 DEF c, C, l, n

\* Two first buckets with the most pixels are one.
LEMMA DominantIsOne ==
  ASSUME NEW bmp, IsBitmap(bmp), NEW x \in Places(bmp),
         IsDominant(bmp, Bucket(bmp.pixel[x]))
  PROVE  Bucket(bmp.pixel[x]) = Dominant(bmp)
<1> DEFINE b == Bucket(bmp.pixel[x])
           d == Dominant(bmp)
           m == Cardinality(Members(bmp, b))
           n == Cardinality(Members(bmp, d))
<1>1. b \in Buckets(bmp) BY DEF Buckets
<1>2. d \in Buckets(bmp) /\ IsDominant(bmp, d) BY DominantExists
<1>3. b \in Nat /\ d \in Nat BY <1>1, <1>2, BucketClose DEF Buckets, IsBitmap
<1>4. m \in Nat /\ n \in Nat BY PlacesCounted DEF Members
<1>5. m < n \/ (m = n /\ d <= b)
  <2> HIDE DEF b, d
  <2> QED BY <1>1, <1>2 DEF IsDominant
<1>6. n < m \/ (n = m /\ b <= d)
  <2> HIDE DEF b, d
  <2> QED BY <1>2 DEF IsDominant, b
<1> HIDE DEF b, d, m, n
<1> QED BY <1>3, <1>4, <1>5, <1>6 DEF b, d

\* Distances add up.
LEMMA DeltaTriangle ==
  ASSUME NEW x \in Int, NEW y \in Int, NEW z \in Int, NEW f \in Nat,
         Delta(y, z) <= 15, Delta(x, y) > f + 15
  PROVE  Delta(x, z) > f
BY DEF Delta

\* The other way round: when the measure does not find enough content, there
\* is not enough that stands out from the background by more than the fuzz and
\* the width of a bucket.
LEMMA NothingStandsOut ==
  ASSUME NEW bmp, IsBitmap(bmp), NEW fuzz \in Nat, NEW least \in Nat,
         ~HasContent(bmp, fuzz, least),
         NEW back \in Places(bmp), IsDominant(bmp, Bucket(bmp.pixel[back])),
         NEW S \in SUBSET Places(bmp),
         \A x \in S : \E c \in 1 .. 3 :
           Delta(bmp.pixel[x][c], bmp.pixel[back][c]) > fuzz + 15
  PROVE  1000 * Cardinality(S) < least * (bmp.width * bmp.height)
<1> DEFINE n == bmp.width * bmp.height
           d == Dominant(bmp)
           F == NonBackground(bmp, fuzz)
           l == least * n
           f == Cardinality(F)
           s == Cardinality(S)
<1>1. Bucket(bmp.pixel[back]) = d BY DominantIsOne
<1>2. S \subseteq F
  <2> SUFFICES ASSUME NEW x \in S PROVE x \in F OBVIOUS
  <2>1. PICK c \in 1 .. 3 :
          Delta(bmp.pixel[x][c], bmp.pixel[back][c]) > fuzz + 15
    OBVIOUS
  <2>2. bmp.pixel[x] \in Pixel /\ bmp.pixel[back] \in Pixel BY DEF IsBitmap
  <2>3. Delta(bmp.pixel[back][c], Representative(d)[c]) <= 15
    BY <1>1, <2>2, BucketClose
  <2>4. bmp.pixel[x][c] \in Int /\ bmp.pixel[back][c] \in Int
    <3>1. c \in 1 .. 4 OBVIOUS
    <3> QED BY <2>2, <3>1, ChannelsAreNumbers
  <2>5. Representative(d)[c] \in Int
    <3>1. d \in Nat BY <1>1, <2>2, BucketClose
    <3> HIDE DEF d
    <3>2. d \div 256 \in Int /\ (d \div 16) % 16 \in Int /\ d % 16 \in Int
      BY <3>1
    <3>3. c = 1 \/ c = 2 \/ c = 3 OBVIOUS
    <3> QED BY <3>2, <3>3 DEF Representative
  <2> HIDE DEF d
  <2>6. Delta(bmp.pixel[x][c], Representative(d)[c]) > fuzz
    BY <2>1, <2>3, <2>4, <2>5, DeltaTriangle
  <2> QED BY <2>6 DEF NonBackground, d
<1>3. F \in SUBSET Places(bmp) BY DEF NonBackground
<1>4. IsFiniteSet(F) /\ f \in Nat /\ s \in Nat BY <1>3, PlacesCounted
<1>5. s <= f BY <1>2, <1>4, FS_Subset
<1>6. ~(1000 * f >= l) BY DEF HasContent
<1>7. l \in Int BY PlacesCounted
<1> HIDE DEF n, d, F, l, f, s
<1>8. 1000 * s < l BY <1>4, <1>5, <1>6, <1>7
<1> QED BY <1>8 DEF s, l, n

\* What does not match the golden picture's size or is far from it at more
\* than the allowed number of places.
LEMMA GoldenMissed ==
  ASSUME NEW a, IsBitmap(a), NEW g, IsBitmap(g), NEW tolerance \in Nat,
         NEW most \in Nat, ~Matches(a, g, tolerance, most),
         SameSize(a, g)
  PROVE  1000 * Cardinality({x \in Places(a) : \A c \in 1 .. 4 :
                  a.pixel[x][c] - g.pixel[x][c] \in -tolerance .. tolerance})
           < (1000 - most) * (a.width * a.height)
<1> DEFINE n == a.width * a.height
           D == Differing(a, g, tolerance)
           C == {x \in Places(a) : \A c \in 1 .. 4 :
                   a.pixel[x][c] - g.pixel[x][c] \in -tolerance .. tolerance}
           d == Cardinality(D)
           c == Cardinality(C)
           l == most * n
<1>1. ~(1000 * d <= l) BY DEF Matches
<1>2. IsFiniteSet(Places(a)) /\ Cardinality(Places(a)) = n /\ n \in Nat
  BY PlacesCounted
<1>3. C = Places(a) \ D BY NearOrDiffering
<1>4. D \in SUBSET Places(a) /\ d \in Nat BY PlacesCounted DEF Differing
<1>5. Cardinality(Places(a) \ D) = n - Cardinality(D)
  <2>1. Places(a) \cap D = D BY <1>4
  <2> QED BY <1>2, <1>4, <2>1, FS_Difference
<1> HIDE DEF n
<1>6. (1000 - most) * n = 1000 * n - l /\ l \in Int BY <1>2
<1>7. c = n - d BY <1>3, <1>5
<1> HIDE DEF D, C, d, c, l
<1>8. 1000 * c < 1000 * n - l BY <1>1, <1>2, <1>4, <1>6, <1>7
<1> QED BY <1>6, <1>8 DEF c, C, n

(***************************************************************************)
(* Types.                                                                  *)
(***************************************************************************)

\* While the launcher may still ask, a poll is left.
PollLeft == lpc \in {"unlink", "signal", "wait", "load", "sleep"} => polls > 0

LEMMA TypeInit == Init => TypeOK /\ PollLeft
<1> SUFFICES ASSUME Init PROVE TypeOK /\ PollLeft
  OBVIOUS
<1>1. 0 \in Frame /\ Old \in Picture BY DEF Frame, Picture
<1>2. 0 \in 0 .. PipeSize /\ 0 \in 0 .. MaxProbes /\ Polls \in 0 .. Polls
      /\ Polls > 0
  OBVIOUS
<1> QED BY <1>1, <1>2 DEF Init, TypeOK, PollLeft, Results, Ready

LEMMA TypeNext == TypeOK /\ PollLeft /\ [Next]_vars => TypeOK' /\ PollLeft'
<1> SUFFICES ASSUME TypeOK, PollLeft, [Next]_vars PROVE TypeOK' /\ PollLeft'
  OBVIOUS
<1> USE DEF TypeOK, PollLeft, Frame, Picture, Old, findings, launcher, server,
            file
<1>1. ASSUME Usr1 PROVE wpc' \in Ready \cup {"booting", "deaf", "dead"}
                        /\ pipe' \in 0 .. PipeSize
  BY <1>1 DEF Usr1
<1>2. CASE Unlink BY <1>2 DEF Unlink
<1>3. CASE Signal BY <1>1, <1>3 DEF Signal
<1>4. CASE FileSeen BY <1>4 DEF FileSeen
<1>5. CASE FileTimeout BY <1>5 DEF FileTimeout
<1>6. CASE Load
  <2>1. polls' \in 0 .. Polls
    <3>1. CASE polls' = polls BY <3>1
    <3>2. CASE polls' = polls - 1 BY <3>2, <1>6 DEF Load
    <3> QED BY <1>6, <3>1, <3>2 DEF Load
  <2>2. lpc' \in {"kill", "sleep"} /\ (lpc' = "sleep" => polls' # 0)
    BY <1>6 DEF Load
  <2>3. PollLeft' BY <2>1, <2>2
  <2>4. /\ judged' \in Picture /\ fraction' \in {"none", "low", "high"}
        /\ failed' \in BOOLEAN
    BY <1>6 DEF Load
  <2>5. UNCHANGED <<mode, goldenReads, got, result, wpc, pipe, shot, screen,
                    size, picture, linked, asking, probes>>
    BY <1>6 DEF Load
  <2>6. TypeOK' BY <2>1, <2>2, <2>4, <2>5
  <2> QED BY <2>3, <2>6
<1>7. CASE SleepAndAskAgain BY <1>7 DEF SleepAndAskAgain
<1>8. CASE Kill BY <1>8 DEF Kill
<1>9. CASE Judge
  <2>1. result' \in Results BY <1>9 DEF Judge, Verdict, Results
  <2> QED BY <1>9, <2>1 DEF Judge
<1>10. CASE InstallHandler \/ InstallFails
  <2>1. wpc' \in {"idle", "deaf"} BY <1>10 DEF InstallHandler, InstallFails
  <2>2. UNCHANGED <<launcher, pipe, shot, screen, file, probes>>
    BY <1>10 DEF InstallHandler, InstallFails
  <2> QED BY <2>1, <2>2 DEF Ready
<1>11. CASE Drain BY <1>11 DEF Drain, Ready
<1>12. CASE Capture BY <1>12 DEF Capture, Ready
<1>13. CASE Open
  <2>1. wpc' = "opened" /\ size' = "empty" /\ linked' = TRUE
    BY <1>13 DEF Open
  <2>2. picture' \in Frame BY <1>13 DEF Open
  <2>3. UNCHANGED <<launcher, pipe, shot, screen, probes>> BY <1>13 DEF Open
  <2> QED BY <2>1, <2>2, <2>3 DEF Ready
<1>14. CASE Write \/ OpenFails
  <2>1. wpc' \in {"idle", "writing"} BY <1>14 DEF Write, OpenFails
  <2>2. size' \in {size, "part", "full"} BY <1>14 DEF Write, OpenFails
  <2>3. UNCHANGED <<launcher, pipe, shot, screen, picture, linked, probes>>
    BY <1>14 DEF Write, OpenFails
  <2> QED BY <2>1, <2>2, <2>3 DEF Ready
<1>15. CASE Crash BY <1>15 DEF Crash
<1>16. CASE Paint BY <1>16 DEF Paint
<1>17. CASE Probe BY <1>1, <1>17 DEF Probe
<1>18. CASE UNCHANGED vars BY <1>18 DEF vars
<1> QED BY <1>2, <1>3, <1>4, <1>5, <1>6, <1>7, <1>8, <1>9, <1>10, <1>11, <1>12,
           <1>13, <1>14, <1>15, <1>16, <1>17, <1>18 DEF Next, Launcher, Server

\* Every variable of the protocol keeps its type: the pipe never holds more
\* than it can, and the polls are never fewer than none.
THEOREM TypeCorrect == Spec => []TypeOK
BY TypeInit, TypeNext, PTL DEF Spec

(***************************************************************************)
(* A success is about a picture of this session.                           *)
(***************************************************************************)

\* The picture of an earlier run is gone once the launcher has asked; what was
\* found, measured or judged is of this session; a success has its reasons.
FileFresh == /\ lpc # "unlink" /\ size # "absent" => picture # Old
             /\ linked \/ got => picture # Old
Measured  == /\ lpc \in {"load", "sleep"} => got /\ mode = "expect"
             /\ fraction # "none" => mode = "expect" /\ judged # Old
             /\ fraction = "high" => Shows[judged]
Judged    == /\ result # "none" => lpc = "done"
             /\ result = "ok" =>
                  /\ judged # Old
                  /\ mode = "golden" => LooksGolden[judged]
                  /\ mode = "expect" => fraction = "high"
Fresh     == FileFresh /\ Measured /\ Judged

\* What the launcher knows when it is content.
LEMMA ContentWith ==
  ASSUME TypeOK, Verdict = "ok"
  PROVE  /\ got
         /\ mode = "golden" => LooksGolden[picture]
         /\ mode = "expect" => fraction = "high"
<1>1. CASE ~got BY <1>1 DEF Verdict
<1>2. CASE got /\ mode = "expect" /\ fraction = "none" BY <1>2 DEF Verdict
<1>3. CASE got /\ mode = "expect" /\ fraction = "low" BY <1>3 DEF Verdict
<1>4. CASE got /\ mode = "golden" /\ ~LooksGolden[picture]
  BY <1>4 DEF Verdict
<1> QED BY <1>1, <1>2, <1>3, <1>4 DEF TypeOK

LEMMA FreshNext == TypeOK /\ Fresh /\ [Next]_vars => Fresh'
<1> SUFFICES ASSUME TypeOK, Fresh, [Next]_vars PROVE Fresh'
  OBVIOUS
<1> USE DEF Fresh, FileFresh, Measured, Judged, findings, launcher, server, file
<1>2. CASE Unlink BY <1>2 DEF Unlink
<1>3. CASE Signal BY <1>3 DEF Signal
<1>4. CASE FileSeen BY <1>4 DEF FileSeen
<1>5. CASE FileTimeout BY <1>5 DEF FileTimeout
<1>6. CASE Load
  <2>1. FileFresh' BY <1>6 DEF Load
  <2>2. picture # Old BY <1>6 DEF Load
  <2>3. Measured' BY <1>6, <2>2 DEF Load
  <2>4. Judged' BY <1>6 DEF Load
  <2> QED BY <2>1, <2>3, <2>4
<1>7. CASE SleepAndAskAgain BY <1>7 DEF SleepAndAskAgain
<1>8. CASE Kill BY <1>8 DEF Kill
<1>9. CASE Judge
  <2>1. FileFresh' /\ Measured' BY <1>9 DEF Judge
  <2>2. result' = "ok" =>
          /\ got
          /\ mode = "golden" => LooksGolden[picture]
          /\ mode = "expect" => fraction = "high"
    BY <1>9, ContentWith DEF Judge
  <2>3. Judged' BY <1>9, <2>2 DEF Judge
  <2> QED BY <2>1, <2>3
<1>10. CASE InstallHandler \/ InstallFails
  BY <1>10 DEF InstallHandler, InstallFails
<1>11. CASE Drain BY <1>11 DEF Drain
<1>12. CASE Capture BY <1>12 DEF Capture
<1>13. CASE Open
  <2>1. picture' # Old BY <1>13 DEF Open, TypeOK, Frame, Old
  <2> QED BY <1>13, <2>1 DEF Open
<1>14. CASE Write \/ OpenFails
  BY <1>14 DEF Write, OpenFails
<1>15. CASE Crash BY <1>15 DEF Crash
<1>16. CASE Paint BY <1>16 DEF Paint
<1>17. CASE Probe BY <1>17 DEF Probe
<1>18. CASE UNCHANGED vars BY <1>18 DEF vars
<1> QED BY <1>2, <1>3, <1>4, <1>5, <1>6, <1>7, <1>8, <1>9, <1>10, <1>11, <1>12,
           <1>13, <1>14, <1>15, <1>16, <1>17, <1>18 DEF Next, Launcher, Server

LEMMA FreshShown == TypeOK /\ Fresh => OkMeansShown
<1> SUFFICES ASSUME TypeOK, Fresh, result = "ok" PROVE OkMeansShown
  BY DEF OkMeansShown
<1>1. judged \in Picture /\ judged # Old BY DEF TypeOK, Fresh, Judged
<1>2. IsBitmap(Content[judged]) /\ IsBitmap(Golden) BY <1>1, PicturesAssumption
<1>3. mode = "golden" => Matches(Content[judged], Golden, Tolerance, MaxDiff)
  BY <1>1 DEF Fresh, Judged, LooksGolden
<1>4. mode = "expect" => HasContent(Content[judged], Fuzz, MinContent)
  BY <1>1 DEF Fresh, Measured, Judged, Shows
<1>5. mode = "golden" =>
        /\ Content[judged].width = Golden.width
        /\ Content[judged].height = Golden.height
  BY <1>3 DEF Matches, SameSize
<1>6. mode = "golden" =>
        1000 * Cardinality({x \in Places(Content[judged]) : \A c \in 1 .. 4 :
                 Content[judged].pixel[x][c] - Golden.pixel[x][c]
                   \in -Tolerance .. Tolerance})
          >= (1000 - MaxDiff) * (Content[judged].width * Content[judged].height)
  BY <1>2, <1>3, GoldenMeasured, PicturesAssumption
<1>7. mode = "expect" =>
        \A b \in Buckets(Content[judged]) :
          1000 * Cardinality(Members(Content[judged], b))
            <= (1000 - MinContent)
                 * (Content[judged].width * Content[judged].height)
  BY <1>2, <1>4, ContentMeasured, PicturesAssumption
<1> QED BY <1>1, <1>5, <1>6, <1>7 DEF OkMeansShown

\* A success is about a picture of this session that matches the golden picture
\* or has enough content, for every pictures and every bounds of either.
THEOREM SuccessIsEarned == Spec => []OkMeansShown
<1>1. Init => Fresh
  BY DEF Init, Fresh, FileFresh, Measured, Judged
<1> QED
  BY <1>1, TypeInit, TypeNext, FreshNext, FreshShown, PTL DEF Spec

(***************************************************************************)
(* A failure is about a picture of this session, too, and has its reasons: *)
(* the other half of what --expect-window and --golden are asked.          *)
(***************************************************************************)

\* Why the launcher stopped polling, and what it has judged since.
Stopped == /\ lpc \in {"kill", "judge"} /\ got /\ mode = "expect" =>
                \/ fraction = "high"
                \/ fraction = "low" /\ (failed \/ polls = 0)
                \/ fraction = "none" /\ failed
           /\ fraction = "low" => ~Shows[judged]
           /\ lpc \in {"judge", "done"} => wpc = "dead"

\* Every failure names its reason.
Blamed  == /\ result # "none" => lpc = "done"
           /\ result = "no_window" =>
                mode = "expect" /\ fraction = "low" /\ (failed \/ polls = 0)
           /\ result = "read_failed" => failed
           /\ result = "mismatch" => /\ got
                                     /\ size = "full" /\ goldenReads =>
                                          ~LooksGolden[picture]
Failing == Stopped /\ Blamed

\* The picture bmp lacks what a window brings: what stands out from a pixel of
\* the background by more than the fuzz and the width of a bucket is too little.
Lacking(bmp) ==
  \A back \in Places(bmp), far \in SUBSET Places(bmp) :
    /\ IsDominant(bmp, Bucket(bmp.pixel[back]))
    /\ \A x \in far : \E c \in 1 .. 3 :
         Delta(bmp.pixel[x][c], bmp.pixel[back][c]) > Fuzz + 15
    => 1000 * Cardinality(far) < MinContent * (bmp.width * bmp.height)

\* The picture bmp is not the golden one.
Unlike(bmp) ==
  SameSize(bmp, Golden) =>
    1000 * Cardinality({x \in Places(bmp) : \A c \in 1 .. 4 :
             bmp.pixel[x][c] - Golden.pixel[x][c] \in -Tolerance .. Tolerance})
      < (1000 - MaxDiff) * (bmp.width * bmp.height)

\* What a failure says: a missing window was missing in the last picture that
\* could be read, with every poll used or a picture that could not be read; a
\* read failure was one; a mismatch of a whole file with a golden that can be
\* read is a mismatch.
FailureMeansMissing ==
  /\ result = "no_window" =>
       judged # Old /\ Lacking(Content[judged]) /\ (failed \/ polls = 0)
  /\ result = "read_failed" => failed
  /\ result = "mismatch" /\ size = "full" /\ goldenReads =>
       picture # Old /\ Unlike(Content[picture])

\* What the launcher knows when it is not content.
LEMMA Verdicts ==
  ASSUME TypeOK
  PROVE  /\ Verdict = "no_window" => got /\ mode = "expect" /\ fraction = "low"
         /\ Verdict = "read_failed" =>
              got /\ mode = "expect" /\ fraction = "none"
         /\ Verdict = "mismatch" =>
              got /\ (size = "full" /\ goldenReads => ~LooksGolden[picture])
<1>1. CASE ~got
  <2>1. Verdict = "no_shot" BY <1>1 DEF Verdict
  <2> QED BY <2>1
<1>2. CASE got /\ mode = "expect" /\ fraction = "none"
  <2>1. Verdict = "read_failed" BY <1>2 DEF Verdict
  <2> QED BY <1>2, <2>1
<1>3. CASE got /\ mode = "expect" /\ fraction = "low"
  <2>1. Verdict = "no_window" BY <1>3 DEF Verdict
  <2> QED BY <1>3, <2>1
<1>4. CASE /\ got /\ mode = "golden"
           /\ ~(size = "full" /\ goldenReads /\ LooksGolden[picture])
  <2>1. Verdict = "mismatch" BY <1>4 DEF Verdict
  <2> QED BY <1>4, <2>1
<1>5. CASE /\ got /\ ~(mode = "expect" /\ fraction \in {"none", "low"})
           /\ ~(/\ mode = "golden"
                /\ ~(size = "full" /\ goldenReads /\ LooksGolden[picture]))
  <2>1. Verdict = "ok" BY <1>5 DEF Verdict
  <2> QED BY <2>1
<1> QED BY <1>1, <1>2, <1>3, <1>4, <1>5

\* Every step keeps the reasons.
LEMMA FailingNext == TypeOK /\ Fresh /\ Failing /\ [Next]_vars => Failing'
<1> SUFFICES ASSUME TypeOK, Fresh, Failing, [Next]_vars PROVE Failing'
  OBVIOUS
<1> USE DEF Failing, Stopped, Blamed, findings, launcher, server, file
<1>1. CASE Unlink \/ Signal \/ Probe
  <2>1. /\ wpc = "dead" => wpc' = "dead"
        /\ lpc' \notin {"kill", "judge"} \/ lpc' = lpc
        /\ lpc' = "done" => lpc = "done"
        /\ lpc = "done" => lpc' = "done"
        /\ UNCHANGED <<mode, goldenReads, got, fraction, polls, failed, judged,
                       result, picture>>
        /\ size' = size \/ lpc = "unlink"
    BY <1>1 DEF Unlink, Signal, Probe, Usr1
  <2> QED BY <2>1
<1>2. CASE FileSeen BY <1>2 DEF FileSeen, Fresh, Measured
<1>3. CASE FileTimeout BY <1>3 DEF FileTimeout
<1>4. CASE Load BY <1>4 DEF Load, TypeOK
<1>5. CASE SleepAndAskAgain BY <1>5 DEF SleepAndAskAgain
<1>6. CASE Kill BY <1>6 DEF Kill
<1>7. CASE Judge
  <2>1. Stopped' BY <1>7 DEF Judge, Fresh, Measured
  <2>2. Blamed' BY <1>7, Verdicts DEF Judge
  <2> QED BY <2>1, <2>2
<1>8. CASE InstallHandler \/ InstallFails
  BY <1>8 DEF InstallHandler, InstallFails
<1>9. CASE Drain \/ Capture BY <1>9 DEF Drain, Capture
<1>10. CASE Open BY <1>10 DEF Open
<1>11. CASE Write \/ OpenFails
  BY <1>11 DEF Write, OpenFails
<1>12. CASE Crash BY <1>12 DEF Crash
<1>13. CASE Paint BY <1>13 DEF Paint
<1>14. CASE UNCHANGED vars BY <1>14 DEF vars
<1> QED BY <1>1, <1>2, <1>3, <1>4, <1>5, <1>6, <1>7, <1>8, <1>9, <1>10, <1>11,
           <1>12, <1>13, <1>14 DEF Next, Launcher, Server

\* The measure and the comparison give them their meaning.
LEMMA FailingShown == TypeOK /\ Fresh /\ Failing => FailureMeansMissing
<1> SUFFICES ASSUME TypeOK, Fresh, Failing PROVE FailureMeansMissing OBVIOUS
<1>1. judged \in Picture /\ picture \in Picture BY DEF TypeOK
<1>2. ASSUME result = "no_window"
      PROVE  judged # Old /\ Lacking(Content[judged]) /\ (failed \/ polls = 0)
  <2> DEFINE bmp == Content[judged]
  <2>1. fraction = "low" /\ (failed \/ polls = 0)
    BY <1>2 DEF Failing, Blamed
  <2>2. judged # Old BY <2>1 DEF Fresh, Measured
  <2>3. IsBitmap(bmp) BY <1>1, PicturesAssumption
  <2>4. ~HasContent(bmp, Fuzz, MinContent)
    BY <1>1, <2>1 DEF Failing, Stopped, Shows
  <2>5. Fuzz \in Nat /\ MinContent \in Nat BY PicturesAssumption
  <2> HIDE DEF bmp
  <2>6. ASSUME NEW back \in Places(bmp), NEW far \in SUBSET Places(bmp),
               IsDominant(bmp, Bucket(bmp.pixel[back])),
               \A x \in far : \E c \in 1 .. 3 :
                 Delta(bmp.pixel[x][c], bmp.pixel[back][c]) > Fuzz + 15
        PROVE  1000 * Cardinality(far) < MinContent * (bmp.width * bmp.height)
    BY <2>3, <2>4, <2>5, <2>6, NothingStandsOut
  <2>7. Lacking(bmp) BY <2>6 DEF Lacking
  <2> QED BY <2>1, <2>2, <2>7 DEF bmp
<1>3. result = "read_failed" => failed BY DEF Failing, Blamed
<1>4. ASSUME result = "mismatch", size = "full", goldenReads
      PROVE  picture # Old /\ Unlike(Content[picture])
  <2> DEFINE bmp == Content[picture]
  <2>1. got /\ ~LooksGolden[picture] BY <1>4 DEF Failing, Blamed
  <2>2. picture # Old BY <2>1 DEF Fresh, FileFresh
  <2>3. /\ IsBitmap(bmp) /\ IsBitmap(Golden)
        /\ Tolerance \in Nat /\ MaxDiff \in Nat
    BY <1>1, PicturesAssumption
  <2>4. ~Matches(bmp, Golden, Tolerance, MaxDiff)
    BY <1>1, <2>1 DEF LooksGolden
  <2> HIDE DEF bmp
  <2>5. Unlike(bmp) BY <2>3, <2>4, GoldenMissed DEF Unlike
  <2> QED BY <2>2, <2>5 DEF bmp
<1> QED BY <1>2, <1>3, <1>4 DEF FailureMeansMissing

\* No failure is reported of a picture that has what was asked for: --golden,
\* when it can be read, fails a whole file only for its size or for more than
\* the allowed number of pixels beyond the tolerance, and "no window appeared"
\* is said only of a picture of this session in which too little stands out from
\* its background, after the last poll or a picture that could not be read
\* (main's poll loop, compare_golden, non_background_fraction).
THEOREM FailureIsEarned == Spec => []FailureMeansMissing
<1>1. Init => Fresh /\ Failing
  BY DEF Init, Fresh, FileFresh, Measured, Judged, Failing, Stopped, Blamed
<1> QED
  BY <1>1, TypeInit, TypeNext, FreshNext, FailingNext, FailingShown, PTL
  DEF Spec

(***************************************************************************)
(* While only the launcher asks, at most one request is under way, and     *)
(* what it leads to is newer than the asking.                              *)
(***************************************************************************)

\* No request is under way when the launcher is about to ask.
Quiet == /\ lpc \in {"unlink", "signal", "sleep"} \/ size = "full" =>
              pipe = 0 /\ wpc \in {"booting", "deaf", "idle", "dead"}
         /\ lpc = "signal" => size = "absent"
         /\ lpc = "sleep" => size = "full"

\* The stages of a request: a byte in the pipe, a picture, a file.
Stages == /\ pipe > 0 => wpc = "idle" /\ size = "absent"
          /\ wpc \in {"drained", "captured"} => size = "absent"
          /\ wpc = "opened" => size = "empty" /\ linked
          /\ wpc = "writing" => size = "part" /\ linked

\* What was captured or written answers the last request.
Newer == /\ asking <= screen
         /\ wpc = "captured" => \A s \in shot : s >= asking
         /\ lpc # "unlink" /\ size # "absent" => picture >= asking
         /\ got /\ lpc \in {"load", "sleep", "kill", "judge", "done"} =>
              size # "absent"

Answering == probes = 0 => Quiet /\ Stages /\ Newer
Reported  == result \notin {"none", "no_shot"} => got /\ lpc = "done"

LEMMA AnsweringNext == TypeOK /\ Answering /\ [Next]_vars => Answering'
<1> SUFFICES ASSUME TypeOK, Answering, [Next]_vars, probes' = 0
             PROVE  Quiet' /\ Stages' /\ Newer'
  BY DEF Answering
<1>1. CASE Probe
  <2>1. probes' = probes + 1 /\ probes \in Nat BY <1>1 DEF Probe, TypeOK
  <2> QED BY <2>1
<1>2. CASE probes' = probes /\ ~Probe
  <2>1. Quiet /\ Stages /\ Newer BY <1>2 DEF Answering
  <2>2. /\ pipe \in Nat /\ screen \in Int /\ asking \in Int /\ picture \in Int
        /\ \A s \in shot : s \in Int
    BY DEF TypeOK, Frame, Picture, Old
  <2> USE <2>1, <2>2 DEF Quiet, Stages, Newer, findings, launcher, server, file
  <2>3. CASE Unlink BY <2>3 DEF Unlink
  <2>4. CASE Signal
    <3>1. /\ pipe = 0 /\ size = "absent"
          /\ wpc \in {"booting", "deaf", "idle", "dead"}
      BY <2>4 DEF Signal
    <3>2. pipe' > 0 => wpc' = "idle" BY <2>4, <3>1 DEF Signal, Usr1, Ready
    <3>3. wpc' \in {"booting", "deaf", "idle", "dead"}
      BY <2>4, <3>1 DEF Signal, Usr1
    <3> QED BY <2>4, <3>1, <3>2, <3>3 DEF Signal
  <2>5. CASE FileSeen BY <2>5 DEF FileSeen
  <2>6. CASE FileTimeout BY <2>6 DEF FileTimeout
  <2>7. CASE Load
    <3>1. /\ lpc = "load" /\ lpc' \in {"kill", "sleep"}
          /\ lpc' = "sleep" => size = "full"
          /\ UNCHANGED <<got, wpc, pipe, shot, screen, size, picture, linked,
                         asking>>
      BY <2>7 DEF Load
    <3> QED BY <3>1
  <2>8. CASE SleepAndAskAgain BY <2>8 DEF SleepAndAskAgain
  <2>9. CASE Kill BY <2>9 DEF Kill
  <2>10. CASE Judge BY <2>10 DEF Judge
  <2>11. CASE InstallHandler \/ InstallFails
    BY <2>11 DEF InstallHandler, InstallFails
  <2>12. CASE Drain BY <2>12 DEF Drain
  <2>13. CASE Capture BY <2>13 DEF Capture
  <2>14. CASE Open
    <3>1. picture' \in shot /\ \A s \in shot : s >= asking BY <2>14 DEF Open
    <3>2. pipe = 0 BY <2>14 DEF Open
    <3>3. lpc \notin {"unlink", "signal", "sleep"} BY <2>14 DEF Open
    <3> QED BY <2>14, <3>1, <3>2, <3>3 DEF Open
  <2>19. CASE OpenFails BY <2>19 DEF OpenFails
  <2>15. CASE Write
    <3>1. wpc \in {"opened", "writing"} /\ pipe = 0 /\ linked BY <2>15 DEF Write
    <3>2. lpc \notin {"unlink", "signal", "sleep"} BY <3>1
    <3>3. \/ wpc = "opened" /\ wpc' = "writing" /\ size' = "part"
          \/ wpc = "writing" /\ wpc' = "idle" /\ size' = "full"
      BY <2>15, <3>1 DEF Write
    <3>4. UNCHANGED <<lpc, got, pipe, shot, screen, picture, linked, asking>>
      BY <2>15 DEF Write
    <3> QED BY <3>1, <3>2, <3>3, <3>4
  <2>16. CASE Crash BY <2>16 DEF Crash
  <2>17. CASE Paint BY <2>17 DEF Paint
  <2>18. CASE UNCHANGED vars BY <2>18 DEF vars
  <2> QED BY <1>2, <2>3, <2>4, <2>5, <2>6, <2>7, <2>8, <2>9, <2>10, <2>11,
             <2>12, <2>13, <2>14, <2>15, <2>16, <2>17, <2>18, <2>19
          DEF Next, Launcher, Server
<1>3. Probe \/ probes' = probes
  BY DEF Next, Launcher, Server, Unlink, Signal, FileSeen, FileTimeout, Load,
         SleepAndAskAgain, Kill, Judge, InstallHandler, InstallFails, Drain,
         Capture, Open, OpenFails, Write, Crash, Paint, vars
<1> QED BY <1>1, <1>2, <1>3

LEMMA ReportedNext == TypeOK /\ Reported /\ [Next]_vars => Reported'
<1> SUFFICES ASSUME TypeOK, Reported, [Next]_vars PROVE Reported'
  OBVIOUS
<1>1. CASE Judge
  <2>1. ~got => Verdict = "no_shot" BY DEF Verdict
  <2> QED BY <1>1, <2>1 DEF Judge, Reported
<1>2. CASE ~Judge
  <2>1. result' = result
    BY <1>2 DEF Next, Launcher, Server, Unlink, Signal, FileSeen, FileTimeout,
         Load, SleepAndAskAgain, Kill, InstallHandler, InstallFails, Drain,
         Capture, Open, OpenFails, Write, Crash, Paint, Probe, vars, findings, launcher
  <2>2. lpc = "done" => lpc' = "done" /\ got' = got
    BY <1>2 DEF Next, Launcher, Server, Unlink, Signal, FileSeen, FileTimeout,
         Load, SleepAndAskAgain, Kill, InstallHandler, InstallFails, Drain,
         Capture, Open, OpenFails, Write, Crash, Paint, Probe, vars, findings, launcher
  <2> QED BY <2>1, <2>2 DEF Reported
<1> QED BY <1>1, <1>2

\* The picture the launcher reports on was captured after its last request,
\* however often it asked before and whatever WindowServer was doing.
THEOREM AnswerIsCurrent == Spec => []ShotAfterRequest
<1>1. Init => Answering /\ Reported
  BY DEF Init, Answering, Reported, Quiet, Stages, Newer
<1>2. TypeOK /\ Answering /\ Reported => ShotAfterRequest
  BY DEF Answering, Reported, Newer, ShotAfterRequest, TypeOK
<1> QED
  BY <1>1, <1>2, TypeInit, TypeNext, AnsweringNext, ReportedNext, PTL DEF Spec

(***************************************************************************)
(* The trigger implements ShotService: every step of the launcher, of      *)
(* WindowServer and of the drivers is one of its steps or a stutter.       *)
(***************************************************************************)

\* A SIGUSR1 asks, ends a WindowServer without a handler, or meets none.
LEMMA Usr1Step ==
  TypeOK /\ Usr1 /\ UNCHANGED <<screen, shot>>
    => [Promise!Next]_(Promise!vars)
<1> SUFFICES ASSUME TypeOK, Usr1, UNCHANGED <<screen, shot>>
             PROVE  [Promise!Next]_(Promise!vars)
  OBVIOUS
<1> USE DEF Promise!vars, Promise!Next
<1>1. CASE wpc \in {"booting", "deaf"} /\ wpc' = "dead" /\ UNCHANGED pipe
  BY <1>1 DEF Promise!Die
<1>2. CASE /\ wpc \in Ready
           /\ pipe' = IF pipe < PipeSize THEN pipe + 1 ELSE pipe
           /\ UNCHANGED wpc
  <2>1. pipe' > 0 BY <1>2 DEF TypeOK
  <2>2. wpc # "dead" /\ wpc' # "dead" BY <1>2 DEF Ready
  <2> QED BY <1>2, <2>1, <2>2 DEF Promise!Ask
<1>3. CASE wpc = "dead" /\ UNCHANGED <<wpc, pipe>> BY <1>3
<1> QED BY <1>1, <1>2, <1>3 DEF Usr1

LEMMA PromiseStep ==
  TypeOK /\ [Next]_vars => [Promise!Next]_(Promise!vars)
<1> SUFFICES ASSUME TypeOK, [Next]_vars PROVE [Promise!Next]_(Promise!vars)
  OBVIOUS
<1> USE DEF Promise!vars, launcher, server, findings
<1>1. CASE UNCHANGED <<wpc, pipe, shot, screen>> BY <1>1
<1>2. CASE Signal BY <1>2, Usr1Step DEF Signal
<1>3. CASE Probe BY <1>3, Usr1Step DEF Probe
<1>4. CASE Kill BY <1>4 DEF Kill, Promise!Next, Promise!Die
<1>5. CASE Crash BY <1>5 DEF Crash, Promise!Next, Promise!Die
<1>6. CASE InstallHandler \/ InstallFails
  BY <1>6 DEF InstallHandler, InstallFails
\* The pipe is empty and the request is still owed a picture.
<1>7. CASE Drain BY <1>7 DEF Drain
\* What asks between the drain and here finds the pipe filled again.
<1>8. CASE Capture
  <2>1. wpc = "drained" /\ wpc' = "captured" /\ shot' = {screen}
        /\ UNCHANGED <<pipe, screen>>
    BY <1>8 DEF Capture
  <2> QED BY <2>1 DEF Promise!Next, Promise!Take
<1>9. CASE Open BY <1>9 DEF Open
<1>10. CASE Write \/ OpenFails
  BY <1>10 DEF Write, OpenFails
<1>11. CASE Paint
  <2>1. screen' \in Frame BY <1>11 DEF Paint, TypeOK, Frame
  <2> QED BY <1>11, <2>1 DEF Paint, Promise!Next, Promise!Paint
<1>12. ASSUME Unlink \/ FileSeen \/ FileTimeout \/ Load \/ SleepAndAskAgain
              \/ Judge \/ UNCHANGED vars
       PROVE  UNCHANGED <<wpc, pipe, shot, screen>>
  BY <1>12 DEF Unlink, FileSeen, FileTimeout, Load, SleepAndAskAgain, Judge, vars
<1> QED BY <1>1, <1>2, <1>3, <1>4, <1>5, <1>6, <1>7, <1>8, <1>9, <1>10, <1>11,
           <1>12 DEF Next, Launcher, Server

\* No SIGUSR1 is forgotten while WindowServer lives: from the one that asks to
\* the capture that answers it a byte is in the pipe or the event loop is about
\* to capture, whatever the pipe's size and however many requests share a
\* drain.  (That the capture is made at all is ImplementsShotService's other
\* half, its fairness.)
THEOREM RequestsRemembered == Spec => Promise!Safe
<1>1. Init => Promise!Init
  <2>1. 0 \in Frame BY DEF Frame
  <2> QED BY <2>1 DEF Init, Promise!Init
<1> QED BY <1>1, TypeInit, TypeNext, PromiseStep, PTL DEF Spec, Promise!Safe
=============================================================================
