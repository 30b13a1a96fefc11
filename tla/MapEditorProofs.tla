-------------------------- MODULE MapEditorProofs --------------------------
(***************************************************************************)
(* MapEditor, for any maps, palette, item types and depth of history: undo *)
(* and redo are a line of versions with a cursor on it; the browser asks   *)
(* before unsaved work is replaced; what is saved is read again; and a     *)
(* title without a star means that the file holds what is on the canvas.   *)
(*                                                                         *)
(* The reader and the writer come first (ReadOn to RoundTrip), then the    *)
(* history, the prompt, and the invariant of the canvas and the files.     *)
(***************************************************************************)
EXTENDS MapEditor, SequenceTheorems, FiniteSetTheorems, WellFoundedInduction, TLAPS

----------------------------------------------------------------------------
(* Counting up, as the steps below need it: the library's induction takes  *)
(* an operator, a set serves as well.                                      *)

LEMMA Induction ==
    ASSUME NEW S, 0 \in S, \A n \in Nat : n \in S => n + 1 \in S
    PROVE  \A n \in Nat : n \in S
  <1> DEFINE Rest == Nat \ S
             Less == OpToRel(<, Nat)
  <1>1. SUFFICES ASSUME Rest # {} PROVE FALSE
    OBVIOUS
  <1>2. \E n \in Rest : \A m \in Rest : ~ (<<m, n>> \in Less)
    <2>1. IsWellFoundedOn(Less, Nat)
      BY NatLessThanWellFounded
    <2>2. Rest \subseteq Nat
      OBVIOUS
    <2> HIDE DEF Rest, Less
    <2> QED BY <1>1, <2>1, <2>2, WFMin
  <1>3. PICK n \in Rest : \A m \in Rest : ~ (<<m, n>> \in Less)
    BY <1>2
  <1>4. n # 0 /\ n - 1 \in Nat /\ n - 1 < n
    OBVIOUS
  <1>5. n - 1 \in S
    BY <1>3, <1>4 DEF OpToRel
  <1>6. n - 1 + 1 = n
    OBVIOUS
  <1> QED BY <1>4, <1>5, <1>6

----------------------------------------------------------------------------
(* The reader, line after line. *)

(* The states of the reader over some lines. *)
Reads(f, p, lines, blockers) ==
    /\ f[0] = p
    /\ \A k \in 1..Len(lines) : f[k] = ReadLine(f[k - 1], lines[k], blockers)

LEMMA ReadIs ==
    ASSUME NEW p, NEW lines, Len(lines) \in Nat, NEW blockers
    PROVE  \E f : Reads(f, p, lines, blockers) /\ Read(p, lines, blockers) = f[Len(lines)]
  <1> DEFINE n == Len(lines)
             Run(f, m) == f = [k \in 0..m |-> IF k = 0 THEN p
                                              ELSE ReadLine(f[k - 1], lines[k], blockers)]
             run == CHOOSE f : Run(f, n)
             Good == {m \in Nat : \E f : Run(f, m)}
  <1>1. 0 \in Good
    <2> DEFINE z == [k \in 0..0 |-> p]
    <2>1. z = [k \in 0..0 |-> IF k = 0 THEN p ELSE ReadLine(z[k - 1], lines[k], blockers)]
      OBVIOUS
    <2> HIDE DEF z
    <2> QED BY <2>1
  <1>2. ASSUME NEW m \in Nat, m \in Good PROVE m + 1 \in Good
    <2>1. PICK f : Run(f, m)
      BY <1>2
    <2> DEFINE g == [k \in 0..(m + 1) |-> IF k = m + 1 THEN ReadLine(f[m], lines[m + 1], blockers)
                                          ELSE f[k]]
               h == [k \in 0..(m + 1) |-> IF k = 0 THEN p ELSE ReadLine(g[k - 1], lines[k], blockers)]
    <2>2. ASSUME NEW k \in 0..(m + 1) PROVE g[k] = h[k]
      <3>1. CASE k = 0
        BY <2>1, <3>1
      <3>2. CASE k = m + 1
        <4>1. g[k - 1] = f[m] /\ k # 0
          BY <3>2
        <4> QED BY <4>1, <3>2
      <3>3. CASE k # 0 /\ k # m + 1
        <4>1. k \in 0..m /\ k - 1 \in 0..m /\ k - 1 # m + 1
          BY <3>3
        <4>2. g[k] = f[k] /\ g[k - 1] = f[k - 1]
          BY <3>3, <4>1
        <4>3. f[k] = ReadLine(f[k - 1], lines[k], blockers)
          BY <2>1, <3>3, <4>1
        <4> HIDE DEF g
        <4> QED BY <4>2, <4>3, <3>3
      <3> QED BY <3>1, <3>2, <3>3
    <2>3. g = h
      <3>1. g = [k \in 0..(m + 1) |-> g[k]] /\ h = [k \in 0..(m + 1) |-> h[k]]
        OBVIOUS
      <3> HIDE DEF g, h
      <3> QED BY <2>2, <3>1
    <2>4. Run(g, m + 1)
      BY <2>3
    <2> HIDE DEF g, Run
    <2> QED BY <2>4
  <1>3. n \in Good
    <2> HIDE DEF Good
    <2> QED BY <1>1, <1>2, Induction
  <1>4. Run(run, n)
    <2> HIDE DEF Run
    <2> QED BY <1>3
  <1>5. Read(p, lines, blockers) = run[n]
    BY DEF Read
  <1> HIDE DEF run
  <1>6. run[0] = p
    BY <1>4
  <1>7. \A k \in 1..n : run[k] = ReadLine(run[k - 1], lines[k], blockers)
    <2>1. \A k \in 0..n : run[k] = IF k = 0 THEN p ELSE ReadLine(run[k - 1], lines[k], blockers)
      BY <1>4
    <2> QED BY <2>1
  <1> QED BY <1>5, <1>6, <1>7 DEF Reads

(* There is only one way to read. *)
LEMMA ReadsToTheEnd ==
    ASSUME NEW p, NEW lines, Len(lines) \in Nat, NEW blockers, NEW f, Reads(f, p, lines, blockers)
    PROVE  Read(p, lines, blockers) = f[Len(lines)]
  <1>1. PICK g : Reads(g, p, lines, blockers) /\ Read(p, lines, blockers) = g[Len(lines)]
    BY ReadIs
  <1> DEFINE Good == {k \in Nat : k <= Len(lines) => f[k] = g[k]}
  <1>2. 0 \in Good
    BY <1>1 DEF Reads
  <1>3. ASSUME NEW k \in Nat, k \in Good PROVE k + 1 \in Good
    <2>1. SUFFICES ASSUME k + 1 <= Len(lines) PROVE f[k + 1] = g[k + 1]
      OBVIOUS
    <2>2. k + 1 \in 1..Len(lines) /\ k + 1 - 1 = k
      BY <2>1
    <2>3. f[k] = g[k]
      BY <1>3, <2>1
    <2> QED BY <1>1, <2>2, <2>3 DEF Reads
  <1> HIDE DEF Good
  <1>4. Len(lines) \in Good
    BY <1>2, <1>3, Induction
  <1> QED BY <1>1, <1>4 DEF Good

LEMMA ReadNothing ==
    ASSUME NEW p, NEW blockers
    PROVE  Read(p, <<>>, blockers) = p
  <1>1. PICK f : Reads(f, p, <<>>, blockers) /\ Read(p, <<>>, blockers) = f[Len(<<>>)]
    BY ReadIs
  <1> QED BY <1>1 DEF Reads

LEMMA ReadOne ==
    ASSUME NEW p, NEW line, NEW blockers
    PROVE  Read(p, <<line>>, blockers) = ReadLine(p, line, blockers)
  <1>0. Len(<<line>>) = 1 /\ <<line>>[1] = line
    OBVIOUS
  <1>1. PICK f : Reads(f, p, <<line>>, blockers) /\ Read(p, <<line>>, blockers) = f[1]
    BY <1>0, ReadIs
  <1> QED BY <1>0, <1>1 DEF Reads

(* One part of a text after another. *)
LEMMA ReadOn ==
    ASSUME NEW S, NEW s \in Seq(S), NEW t \in Seq(S), NEW p, NEW blockers
    PROVE  Read(p, s \o t, blockers) = Read(Read(p, s, blockers), t, blockers)
  <1>1. /\ s \o t \in Seq(S) /\ Len(s \o t) = Len(s) + Len(t)
        /\ \A k \in 1..Len(s) : (s \o t)[k] = s[k]
        /\ \A k \in 1..Len(t) : (s \o t)[Len(s) + k] = t[k]
        /\ Len(s) \in Nat /\ Len(t) \in Nat
    OBVIOUS
  <1>2. PICK f : Reads(f, p, s, blockers) /\ Read(p, s, blockers) = f[Len(s)]
    BY <1>1, ReadIs
  <1>3. PICK g : Reads(g, f[Len(s)], t, blockers) /\ Read(f[Len(s)], t, blockers) = g[Len(t)]
    BY <1>1, ReadIs
  <1> DEFINE h == [k \in 0..Len(s) + Len(t) |-> IF k <= Len(s) THEN f[k] ELSE g[k - Len(s)]]
             st == s \o t
  <1>4. Reads(h, p, st, blockers)
    <2>1. h[0] = p
      BY <1>1, <1>2 DEF Reads
    <2>2. ASSUME NEW k \in 1..Len(s) + Len(t) PROVE h[k] = ReadLine(h[k - 1], st[k], blockers)
      <3>1. CASE k <= Len(s)
        <4>1. h[k] = f[k] /\ h[k - 1] = f[k - 1] /\ k \in 1..Len(s)
          BY <1>1, <3>1
        <4>2. st[k] = s[k]
          BY <1>1, <4>1
        <4> HIDE DEF h, st
        <4> QED BY <1>2, <4>1, <4>2 DEF Reads
      <3>2. CASE k = Len(s) + 1
        <4>1. h[k] = g[1] /\ h[k - 1] = f[Len(s)] /\ 1 \in 1..Len(t) /\ 1 - 1 = 0
          BY <1>1, <3>2
        <4>2. st[k] = t[1]
          BY <1>1, <3>2, <4>1
        <4>3. g[1] = ReadLine(g[0], t[1], blockers) /\ g[0] = f[Len(s)]
          BY <1>3, <4>1 DEF Reads
        <4> HIDE DEF h, st
        <4> QED BY <4>1, <4>2, <4>3
      <3>3. CASE k > Len(s) + 1
        <4> DEFINE j == k - Len(s)
        <4>1. j \in 1..Len(t) /\ k = Len(s) + j /\ k - 1 - Len(s) = j - 1
          BY <1>1, <3>3
        <4>2. h[k] = g[j] /\ h[k - 1] = g[j - 1]
          BY <1>1, <3>3, <4>1
        <4>3. st[k] = t[j]
          BY <1>1, <4>1
        <4>4. g[j] = ReadLine(g[j - 1], t[j], blockers)
          BY <1>3, <4>1 DEF Reads
        <4> HIDE DEF h, st, j
        <4> QED BY <4>2, <4>3, <4>4
      <3> QED BY <1>1, <3>1, <3>2, <3>3
    <2> HIDE DEF h
    <2> QED BY <1>1, <2>1, <2>2 DEF Reads
  <1>5. h[Len(s) + Len(t)] = g[Len(t)]
    <2>1. CASE Len(t) = 0
      BY <1>1, <1>3, <2>1 DEF Reads
    <2>2. CASE Len(t) # 0
      BY <1>1, <2>2
    <2> QED BY <2>1, <2>2
  <1>6. Read(p, st, blockers) = h[Len(st)]
    <2> HIDE DEF h
    <2>1. Len(st) \in Nat
      BY <1>1
    <2> HIDE DEF st
    <2> QED BY <1>4, <2>1, ReadsToTheEnd
  <1> QED BY <1>1, <1>2, <1>3, <1>5, <1>6

----------------------------------------------------------------------------
(* The order of the cells. *)

LEMMA TimesKeepsOrder ==
    ASSUME NEW a \in Nat, NEW b \in Nat, a <= b, NEW c \in Nat
    PROVE  a * c <= b * c /\ a * c \in Nat /\ b * c \in Nat
  <1>1. b * c = a * c + (b - a) * c
    OBVIOUS
  <1>2. (b - a) * c >= 0
    OBVIOUS
  <1> QED BY <1>1, <1>2

LEMMA Quotients ==
    ASSUME NEW w \in Nat \ {0}, NEW q \in Nat, NEW x \in 0..(w - 1)
    PROVE  (q * w + x) \div w = q /\ ((q * w + x) % w) = x
  <1> DEFINE n == q * w + x
             d == n \div w
             r == n % w
  <1>1. n \in Nat /\ d \in Int /\ r \in 0..(w - 1) /\ n = w * d + r
    OBVIOUS
  <1>2. d = q
    <2> HIDE DEF d, r
    <2>1. w * (d - q) = x - r
      BY <1>1
    <2>2. CASE d - q >= 1
      <3>1. w * (d - q) >= w
        BY <1>1, <2>2
      <3> QED BY <1>1, <2>1, <3>1
    <2>3. CASE d - q <= -1
      <3>1. w * (d - q) <= -w
        BY <1>1, <2>3
      <3> QED BY <1>1, <2>1, <3>1
    <2> QED BY <1>1, <2>2, <2>3
  <1>3. r = x
    <2> HIDE DEF d, r
    <2> QED BY <1>1, <1>2
  <1> QED BY <1>2, <1>3

LEMMA DivBound ==
    ASSUME NEW w \in Nat \ {0}, NEW m \in Nat, NEW n \in Nat, n < m * w
    PROVE  n \div w \in 0..(m - 1) /\ (n % w) \in 0..(w - 1)
  <1> DEFINE d == n \div w
             r == n % w
  <1>1. d \in Int /\ r \in 0..(w - 1) /\ n = w * d + r
    OBVIOUS
  <1>2. d \in 0..(m - 1)
    <2> HIDE DEF d, r
    <2>1. CASE d >= m
      <3>1. w * d >= m * w
        BY <1>1, <2>1
      <3> QED BY <1>1, <3>1
    <2>2. CASE d <= -1
      <3>1. w * d <= -w
        BY <1>1, <2>2
      <3> QED BY <1>1, <3>1
    <2> QED BY <1>1, <2>1, <2>2
  <1> QED BY <1>1, <1>2

(* What a map is. *)
Dims  == Nat \ {0}
Kinds == [ground : TileIds, object : TileIds, blocking : BOOLEAN]

IsMap(m) ==
    /\ m = [width |-> m.width, height |-> m.height, floors |-> m.floors, tiles |-> m.tiles]
    /\ m.width \in Dims /\ m.height \in Dims /\ m.floors \in Dims
    /\ m.tiles \in [Cells(m.width, m.height, m.floors) -> Kinds]

Size(m) == m.width * m.height * m.floors

(* The scan meets every cell and only cells. *)
LEMMA ScanMeets ==
    ASSUME NEW w \in Dims, NEW h \in Dims, NEW f \in Dims,
           NEW x \in 0..(w - 1), NEW y \in 0..(h - 1), NEW z \in 0..(f - 1)
    PROVE  \E k \in 1..(w * h * f) :
              /\ (k - 1) % w = x
              /\ ((k - 1) \div w) % h = y
              /\ ((k - 1) \div w) \div h = z
  <1> DEFINE q == z * h + y
             n == q * w + x
  <1>0. w \in Nat \ {0} /\ h \in Nat \ {0} /\ f \in Nat \ {0} /\ x \in Nat /\ y \in Nat /\ z \in Nat
    BY DEF Dims
  <1>1. q \in Nat /\ q <= f * h - 1
    <2>1. (z + 1) * h <= f * h /\ z * h \in Nat
      BY <1>0, TimesKeepsOrder
    <2>2. (z + 1) * h = z * h + h
      BY <1>0
    <2> QED BY <1>0, <2>1, <2>2
  <1>2. n \in Nat /\ n <= (f * h) * w - 1
    <2> HIDE DEF q
    <2>1. q + 1 \in Nat /\ f * h \in Nat /\ q + 1 <= f * h
      BY <1>0, <1>1
    <2>2. (q + 1) * w <= (f * h) * w /\ (f * h) * w \in Nat
      BY <1>0, <2>1, TimesKeepsOrder
    <2>3. (q + 1) * w = q * w + w /\ q * w \in Nat
      BY <1>0, <1>1
    <2> QED BY <1>0, <2>2, <2>3
  <1>3. n \div w = q /\ (n % w) = x
    <2> HIDE DEF q
    <2> QED BY <1>0, <1>1, Quotients
  <1>4. q \div h = z /\ (q % h) = y
    BY <1>0, Quotients
  <1>5. (f * h) * w = w * h * f
    BY <1>0
  <1> HIDE DEF n, q
  <1>6. n + 1 \in 1..(w * h * f) /\ n + 1 - 1 = n
    <2>1. w * h * f \in Int
      BY <1>0
    <2> QED BY <1>2, <1>5, <2>1
  <1>7. PICK k : k = n + 1
    OBVIOUS
  <1>8. k \in 1..(w * h * f) /\ k - 1 = n
    BY <1>2, <1>6, <1>7
  <1> QED BY <1>3, <1>4, <1>8

LEMMA ScanStays ==
    ASSUME NEW w \in Dims, NEW h \in Dims, NEW f \in Dims, NEW k \in 1..(w * h * f)
    PROVE  /\ ((k - 1) % w) \in 0..(w - 1)
           /\ (((k - 1) \div w) % h) \in 0..(h - 1)
           /\ ((k - 1) \div w) \div h \in 0..(f - 1)
  <1> DEFINE n == k - 1
             q == n \div w
  <1>0. w \in Nat \ {0} /\ h \in Nat \ {0} /\ f \in Nat \ {0}
    BY DEF Dims
  <1>1. n \in Nat /\ n < (f * h) * w /\ f * h \in Nat
    <2>1. (f * h) * w = w * h * f /\ w * h * f \in Int
      BY <1>0
    <2> QED BY <1>0, <2>1
  <1> HIDE DEF n
  <1>2. q \in 0..(f * h - 1) /\ (n % w) \in 0..(w - 1)
    BY <1>0, <1>1, DivBound
  <1> HIDE DEF q
  <1>3. q \in Nat /\ q < f * h
    BY <1>1, <1>2
  <1>4. q \div h \in 0..(f - 1) /\ (q % h) \in 0..(h - 1)
    BY <1>0, <1>3, DivBound
  <1> QED BY <1>2, <1>4 DEF n, q

LEMMA ScanIsCells ==
    ASSUME NEW m, IsMap(m)
    PROVE  /\ Size(m) \in Nat
           /\ \A k \in 1..Size(m) : Scan(m, k) \in Cells(m.width, m.height, m.floors)
           /\ \A c \in Cells(m.width, m.height, m.floors) : \E k \in 1..Size(m) : Scan(m, k) = c
  <1>1. m.width \in Dims /\ m.height \in Dims /\ m.floors \in Dims
    BY DEF IsMap
  <1>2. Size(m) \in Nat
    BY <1>1 DEF Size, Dims
  <1>3. ASSUME NEW k \in 1..Size(m)
        PROVE  Scan(m, k) \in Cells(m.width, m.height, m.floors)
    BY <1>1, <1>3, ScanStays DEF Scan, Cells, Size
  <1>4. ASSUME NEW c \in Cells(m.width, m.height, m.floors)
        PROVE  \E k \in 1..Size(m) : Scan(m, k) = c
    <2>1. /\ c[1] \in 0..(m.width - 1) /\ c[2] \in 0..(m.height - 1) /\ c[3] \in 0..(m.floors - 1)
          /\ c = <<c[1], c[2], c[3]>>
      BY DEF Cells
    <2>2. PICK k \in 1..Size(m) :
              /\ (k - 1) % m.width = c[1]
              /\ ((k - 1) \div m.width) % m.height = c[2]
              /\ ((k - 1) \div m.width) \div m.height = c[3]
      BY <1>1, <2>1, ScanMeets DEF Size
    <2> QED BY <2>1, <2>2 DEF Scan
  <1> QED BY <1>2, <1>3, <1>4

----------------------------------------------------------------------------
(* The legend's pairs. *)

Meets(f, m) ==
    /\ f[0] = <<>>
    /\ \A k \in 1..Size(m) : f[k] = Met(f[k - 1], PairOf(m, Scan(m, k)))

LEMMA PairsMeet ==
    ASSUME NEW m, Size(m) \in Nat
    PROVE  \E f : Meets(f, m) /\ Pairs(m) = f[Size(m)]
  <1> DEFINE n == Size(m)
             Run(f, i) == f = [k \in 0..i |-> IF k = 0 THEN <<>>
                                              ELSE Met(f[k - 1], PairOf(m, Scan(m, k)))]
             run == CHOOSE f : Run(f, n)
             Good == {i \in Nat : \E f : Run(f, i)}
  <1>1. 0 \in Good
    <2> DEFINE z == [k \in 0..0 |-> <<>>]
    <2>1. z = [k \in 0..0 |-> IF k = 0 THEN <<>> ELSE Met(z[k - 1], PairOf(m, Scan(m, k)))]
      OBVIOUS
    <2> HIDE DEF z
    <2> QED BY <2>1
  <1>2. ASSUME NEW i \in Nat, i \in Good PROVE i + 1 \in Good
    <2>1. PICK f : Run(f, i)
      BY <1>2
    <2> DEFINE g == [k \in 0..(i + 1) |-> IF k = i + 1 THEN Met(f[i], PairOf(m, Scan(m, i + 1)))
                                          ELSE f[k]]
               h == [k \in 0..(i + 1) |-> IF k = 0 THEN <<>>
                                          ELSE Met(g[k - 1], PairOf(m, Scan(m, k)))]
    <2>2. ASSUME NEW k \in 0..(i + 1) PROVE g[k] = h[k]
      <3>1. CASE k = 0
        BY <2>1, <3>1
      <3>2. CASE k = i + 1
        <4>1. g[k - 1] = f[i] /\ k # 0
          BY <3>2
        <4> QED BY <4>1, <3>2
      <3>3. CASE k # 0 /\ k # i + 1
        <4>1. k \in 0..i /\ k - 1 \in 0..i /\ k - 1 # i + 1
          BY <3>3
        <4>2. g[k] = f[k] /\ g[k - 1] = f[k - 1]
          BY <3>3, <4>1
        <4>3. f[k] = Met(f[k - 1], PairOf(m, Scan(m, k)))
          BY <2>1, <3>3, <4>1
        <4> HIDE DEF g
        <4> QED BY <4>2, <4>3, <3>3
      <3> QED BY <3>1, <3>2, <3>3
    <2>3. g = h
      <3>1. g = [k \in 0..(i + 1) |-> g[k]] /\ h = [k \in 0..(i + 1) |-> h[k]]
        OBVIOUS
      <3> HIDE DEF g, h
      <3> QED BY <2>2, <3>1
    <2>4. Run(g, i + 1)
      BY <2>3
    <2> HIDE DEF g, Run
    <2> QED BY <2>4
  <1>3. n \in Good
    <2> HIDE DEF Good
    <2> QED BY <1>1, <1>2, Induction
  <1>4. Run(run, n)
    <2> HIDE DEF Run
    <2> QED BY <1>3
  <1>5. Pairs(m) = run[n]
    BY DEF Pairs, Size
  <1> HIDE DEF run
  <1>6. run[0] = <<>>
    BY <1>4
  <1>7. \A k \in 1..n : run[k] = Met(run[k - 1], PairOf(m, Scan(m, k)))
    <2>1. \A k \in 0..n : run[k] = IF k = 0 THEN <<>> ELSE Met(run[k - 1], PairOf(m, Scan(m, k)))
      BY <1>4
    <2> QED BY <2>1
  <1> QED BY <1>5, <1>6, <1>7 DEF Meets

IdPairs == TileIds \X TileIds

(* A list of pairs without repetition. *)
Distinct(s) == \A i, j \in 1..Len(s) : s[i] = s[j] => i = j

Listed(s, pair) == pair = VoidPair \/ \E i \in 1..Len(s) : s[i] = pair

LEMMA MetKeeps ==
    ASSUME NEW s \in Seq(IdPairs), Distinct(s), NEW pair \in IdPairs
    PROVE  /\ Met(s, pair) \in Seq(IdPairs)
           /\ Distinct(Met(s, pair))
           /\ Listed(Met(s, pair), pair)
           /\ \A other : Listed(s, other) => Listed(Met(s, pair), other)
  <1>1. CASE Listed(s, pair)
    <2>1. Met(s, pair) = s
      BY <1>1 DEF Met, Contains, Listed
    <2> QED BY <1>1, <2>1
  <1>2. CASE ~ Listed(s, pair)
    <2>1. Met(s, pair) = Append(s, pair)
      BY <1>2 DEF Met, Contains, Listed
    <2>2. PICK t : t = Append(s, pair)
      OBVIOUS
    <2>3. /\ t \in Seq(IdPairs) /\ Len(t) = Len(s) + 1 /\ Len(s) \in Nat
          /\ t[Len(s) + 1] = pair
          /\ \A i \in 1..Len(s) : t[i] = s[i]
      BY <2>2
    <2>4. Distinct(t)
      <3> SUFFICES ASSUME NEW i \in 1..Len(t), NEW j \in 1..Len(t), t[i] = t[j]
                   PROVE  i = j
        BY DEF Distinct
      <3>1. CASE i <= Len(s) /\ j <= Len(s)
        BY <2>3, <3>1 DEF Distinct
      <3>2. CASE i = Len(s) + 1 /\ j = Len(s) + 1
        BY <3>2
      <3>3. CASE (i <= Len(s) /\ j = Len(s) + 1) \/ (j <= Len(s) /\ i = Len(s) + 1)
        BY <1>2, <2>3, <3>3 DEF Listed
      <3> QED BY <2>3, <3>1, <3>2, <3>3
    <2>5. Listed(t, pair)
      <3>1. Len(s) + 1 \in 1..Len(t)
        BY <2>3
      <3> QED BY <2>3, <3>1 DEF Listed
    <2>6. ASSUME NEW other, Listed(s, other) PROVE Listed(t, other)
      <3>1. \A i \in 1..Len(s) : i \in 1..Len(t)
        BY <2>3
      <3> QED BY <2>3, <2>6, <3>1 DEF Listed
    <2> QED BY <2>1, <2>2, <2>3, <2>4, <2>5, <2>6
  <1> QED BY <1>1, <1>2

LEMMA TileOfMap ==
    ASSUME NEW m, IsMap(m), NEW c \in Cells(m.width, m.height, m.floors)
    PROVE  /\ m.tiles[c] \in Kinds /\ PairOf(m, c) \in IdPairs
           /\ PairOf(m, c) = <<m.tiles[c].ground, m.tiles[c].object>>
  <1>1. m.tiles[c] \in Kinds
    BY DEF IsMap
  <1> QED BY <1>1 DEF PairOf, Kinds, IdPairs

LEMMA PairsAre ==
    ASSUME NEW m, IsMap(m)
    PROVE  /\ Pairs(m) \in Seq(IdPairs) /\ Distinct(Pairs(m))
           /\ \A c \in Cells(m.width, m.height, m.floors) : Listed(Pairs(m), PairOf(m, c))
  <1>1. /\ Size(m) \in Nat
        /\ \A k \in 1..Size(m) : Scan(m, k) \in Cells(m.width, m.height, m.floors)
        /\ \A c \in Cells(m.width, m.height, m.floors) : \E k \in 1..Size(m) : Scan(m, k) = c
    BY ScanIsCells
  <1>2. PICK f : Meets(f, m) /\ Pairs(m) = f[Size(m)]
    BY <1>1, PairsMeet
  <1>3. \A k \in 1..Size(m) : PairOf(m, Scan(m, k)) \in IdPairs
    BY <1>1, TileOfMap
  <1> DEFINE Good == {k \in Nat : k <= Size(m) =>
                        /\ f[k] \in Seq(IdPairs) /\ Distinct(f[k])
                        /\ \A j \in 1..k : Listed(f[k], PairOf(m, Scan(m, j)))}
  <1>4. 0 \in Good
    <2>1. f[0] = <<>> /\ <<>> \in Seq(IdPairs) /\ Len(<<>>) = 0 /\ 1..0 = {}
      BY <1>2 DEF Meets
    <2>2. Distinct(<<>>)
      BY <2>1 DEF Distinct
    <2> QED BY <2>1, <2>2
  <1>5. ASSUME NEW k \in Nat, k \in Good PROVE k + 1 \in Good
    <2>1. SUFFICES ASSUME k + 1 <= Size(m)
                   PROVE  /\ f[k + 1] \in Seq(IdPairs) /\ Distinct(f[k + 1])
                          /\ \A j \in 1..k + 1 : Listed(f[k + 1], PairOf(m, Scan(m, j)))
      OBVIOUS
    <2>2. k + 1 \in 1..Size(m) /\ k + 1 - 1 = k
      BY <1>1, <2>1
    <2>3. f[k + 1] = Met(f[k], PairOf(m, Scan(m, k + 1)))
      BY <1>2, <2>2 DEF Meets
    <2>4. /\ f[k] \in Seq(IdPairs) /\ Distinct(f[k])
          /\ \A j \in 1..k : Listed(f[k], PairOf(m, Scan(m, j)))
      BY <1>1, <1>5, <2>1
    <2>5. PairOf(m, Scan(m, k + 1)) \in IdPairs
      BY <1>3, <2>2
    <2>6. /\ f[k + 1] \in Seq(IdPairs) /\ Distinct(f[k + 1])
          /\ Listed(f[k + 1], PairOf(m, Scan(m, k + 1)))
          /\ \A other : Listed(f[k], other) => Listed(f[k + 1], other)
      BY <2>3, <2>4, <2>5, MetKeeps
    <2>7. \A j \in 1..k + 1 : j \in 1..k \/ j = k + 1
      OBVIOUS
    <2> QED BY <2>4, <2>6, <2>7
  <1> HIDE DEF Good
  <1>6. Size(m) \in Good
    BY <1>1, <1>4, <1>5, Induction
  <1>7. /\ Pairs(m) \in Seq(IdPairs) /\ Distinct(Pairs(m))
        /\ \A j \in 1..Size(m) : Listed(Pairs(m), PairOf(m, Scan(m, j)))
    BY <1>1, <1>2, <1>6 DEF Good
  <1> QED BY <1>1, <1>7

----------------------------------------------------------------------------
(* Lines. *)

LEMMA DirectiveIs ==
    ASSUME NEW word \in Words, NEW glyph \in Int, NEW args \in Seq(Int), NEW cells \in Seq(Int)
    PROVE  /\ Line(word, glyph, args, cells) \in Lines
           /\ Line(word, glyph, args, cells).word = word
           /\ Line(word, glyph, args, cells).glyph = glyph
           /\ Line(word, glyph, args, cells).args = args
           /\ Line(word, glyph, args, cells).cells = cells
  BY DEF Line, Lines

(* The last of some places in a row. *)
LEMMA LastIsThere ==
    ASSUME NEW n \in Nat, NEW S, S \subseteq 0..n, S # {}
    PROVE  LastOf(S) \in S /\ \A x \in S : x <= LastOf(S)
  <1> DEFINE Good == {k \in Nat : \A T \in SUBSET (0..k) :
                        T # {} => \E x \in T : \A other \in T : other <= x}
  <1>1. 0 \in Good
    <2>1. SUFFICES ASSUME NEW T \in SUBSET (0..0), T # {}
                   PROVE  \E x \in T : \A other \in T : other <= x
      OBVIOUS
    <2>2. \A x \in T : x = 0
      OBVIOUS
    <2>3. PICK x \in T : TRUE
      BY <2>1
    <2>4. x = 0 /\ \A other \in T : other <= x
      BY <2>2
    <2> QED BY <2>4
  <1>2. ASSUME NEW k \in Nat, k \in Good PROVE k + 1 \in Good
    <2>1. SUFFICES ASSUME NEW T \in SUBSET (0..(k + 1)), T # {}
                   PROVE  \E x \in T : \A other \in T : other <= x
      OBVIOUS
    <2>2. CASE k + 1 \in T
      BY <2>2
    <2>3. CASE k + 1 \notin T
      <3>1. T \in SUBSET (0..k)
        BY <2>3
      <3> QED BY <1>2, <2>1, <3>1
    <2> QED BY <2>2, <2>3
  <1> HIDE DEF Good
  <1>3. n \in Good
    BY <1>1, <1>2, Induction
  <1>4. \E x \in S : \A other \in S : other <= x
    BY <1>3 DEF Good
  <1> QED BY <1>4 DEF LastOf

(* Nothing drawn is trimmed. *)
LEMMA TrimmedIs ==
    ASSUME NEW cells \in Seq(Int)
    PROVE  /\ Trimmed(cells) \in Seq(Int) /\ Len(Trimmed(cells)) \in 0..Len(cells)
           /\ \A k \in 1..Len(Trimmed(cells)) : Trimmed(cells)[k] = cells[k]
           /\ \A k \in 1..Len(cells) : k > Len(Trimmed(cells)) => cells[k] = Blank
  <1> DEFINE drawn == {0} \cup {k \in DOMAIN cells : cells[k] # Blank}
             n == LastOf(drawn)
  <1>1. drawn \subseteq 0..Len(cells) /\ drawn # {} /\ Len(cells) \in Nat /\ DOMAIN cells = 1..Len(cells)
    OBVIOUS
  <1>2. n \in drawn /\ \A x \in drawn : x <= n
    <2> HIDE DEF drawn
    <2> QED BY <1>1, LastIsThere
  <1>3. n \in 0..Len(cells) /\ \A k \in 1..Len(cells) : k > n => cells[k] = Blank
    <2> HIDE DEF n
    <2>1. n \in 0..Len(cells)
      BY <1>1, <1>2
    <2>2. ASSUME NEW k \in 1..Len(cells), k > n, cells[k] # Blank PROVE FALSE
      <3>1. k \in drawn
        BY <1>1, <2>2
      <3>2. k <= n
        BY <1>2, <3>1
      <3> QED BY <2>1, <2>2, <3>2
    <2> QED BY <2>1, <2>2
  <1>4. Trimmed(cells) = SubSeq(cells, 1, n)
    BY DEF Trimmed
  <1> HIDE DEF n, drawn
  <1>5. \A k \in 1..n : cells[k] \in Int
    BY <1>3, ElementOfSeq
  <1>6. /\ SubSeq(cells, 1, n) \in Seq(Int)
        /\ Len(SubSeq(cells, 1, n)) = IF 1 <= n THEN n - 1 + 1 ELSE 0
        /\ \A k \in 1..n - 1 + 1 : SubSeq(cells, 1, n)[k] = cells[1 + k - 1]
    BY <1>3, <1>5, SubSeqProperties
  <1>7. Len(SubSeq(cells, 1, n)) = n /\ \A k \in 1..n : SubSeq(cells, 1, n)[k] = cells[k]
    <2>1. n - 1 + 1 = n /\ (~ 1 <= n => n = 0) /\ \A k \in 1..n : 1 + k - 1 = k
      BY <1>3
    <2> QED BY <1>6, <2>1
  <1> QED BY <1>3, <1>4, <1>6, <1>7

----------------------------------------------------------------------------
(* Every pair has a sign of its own, as long as one is shared at most once. *)

Signs(pairs) == [k \in 1..Len(pairs) |-> IF k <= PoolSize THEN k ELSE Overflow]

LEMMA SignsAre ==
    ASSUME NEW pairs \in Seq(IdPairs), Distinct(pairs), NEW k \in 1..Len(pairs)
    PROVE  SignOf(pairs, pairs[k]) = Signs(pairs)[k]
  <1>1. \A j \in DOMAIN pairs : pairs[j] = pairs[k] <=> j = k
    BY DEF Distinct
  <1>2. (CHOOSE j \in DOMAIN pairs : pairs[j] = pairs[k]) = k
    <2>1. k \in DOMAIN pairs
      OBVIOUS
    <2> QED BY <1>1, <2>1
  <1> QED BY <1>2 DEF SignOf, Signs

LEMMA SignsDiffer ==
    ASSUME NEW pairs \in Seq(IdPairs), Len(pairs) <= PoolSize + 1
    PROVE  /\ \A k \in 1..Len(pairs) : /\ Signs(pairs)[k] \in Int
                                       /\ Signs(pairs)[k] \notin {Blank, SpawnSign, NoGlyph}
           /\ \A j, k \in 1..Len(pairs) : Signs(pairs)[j] = Signs(pairs)[k] => j = k
  <1>1. PoolSize \in Nat /\ Len(pairs) \in Nat
    BY MapTextAssumption
  <1> QED BY <1>1 DEF Signs, Blank, SpawnSign, NoGlyph, Overflow

----------------------------------------------------------------------------
(* What a reader has in hand, and the same with the map of other blockers. *)

Spots == Int \X Int \X Int
Mobs  == [tile: Spots, type: TileIds]
Nests == [tile: Spots, type: TileIds,
          maxAlive: 1..ByteMax, radius: 0..ByteMax, seconds: 0..ShortMax]
Warps == {w \in [from: Spots, to: Spots] : w.from # w.to}

IsAuthored(a) ==
    /\ a.spawn \in Spots \cup {NoCell}
    /\ a.monsters \in Seq(Mobs) /\ a.spawners \in Seq(Nests) /\ a.portals \in Seq(Warps)

ReaderFields ==
    {"ok", "sized", "map", "legend", "sign", "spawn", "monsters", "spawners", "portals",
     "rowsLeft", "floor"}

IsReader(p) ==
    /\ ReaderFields \subseteq DOMAIN p
    /\ p.ok \in BOOLEAN /\ p.sized \in BOOLEAN
    /\ IsAuthored(p)
    /\ p.sized => IsMap(p.map)
    /\ p.rowsLeft \in Nat /\ (p.rowsLeft > 0 => p.sized)
    /\ \A g \in DOMAIN p.legend : p.legend[g] \in IdPairs
    /\ p.sign \in Int /\ p.floor \in Int

Twin(p, q, R) ==
    /\ ReaderFields \subseteq DOMAIN q
    /\ q.ok = p.ok /\ q.sized = p.sized
    /\ p.sized => q.map = Redrawn(p.map, R)
    /\ q.legend = p.legend /\ q.sign = p.sign /\ q.spawn = p.spawn
    /\ q.monsters = p.monsters /\ q.spawners = p.spawners /\ q.portals = p.portals
    /\ q.rowsLeft = p.rowsLeft /\ q.floor = p.floor

Agree(p, q, R) == IsReader(p) /\ Twin(p, q, R)

LEMMA TileIsKind ==
    ASSUME NEW g \in TileIds, NEW o \in TileIds, NEW B
    PROVE  /\ Tile(g, o, B) \in Kinds
           /\ Tile(g, o, B).ground = g /\ Tile(g, o, B).object = o
           /\ Tile(g, o, B).blocking = ({g, o} \cap B # {})
  BY DEF Tile, Kinds

LEMMA MapWith ==
    ASSUME NEW m, IsMap(m), NEW t \in [Cells(m.width, m.height, m.floors) -> Kinds],
           NEW n, n = [m EXCEPT !.tiles = t]
    PROVE  /\ IsMap(n) /\ n.tiles = t
           /\ n.width = m.width /\ n.height = m.height /\ n.floors = m.floors
  <1>1. m = [width |-> m.width, height |-> m.height, floors |-> m.floors, tiles |-> m.tiles]
    BY DEF IsMap
  <1>2. n = [width |-> m.width, height |-> m.height, floors |-> m.floors, tiles |-> t]
    BY <1>1
  <1>3. n.width = m.width /\ n.height = m.height /\ n.floors = m.floors /\ n.tiles = t
    BY <1>2
  <1>4. n = [width |-> n.width, height |-> n.height, floors |-> n.floors, tiles |-> n.tiles]
    BY <1>2, <1>3
  <1> QED BY <1>3, <1>4 DEF IsMap

LEMMA RedrawnIs ==
    ASSUME NEW m, IsMap(m), NEW R
    PROVE  /\ IsMap(Redrawn(m, R))
           /\ Redrawn(m, R).width = m.width /\ Redrawn(m, R).height = m.height
           /\ Redrawn(m, R).floors = m.floors
           /\ DOMAIN Redrawn(m, R).tiles = Cells(m.width, m.height, m.floors)
           /\ DOMAIN m.tiles = Cells(m.width, m.height, m.floors)
           /\ \A c \in Cells(m.width, m.height, m.floors) :
                 Redrawn(m, R).tiles[c] = Tile(m.tiles[c].ground, m.tiles[c].object, R)
  <1> DEFINE cells == Cells(m.width, m.height, m.floors)
             t == [c \in DOMAIN m.tiles |-> Tile(m.tiles[c].ground, m.tiles[c].object, R)]
             n == [m EXCEPT !.tiles = t]
  <1>1. Redrawn(m, R) = n
    <2>1. "tiles" \in DOMAIN m
      BY DEF IsMap
    <2> QED BY <2>1 DEF Redrawn
  <1>2. DOMAIN m.tiles = cells /\ \A c \in cells : m.tiles[c] \in Kinds
    BY DEF IsMap
  <1>3. \A c \in cells : m.tiles[c].ground \in TileIds /\ m.tiles[c].object \in TileIds
    <2> HIDE DEF cells
    <2> QED BY <1>2 DEF Kinds
  <1>4. t \in [cells -> Kinds]
    <2> HIDE DEF cells
    <2> QED BY <1>2, <1>3, TileIsKind
  <1>5. /\ IsMap(n) /\ n.tiles = t
        /\ n.width = m.width /\ n.height = m.height /\ n.floors = m.floors
    <2> HIDE DEF t, n
    <2>1. n = [m EXCEPT !.tiles = t]
      BY DEF n
    <2> QED BY <1>4, <2>1, MapWith
  <1>6. \A c \in cells : t[c] = Tile(m.tiles[c].ground, m.tiles[c].object, R)
    BY <1>2
  <1> HIDE DEF t, n
  <1> QED BY <1>1, <1>2, <1>4, <1>5, <1>6

LEMMA RefusedAgree ==
    ASSUME NEW p, NEW q, NEW R, Agree(p, q, R)
    PROVE  Agree(Refused(p), Refused(q), R)
  <1>1. IsReader(Refused(p))
    BY DEF Agree, IsReader, Refused, ReaderFields, IsAuthored
  <1>2. Twin(p, q, R) /\ ReaderFields \subseteq DOMAIN p
    BY DEF Agree, IsReader
  <1>3. Twin(Refused(p), Refused(q), R)
    BY <1>2 DEF Twin, Refused, ReaderFields
  <1> QED BY <1>1, <1>3 DEF Agree

LEMMA NewMapIs ==
    ASSUME NEW w \in Dims, NEW h \in Dims, NEW f \in Dims
    PROVE  /\ IsMap(NewMap(w, h, f))
           /\ NewMap(w, h, f).width = w /\ NewMap(w, h, f).height = h /\ NewMap(w, h, f).floors = f
           /\ NewMap(w, h, f).tiles = [c \in Cells(w, h, f) |-> VoidTile]
  <1>1. VoidTile \in Kinds
    BY DEF VoidTile, Kinds, TileIds
  <1>2. [c \in Cells(w, h, f) |-> VoidTile] \in [Cells(w, h, f) -> Kinds]
    BY <1>1
  <1> QED BY <1>2 DEF IsMap, NewMap

LEMMA VoidIsDrawn ==
    ASSUME NEW B, 0 \notin B
    PROVE  Tile(0, 0, B) = VoidTile
  BY DEF Tile, VoidTile

LEMMA SizeAgrees ==
    ASSUME NEW p, NEW q, NEW R, 0 \notin R, Agree(p, q, R), p.rowsLeft = 0, NEW args \in Seq(Int)
    PROVE  Agree(ReadSize(p, args), ReadSize(q, args), R)
  <1> DEFINE bad == Len(args) < 3 \/ \E k \in 1..3 : args[k] <= 0
             n == NewMap(args[1], args[2], args[3])
  <1>1. CASE bad
    <2>1. ReadSize(p, args) = Refused(p) /\ ReadSize(q, args) = Refused(q)
      BY <1>1 DEF ReadSize
    <2> QED BY <2>1, RefusedAgree
  <1>2. CASE ~bad
    <2>1. args[1] \in Dims /\ args[2] \in Dims /\ args[3] \in Dims
      <3>1. 1 \in 1..Len(args) /\ 2 \in 1..Len(args) /\ 3 \in 1..Len(args)
        BY <1>2
      <3> QED BY <1>2, <3>1 DEF Dims
    <2>2. /\ IsMap(n)
          /\ n.width = args[1] /\ n.height = args[2] /\ n.floors = args[3]
          /\ n.tiles = [c \in Cells(args[1], args[2], args[3]) |-> VoidTile]
      BY <2>1, NewMapIs
    <2>3. Redrawn(n, R) = n
      <3>1. /\ IsMap(Redrawn(n, R)) /\ IsMap(n)
            /\ Redrawn(n, R).width = n.width /\ Redrawn(n, R).height = n.height
            /\ Redrawn(n, R).floors = n.floors
            /\ DOMAIN Redrawn(n, R).tiles = Cells(n.width, n.height, n.floors)
            /\ \A c \in Cells(n.width, n.height, n.floors) :
                  Redrawn(n, R).tiles[c] = Tile(n.tiles[c].ground, n.tiles[c].object, R)
        BY <2>2, RedrawnIs
      <3> HIDE DEF n
      <3>2. n.tiles = [c \in Cells(n.width, n.height, n.floors) |-> VoidTile]
        BY <2>2
      <3>3. \A c \in Cells(n.width, n.height, n.floors) : Redrawn(n, R).tiles[c] = VoidTile
        <4>1. VoidTile.ground = 0 /\ VoidTile.object = 0
          BY DEF VoidTile
        <4> QED BY <3>1, <3>2, <4>1, VoidIsDrawn
      <3>4. Redrawn(n, R).tiles = n.tiles
        <4>1. Redrawn(n, R).tiles = [c \in Cells(n.width, n.height, n.floors) |-> Redrawn(n, R).tiles[c]]
          BY <3>1 DEF IsMap
        <4> QED BY <3>2, <3>3, <4>1
      <3> QED BY <3>1, <3>4 DEF IsMap
    <2>4. PICK pp : pp = [p EXCEPT !.map = n, !.sized = TRUE]
      OBVIOUS
    <2>5. PICK qq : qq = [q EXCEPT !.map = n, !.sized = TRUE]
      OBVIOUS
    <2>6. ReadSize(p, args) = pp /\ ReadSize(q, args) = qq
      BY <1>2, <2>4, <2>5 DEF ReadSize
    <2> HIDE DEF n
    <2>7. IsReader(pp)
      BY <2>2, <2>4 DEF Agree, IsReader, ReaderFields, IsAuthored
    <2>8. Twin(p, q, R) /\ ReaderFields \subseteq DOMAIN p
      BY DEF Agree, IsReader
    <2>9. Twin(pp, qq, R)
      BY <2>3, <2>4, <2>5, <2>8 DEF Twin, ReaderFields
    <2> QED BY <2>6, <2>7, <2>9 DEF Agree
  <1> QED BY <1>1, <1>2

(* What Agree says of two readers, to cite at once. *)
LEMMA TwinsHave ==
    ASSUME NEW p, NEW q, NEW R, Agree(p, q, R)
    PROVE  /\ IsReader(p) /\ Twin(p, q, R)
           /\ ReaderFields \subseteq DOMAIN p /\ ReaderFields \subseteq DOMAIN q
           /\ q.ok = p.ok /\ q.sized = p.sized /\ q.rowsLeft = p.rowsLeft
           /\ q.legend = p.legend
           /\ p.sized => /\ IsMap(p.map) /\ q.map = Redrawn(p.map, R)
                         /\ q.map.width = p.map.width /\ q.map.height = p.map.height
                         /\ q.map.floors = p.map.floors
                         /\ DOMAIN q.map.tiles = DOMAIN p.map.tiles
  <1>1. IsReader(p) /\ Twin(p, q, R)
    BY DEF Agree
  <1>2. ASSUME p.sized
        PROVE  /\ IsMap(p.map) /\ q.map = Redrawn(p.map, R)
               /\ q.map.width = p.map.width /\ q.map.height = p.map.height
               /\ q.map.floors = p.map.floors
               /\ DOMAIN q.map.tiles = DOMAIN p.map.tiles
    <2>1. IsMap(p.map) /\ q.map = Redrawn(p.map, R)
      BY <1>1, <1>2 DEF IsReader, Twin
    <2> QED BY <2>1, RedrawnIs
  <1> QED BY <1>1, <1>2 DEF IsReader, Twin

LEMMA Remainder ==
    ASSUME NEW n \in Int, NEW k \in Int, k > 0
    PROVE  (n % k) \in 0..(k - 1)
  OBVIOUS

LEMMA TypeIs ==
    ASSUME NEW n \in Int
    PROVE  TileIdOf(n) \in TileIds
  <1>1. PICK k : k = 65536
    OBVIOUS
  <1>2. k \in Int /\ k > 0
    BY <1>1
  <1>3. (n % k) \in 0..(k - 1)
    BY <1>2, Remainder
  <1>4. k - 1 = 65535
    BY <1>1
  <1>5. TileIdOf(n) = (n % k) /\ TileIds = 0..(k - 1)
    BY <1>1, <1>4 DEF TileIdOf, TileIds
  <1> QED BY <1>3, <1>5

LEMMA SignedIs ==
    ASSUME NEW n \in Int, NEW half \in Int, half > 0
    PROVE  Signed(n, half) \in Int
  <1>1. PICK k : k = 2 * half
    OBVIOUS
  <1>2. k \in Int /\ k > 0 /\ n + half \in Int
    BY <1>1
  <1>3. ((n + half) % k) \in Int
    BY <1>2
  <1>4. Signed(n, half) = ((n + half) % k) - half
    BY <1>1 DEF Signed
  <1> QED BY <1>3, <1>4

LEMMA NarrowIs ==
    ASSUME NEW n \in Int
    PROVE  TileIdOf(n) \in TileIds /\ Signed(n, CoordLimit) \in Int /\ Signed(n, FloorLimit) \in Int
  <1>1. CoordLimit \in Int /\ CoordLimit > 0 /\ FloorLimit \in Int /\ FloorLimit > 0
    BY DEF CoordLimit, FloorLimit
  <1> QED BY <1>1, TypeIs, SignedIs

(* What fits is not changed. *)
LEMMA FitsIs ==
    ASSUME NEW n \in Nat, NEW half \in Int, n < half
    PROVE  Signed(n, half) = n
  <1>1. PICK k : k = 2 * half
    OBVIOUS
  <1>2. k \in Nat \ {0} /\ n + half \in 0..(k - 1)
    BY <1>1
  <1>3. ((0 * k + (n + half)) % k) = n + half
    BY <1>2, Quotients
  <1>4. 0 * k + (n + half) = n + half
    BY <1>2
  <1>5. Signed(n, half) = ((n + half) % k) - half
    BY <1>1 DEF Signed
  <1> QED BY <1>3, <1>4, <1>5

LEMMA TypeFits ==
    ASSUME NEW n \in TileIds
    PROVE  TileIdOf(n) = n
  <1>1. PICK k : k = 65536
    OBVIOUS
  <1>2. k - 1 = 65535 /\ k \in Nat \ {0}
    BY <1>1
  <1>3. TileIds = 0..(k - 1)
    BY <1>1, <1>2 DEF TileIds
  <1>4. ((0 * k + n) % k) = n
    <2>1. n \in 0..(k - 1) /\ k \in Nat \ {0} /\ 0 \in Nat
      BY <1>2, <1>3
    <2> QED BY <2>1, Quotients
  <1>5. 0 * k + n = n
    BY <1>2, <1>3
  <1>6. TileIdOf(n) = (n % k)
    BY <1>1 DEF TileIdOf
  <1> QED BY <1>4, <1>5, <1>6

LEMMA SpotIs ==
    ASSUME NEW x \in Int, NEW y \in Int, NEW z \in Int
    PROVE  CellOf(x, y, z) \in Spots
  <1>1. Signed(x, CoordLimit) \in Int /\ Signed(y, CoordLimit) \in Int /\ Signed(z, FloorLimit) \in Int
    BY NarrowIs
  <1> QED BY <1>1 DEF CellOf, Spots

LEMMA LegendAgrees ==
    ASSUME NEW p, NEW q, NEW R, Agree(p, q, R), NEW glyph, NEW args \in Seq(Int)
    PROVE  Agree(ReadLegend(p, glyph, args), ReadLegend(q, glyph, args), R)
  <1>1. CASE glyph = NoGlyph \/ args = <<>>
    <2>1. ReadLegend(p, glyph, args) = Refused(p) /\ ReadLegend(q, glyph, args) = Refused(q)
      BY <1>1 DEF ReadLegend
    <2> QED BY <2>1, RefusedAgree
  <1>2. CASE ~ (glyph = NoGlyph \/ args = <<>>)
    <2> DEFINE object == IF Len(args) > 1 THEN args[2] ELSE 0
               pair == <<TileIdOf(args[1]), TileIdOf(object)>>
    <2>1. pair \in IdPairs
      <3>1. args[1] \in Int /\ object \in Int
        <4>1. 1 \in 1..Len(args) /\ (Len(args) > 1 => 2 \in 1..Len(args))
          BY <1>2, EmptySeq
        <4> QED BY <4>1
      <3> HIDE DEF object
      <3> QED BY <3>1, NarrowIs DEF IdPairs
    <2>2. PICK l : l = [g \in DOMAIN p.legend \cup {glyph} |-> IF g = glyph THEN pair ELSE p.legend[g]]
      OBVIOUS
    <2>3. PICK pp : pp = [p EXCEPT !.legend = l]
      OBVIOUS
    <2>4. PICK qq : qq = [q EXCEPT !.legend = l]
      OBVIOUS
    <2>5. /\ ReaderFields \subseteq DOMAIN p /\ ReaderFields \subseteq DOMAIN q
          /\ q.legend = p.legend /\ IsReader(p) /\ Twin(p, q, R)
      BY TwinsHave
    <2>6. ReadLegend(p, glyph, args) = pp /\ ReadLegend(q, glyph, args) = qq
      BY <1>2, <2>2, <2>3, <2>4, <2>5 DEF ReadLegend, ReaderFields
    <2>7. \A g \in DOMAIN l : l[g] \in IdPairs
      <3> HIDE DEF pair
      <3> QED BY <2>1, <2>2, <2>5 DEF IsReader
    <2> HIDE DEF pair
    <2>8. IsReader(pp)
      BY <2>3, <2>5, <2>7 DEF IsReader, ReaderFields, IsAuthored
    <2>9. Twin(pp, qq, R)
      BY <2>3, <2>4, <2>5 DEF Twin, ReaderFields
    <2> QED BY <2>6, <2>8, <2>9 DEF Agree
  <1> QED BY <1>1, <1>2

LEMMA SpawnAgrees ==
    ASSUME NEW p, NEW q, NEW R, Agree(p, q, R), NEW glyph \in Int
    PROVE  Agree(ReadSpawn(p, glyph), ReadSpawn(q, glyph), R)
  <1>1. CASE glyph = NoGlyph
    <2>1. ReadSpawn(p, glyph) = Refused(p) /\ ReadSpawn(q, glyph) = Refused(q)
      BY <1>1 DEF ReadSpawn
    <2> QED BY <2>1, RefusedAgree
  <1>2. CASE glyph # NoGlyph
    <2>1. PICK pp : pp = [p EXCEPT !.sign = glyph]
      OBVIOUS
    <2>2. PICK qq : qq = [q EXCEPT !.sign = glyph]
      OBVIOUS
    <2>3. /\ ReaderFields \subseteq DOMAIN p /\ ReaderFields \subseteq DOMAIN q
          /\ IsReader(p) /\ Twin(p, q, R)
      BY TwinsHave
    <2>4. ReadSpawn(p, glyph) = pp /\ ReadSpawn(q, glyph) = qq
      BY <1>2, <2>1, <2>2 DEF ReadSpawn
    <2>5. IsReader(pp)
      BY <2>1, <2>3 DEF IsReader, ReaderFields, IsAuthored
    <2>6. Twin(pp, qq, R)
      BY <2>1, <2>2, <2>3 DEF Twin, ReaderFields
    <2> QED BY <2>4, <2>5, <2>6 DEF Agree
  <1> QED BY <1>1, <1>2

LEMMA MonsterAgrees ==
    ASSUME NEW p, NEW q, NEW R, Agree(p, q, R), NEW args \in Seq(Int)
    PROVE  Agree(ReadMonster(p, args), ReadMonster(q, args), R)
  <1> DEFINE bad == Len(args) < 4 \/ args[4] <= 0 \/ ~p.sized \/ At(args) \notin DOMAIN p.map.tiles
  <1>1. /\ ReaderFields \subseteq DOMAIN p /\ ReaderFields \subseteq DOMAIN q
        /\ IsReader(p) /\ Twin(p, q, R) /\ q.sized = p.sized /\ q.monsters = p.monsters
        /\ p.sized => DOMAIN q.map.tiles = DOMAIN p.map.tiles
    BY TwinsHave DEF Twin
  <1>2. CASE bad
    <2>1. ReadMonster(p, args) = Refused(p) /\ ReadMonster(q, args) = Refused(q)
      BY <1>1, <1>2 DEF ReadMonster, InBounds
    <2> QED BY <2>1, RefusedAgree
  <1>3. CASE ~bad
    <2> DEFINE mob == [tile |-> At(args), type |-> TileIdOf(args[4])]
    <2>1. mob \in Mobs
      <3>1. 1 \in 1..Len(args) /\ 2 \in 1..Len(args) /\ 3 \in 1..Len(args) /\ 4 \in 1..Len(args)
        BY <1>3
      <3>2. args[1] \in Int /\ args[2] \in Int /\ args[3] \in Int /\ args[4] \in Int
        BY <3>1
      <3>3. At(args) \in Spots /\ TileIdOf(args[4]) \in TileIds
        BY <3>2, SpotIs, NarrowIs DEF At
      <3> QED BY <3>3 DEF Mobs
    <2>2. PICK ms : ms = Append(p.monsters, mob)
      OBVIOUS
    <2>3. PICK pp : pp = [p EXCEPT !.monsters = ms]
      OBVIOUS
    <2>4. PICK qq : qq = [q EXCEPT !.monsters = ms]
      OBVIOUS
    <2>5. ReadMonster(p, args) = pp /\ ReadMonster(q, args) = qq
      BY <1>1, <1>3, <2>2, <2>3, <2>4 DEF ReadMonster, InBounds, ReaderFields
    <2>6. ms \in Seq(Mobs)
      <3> HIDE DEF mob
      <3> QED BY <1>1, <2>1, <2>2 DEF IsReader, IsAuthored
    <2> HIDE DEF mob
    <2>7. IsReader(pp)
      BY <1>1, <2>3, <2>6 DEF IsReader, ReaderFields, IsAuthored
    <2>8. Twin(pp, qq, R)
      BY <1>1, <2>3, <2>4 DEF Twin, ReaderFields
    <2> QED BY <2>5, <2>7, <2>8 DEF Agree
  <1> QED BY <1>2, <1>3

LEMMA SpawnerAgrees ==
    ASSUME NEW p, NEW q, NEW R, Agree(p, q, R), NEW args \in Seq(Int)
    PROVE  Agree(ReadSpawner(p, args), ReadSpawner(q, args), R)
  <1> DEFINE bad == \/ Len(args) < 7 \/ args[4] <= 0 \/ args[5] <= 0 \/ args[6] < 0 \/ args[7] < 0
                    \/ ~p.sized \/ At(args) \notin DOMAIN p.map.tiles
  <1>1. /\ ReaderFields \subseteq DOMAIN p /\ ReaderFields \subseteq DOMAIN q
        /\ IsReader(p) /\ Twin(p, q, R) /\ q.sized = p.sized /\ q.spawners = p.spawners
        /\ p.sized => DOMAIN q.map.tiles = DOMAIN p.map.tiles
    BY TwinsHave DEF Twin
  <1>2. CASE bad
    <2>1. ReadSpawner(p, args) = Refused(p) /\ ReadSpawner(q, args) = Refused(q)
      BY <1>1, <1>2 DEF ReadSpawner, InBounds
    <2> QED BY <2>1, RefusedAgree
  <1>3. CASE ~bad
    <2> DEFINE nest == [tile |-> At(args), type |-> TileIdOf(args[4]),
                        maxAlive |-> Clamped(args[5], ByteMax),
                        radius |-> Clamped(args[6], ByteMax), seconds |-> Clamped(args[7], ShortMax)]
    <2>1. nest \in Nests
      <3>1. \A k \in 1..7 : k \in 1..Len(args)
        BY <1>3
      <3>2. /\ args[1] \in Int /\ args[2] \in Int /\ args[3] \in Int /\ args[4] \in Int
            /\ args[5] \in Int /\ args[6] \in Int /\ args[7] \in Int
        BY <3>1
      <3>3. At(args) \in Spots /\ TileIdOf(args[4]) \in TileIds
        BY <3>2, SpotIs, NarrowIs DEF At
      <3>4. /\ Clamped(args[5], ByteMax) \in 1..ByteMax
            /\ Clamped(args[6], ByteMax) \in 0..ByteMax
            /\ Clamped(args[7], ShortMax) \in 0..ShortMax
        <4>0. ~ (args[5] <= 0) /\ ~ (args[6] < 0) /\ ~ (args[7] < 0)
          BY <1>3, Zenon
        <4>1. args[5] > 0 /\ args[6] >= 0 /\ args[7] >= 0
          BY <3>2, <4>0
        <4>2. ByteMax \in Nat \ {0} /\ ShortMax \in Nat \ {0}
          BY MapTextAssumption
        <4>3. ByteMax \in Nat /\ ByteMax >= 1 /\ ByteMax >= 0 /\ ShortMax \in Nat /\ ShortMax >= 0
          BY <4>2
        <4>4. Clamped(args[5], ByteMax) \in 1..ByteMax
          BY <3>2, <4>1, <4>3 DEF Clamped
        <4>5. Clamped(args[6], ByteMax) \in 0..ByteMax
          BY <3>2, <4>1, <4>3 DEF Clamped
        <4>6. Clamped(args[7], ShortMax) \in 0..ShortMax
          BY <3>2, <4>1, <4>3 DEF Clamped
        <4> QED BY <4>4, <4>5, <4>6
      <3> QED BY <3>3, <3>4 DEF Nests
    <2>2. PICK ns : ns = Append(p.spawners, nest)
      OBVIOUS
    <2>3. PICK pp : pp = [p EXCEPT !.spawners = ns]
      OBVIOUS
    <2>4. PICK qq : qq = [q EXCEPT !.spawners = ns]
      OBVIOUS
    <2>5. ReadSpawner(p, args) = pp /\ ReadSpawner(q, args) = qq
      BY <1>1, <1>3, <2>2, <2>3, <2>4 DEF ReadSpawner, InBounds, ReaderFields
    <2>6. ns \in Seq(Nests)
      <3> HIDE DEF nest
      <3> QED BY <1>1, <2>1, <2>2 DEF IsReader, IsAuthored
    <2> HIDE DEF nest
    <2>7. IsReader(pp)
      BY <1>1, <2>3, <2>6 DEF IsReader, ReaderFields, IsAuthored
    <2>8. Twin(pp, qq, R)
      BY <1>1, <2>3, <2>4 DEF Twin, ReaderFields
    <2> QED BY <2>5, <2>7, <2>8 DEF Agree
  <1> QED BY <1>2, <1>3

LEMMA PortalAgrees ==
    ASSUME NEW p, NEW q, NEW R, Agree(p, q, R), NEW args \in Seq(Int)
    PROVE  Agree(ReadPortal(p, args), ReadPortal(q, args), R)
  <1> DEFINE from == At(args)
             to == CellOf(args[4], args[5], args[6])
             bad == Len(args) < 6 \/ ~p.sized \/ from \notin DOMAIN p.map.tiles
                    \/ to \notin DOMAIN p.map.tiles \/ from = to
  <1>1. /\ ReaderFields \subseteq DOMAIN p /\ ReaderFields \subseteq DOMAIN q
        /\ IsReader(p) /\ Twin(p, q, R) /\ q.sized = p.sized /\ q.portals = p.portals
        /\ p.sized => DOMAIN q.map.tiles = DOMAIN p.map.tiles
    BY TwinsHave DEF Twin
  <1>2. CASE bad
    <2>1. ReadPortal(p, args) = Refused(p) /\ ReadPortal(q, args) = Refused(q)
      BY <1>1, <1>2 DEF ReadPortal, InBounds
    <2> QED BY <2>1, RefusedAgree
  <1>3. CASE ~bad
    <2> DEFINE warp == [from |-> from, to |-> to]
    <2>1. warp \in Warps
      <3>1. \A k \in 1..6 : k \in 1..Len(args)
        BY <1>3
      <3>2. /\ args[1] \in Int /\ args[2] \in Int /\ args[3] \in Int
            /\ args[4] \in Int /\ args[5] \in Int /\ args[6] \in Int
        BY <3>1
      <3>3. from \in Spots /\ to \in Spots
        BY <3>2, SpotIs DEF At
      <3> QED BY <1>3, <3>3 DEF Warps
    <2>2. PICK ps : ps = Append(p.portals, warp)
      OBVIOUS
    <2>3. PICK pp : pp = [p EXCEPT !.portals = ps]
      OBVIOUS
    <2>4. PICK qq : qq = [q EXCEPT !.portals = ps]
      OBVIOUS
    <2>5. ReadPortal(p, args) = pp /\ ReadPortal(q, args) = qq
      BY <1>1, <1>3, <2>2, <2>3, <2>4 DEF ReadPortal, InBounds, ReaderFields
    <2>6. ps \in Seq(Warps)
      <3> HIDE DEF warp
      <3> QED BY <1>1, <2>1, <2>2 DEF IsReader, IsAuthored
    <2> HIDE DEF warp
    <2>7. IsReader(pp)
      BY <1>1, <2>3, <2>6 DEF IsReader, ReaderFields, IsAuthored
    <2>8. Twin(pp, qq, R)
      BY <1>1, <2>3, <2>4 DEF Twin, ReaderFields
    <2> QED BY <2>5, <2>7, <2>8 DEF Agree
  <1> QED BY <1>2, <1>3

LEMMA FloorAgrees ==
    ASSUME NEW p, NEW q, NEW R, Agree(p, q, R), NEW args \in Seq(Int)
    PROVE  Agree(ReadFloor(p, args), ReadFloor(q, args), R)
  <1> DEFINE bad == args = <<>> \/ ~p.sized \/ args[1] \notin 0..(p.map.floors - 1)
  <1>1. /\ ReaderFields \subseteq DOMAIN p /\ ReaderFields \subseteq DOMAIN q
        /\ IsReader(p) /\ Twin(p, q, R) /\ q.sized = p.sized
        /\ p.sized => /\ IsMap(p.map) /\ q.map.floors = p.map.floors /\ q.map.height = p.map.height
    BY TwinsHave
  <1>2. CASE bad
    <2>1. ReadFloor(p, args) = Refused(p) /\ ReadFloor(q, args) = Refused(q)
      BY <1>1, <1>2 DEF ReadFloor
    <2> QED BY <2>1, RefusedAgree
  <1>3. CASE ~bad
    <2>1. PICK h : h = p.map.height
      OBVIOUS
    <2>2. h \in Nat /\ args[1] \in Int /\ p.sized
      BY <1>1, <1>3, <2>1 DEF IsMap, Dims
    <2>3. PICK pp : pp = [p EXCEPT !.floor = args[1], !.rowsLeft = h]
      OBVIOUS
    <2>4. PICK qq : qq = [q EXCEPT !.floor = args[1], !.rowsLeft = h]
      OBVIOUS
    <2>5. ReadFloor(p, args) = pp /\ ReadFloor(q, args) = qq
      BY <1>1, <1>3, <2>1, <2>3, <2>4 DEF ReadFloor
    <2>6. IsReader(pp)
      BY <1>1, <2>2, <2>3 DEF IsReader, ReaderFields, IsAuthored
    <2>7. Twin(pp, qq, R)
      BY <1>1, <2>3, <2>4 DEF Twin, ReaderFields
    <2> QED BY <2>5, <2>6, <2>7 DEF Agree
  <1> QED BY <1>2, <1>3

LEMMA RowAgrees ==
    ASSUME NEW p, NEW q, NEW R, 0 \notin R, NEW B, Agree(p, q, R), p.rowsLeft > 0,
           NEW cells \in Seq(Int)
    PROVE  Agree(ReadRow(p, cells, B), ReadRow(q, cells, R), R)
  <1>1. /\ ReaderFields \subseteq DOMAIN p /\ ReaderFields \subseteq DOMAIN q
        /\ IsReader(p) /\ Twin(p, q, R) /\ q.legend = p.legend /\ q.rowsLeft = p.rowsLeft
        /\ q.sign = p.sign /\ q.spawn = p.spawn /\ q.floor = p.floor
    BY TwinsHave DEF Twin
  <1>2. p.sized /\ p.rowsLeft \in Nat \ {0} /\ p.floor \in Int
    BY <1>1 DEF IsReader
  <1>3. /\ IsMap(p.map) /\ q.map = Redrawn(p.map, R) /\ IsMap(q.map)
        /\ q.map.width = p.map.width /\ q.map.height = p.map.height /\ q.map.floors = p.map.floors
        /\ DOMAIN q.map.tiles = Cells(p.map.width, p.map.height, p.map.floors)
        /\ DOMAIN p.map.tiles = Cells(p.map.width, p.map.height, p.map.floors)
        /\ \A c \in Cells(p.map.width, p.map.height, p.map.floors) :
              q.map.tiles[c] = Tile(p.map.tiles[c].ground, p.map.tiles[c].object, R)
    BY <1>2, TwinsHave, RedrawnIs
  <1> DEFINE places == Cells(p.map.width, p.map.height, p.map.floors)
             drawn == DrawnIn(p.map, cells)
             y == p.map.height - p.rowsLeft
             onto(c) == {x \in drawn : CellOf(x, y, p.floor) = c}
             pair(c) == p.legend[cells[LastOf(onto(c)) + 1]]
             signs == {x \in drawn : cells[x + 1] = p.sign}
             lost == \E x \in drawn : cells[x + 1] \notin DOMAIN p.legend
  <1>4. DrawnIn(q.map, cells) = drawn
    BY <1>3 DEF DrawnIn
  <1>5. CASE lost
    <2>1. ReadRow(p, cells, B) = Refused(p) /\ ReadRow(q, cells, R) = Refused(q)
      BY <1>1, <1>4, <1>5 DEF ReadRow
    <2> QED BY <2>1, RefusedAgree
  <1>6. CASE ~lost
    <2>1. p.map.width \in Dims /\ p.map.height \in Dims /\ p.map.floors \in Dims
      BY <1>3 DEF IsMap
    <2>2. drawn \subseteq 0..(p.map.width - 1) /\ p.map.width - 1 \in Nat
      BY <2>1 DEF DrawnIn, Dims
    <2>3. \A x \in drawn : x \in Int /\ cells[x + 1] \in DOMAIN p.legend
      BY <1>6, <2>1, <2>2 DEF Dims
    <2>4. ASSUME NEW c \in places, onto(c) # {}
          PROVE  pair(c)[1] \in TileIds /\ pair(c)[2] \in TileIds
      <3>1. onto(c) \subseteq 0..(p.map.width - 1)
        BY <2>2
      <3>2. LastOf(onto(c)) \in onto(c)
        <4> HIDE DEF onto
        <4> QED BY <2>2, <2>4, <3>1, LastIsThere
      <3>3. LastOf(onto(c)) \in drawn
        BY <3>2
      <3>4. pair(c) \in IdPairs
        <4> HIDE DEF onto, drawn
        <4> QED BY <1>1, <2>3, <3>3 DEF IsReader
      <3> HIDE DEF pair
      <3> QED BY <3>4 DEF IdPairs
    <2>5. PICK t : t = [c \in places |-> IF onto(c) # {} THEN Tile(pair(c)[1], pair(c)[2], B)
                                         ELSE p.map.tiles[c]]
      OBVIOUS
    <2>6. PICK u : u = [c \in places |-> IF onto(c) # {} THEN Tile(pair(c)[1], pair(c)[2], R)
                                         ELSE q.map.tiles[c]]
      OBVIOUS
    <2>7. PICK s : s = IF signs = {} THEN p.spawn ELSE CellOf(LastOf(signs), y, p.floor)
      OBVIOUS
    <2>8. PICK m : m = [p.map EXCEPT !.tiles = t]
      OBVIOUS
    <2>9. PICK n : n = [q.map EXCEPT !.tiles = u]
      OBVIOUS
    <2>10. RowDrawn(p, y, cells, B) = m
      BY <1>3, <2>5, <2>8 DEF RowDrawn, IsMap
    <2>11. RowDrawn(q, y, cells, R) = n
      BY <1>1, <1>3, <1>4, <2>6, <2>9 DEF RowDrawn, IsMap
    <2>12. PICK pp : pp = [p EXCEPT !.map = m, !.spawn = s, !.rowsLeft = p.rowsLeft - 1]
      OBVIOUS
    <2>13. PICK qq : qq = [q EXCEPT !.map = n, !.spawn = s, !.rowsLeft = p.rowsLeft - 1]
      OBVIOUS
    <2>14. ReadRow(p, cells, B) = pp
      BY <1>1, <1>6, <2>7, <2>10, <2>12 DEF ReadRow, ReaderFields
    <2>15. ReadRow(q, cells, R) = qq
      BY <1>1, <1>3, <1>4, <1>6, <2>7, <2>11, <2>13 DEF ReadRow, ReaderFields
    <2>16. s \in Spots \cup {NoCell}
      <3>1. CASE signs = {}
        BY <1>1, <2>7, <3>1 DEF IsReader, IsAuthored
      <3>2. CASE signs # {}
        <4>1. signs \subseteq 0..(p.map.width - 1)
          BY <2>2
        <4>2. LastOf(signs) \in 0..(p.map.width - 1)
          <5> HIDE DEF signs
          <5> QED BY <2>2, <3>2, <4>1, LastIsThere
        <4>3. LastOf(signs) \in Int /\ y \in Int
          <5> HIDE DEF signs
          <5> QED BY <1>2, <2>1, <4>2 DEF Dims
        <4> HIDE DEF signs, y
        <4> QED BY <1>2, <2>7, <3>2, <4>3, SpotIs
      <3> QED BY <3>1, <3>2
    <2> HIDE DEF signs, y, lost
    <2>17. \A c \in places : p.map.tiles[c] \in Kinds /\ q.map.tiles[c] \in Kinds
      BY <1>3 DEF IsMap
    <2>18. t \in [places -> Kinds] /\ u \in [places -> Kinds]
      <3>1. \A c \in places : onto(c) # {} =>
                Tile(pair(c)[1], pair(c)[2], B) \in Kinds /\ Tile(pair(c)[1], pair(c)[2], R) \in Kinds
        <4> HIDE DEF onto, pair
        <4> QED BY <2>4, TileIsKind
      <3> HIDE DEF onto, pair, places
      <3> QED BY <2>5, <2>6, <2>17, <3>1
    <2>19. /\ IsMap(m) /\ m.tiles = t
           /\ m.width = p.map.width /\ m.height = p.map.height /\ m.floors = p.map.floors
      BY <1>3, <2>8, <2>18, MapWith
    <2>20. /\ IsMap(n) /\ n.tiles = u
           /\ n.width = p.map.width /\ n.height = p.map.height /\ n.floors = p.map.floors
      BY <1>3, <2>9, <2>18, MapWith
    <2>21. n = Redrawn(m, R)
      <3>1. /\ IsMap(Redrawn(m, R))
            /\ Redrawn(m, R).width = m.width /\ Redrawn(m, R).height = m.height
            /\ Redrawn(m, R).floors = m.floors
            /\ DOMAIN Redrawn(m, R).tiles = places
            /\ \A c \in places : Redrawn(m, R).tiles[c] = Tile(t[c].ground, t[c].object, R)
        BY <2>19, RedrawnIs
      <3>2. ASSUME NEW c \in places PROVE u[c] = Tile(t[c].ground, t[c].object, R)
        <4>1. CASE onto(c) # {}
          <5>1. t[c] = Tile(pair(c)[1], pair(c)[2], B) /\ u[c] = Tile(pair(c)[1], pair(c)[2], R)
            <6> HIDE DEF onto, pair, places
            <6> QED BY <2>5, <2>6, <4>1
          <5>2. pair(c)[1] \in TileIds /\ pair(c)[2] \in TileIds
            <6> HIDE DEF onto, pair, places
            <6> QED BY <2>4, <4>1
          <5> HIDE DEF onto, pair, places
          <5>3. t[c].ground = pair(c)[1] /\ t[c].object = pair(c)[2]
            BY <5>1, <5>2, TileIsKind
          <5> QED BY <5>1, <5>3
        <4>2. CASE onto(c) = {}
          <5> HIDE DEF onto, pair
          <5>1. t[c] = p.map.tiles[c] /\ u[c] = q.map.tiles[c]
            BY <2>5, <2>6, <4>2
          <5> QED BY <1>3, <5>1
        <4> HIDE DEF onto
        <4> QED BY <4>1, <4>2
      <3> HIDE DEF onto, pair, places
      <3>3. Redrawn(m, R).tiles = u
        <4>1. Redrawn(m, R).tiles = [c \in places |-> Redrawn(m, R).tiles[c]]
          BY <3>1 DEF IsMap, places
        <4>2. u = [c \in places |-> u[c]]
          BY <2>18
        <4> QED BY <3>1, <3>2, <4>1, <4>2
      <3> QED BY <2>19, <2>20, <3>1, <3>3 DEF IsMap
    <2> HIDE DEF onto, pair, places, drawn
    <2>22. p.rowsLeft - 1 \in Nat
      BY <1>2
    <2>23. IsReader(pp)
      BY <1>1, <1>2, <2>12, <2>16, <2>19, <2>22 DEF IsReader, ReaderFields, IsAuthored
    <2>24. Twin(pp, qq, R)
      BY <1>1, <2>12, <2>13, <2>21 DEF Twin, ReaderFields
    <2>25. ReadRow(p, cells, B) = pp /\ ReadRow(q, cells, R) = qq
      BY <2>14, <2>15
    <2> QED BY <2>23, <2>24, <2>25 DEF Agree
  <1> QED BY <1>5, <1>6

LEMMA LineAgrees ==
    ASSUME NEW p, NEW q, NEW R, 0 \notin R, NEW B, Agree(p, q, R), NEW line \in Lines
    PROVE  Agree(ReadLine(p, line, B), ReadLine(q, line, R), R)
  <1>1. q.ok = p.ok /\ q.rowsLeft = p.rowsLeft /\ p.ok \in BOOLEAN /\ p.rowsLeft \in Nat
    BY TwinsHave DEF IsReader
  <1>2. line.args \in Seq(Int) /\ line.cells \in Seq(Int) /\ line.glyph \in Int /\ line.word \in Words
    BY DEF Lines
  <1>3. CASE ~p.ok
    BY <1>1, <1>3 DEF ReadLine
  <1>4. CASE p.ok /\ p.rowsLeft > 0
    <2>1. /\ ReadLine(p, line, B) = ReadRow(p, line.cells, B)
          /\ ReadLine(q, line, R) = ReadRow(q, line.cells, R)
      BY <1>1, <1>4 DEF ReadLine
    <2> QED BY <1>2, <1>4, <2>1, RowAgrees
  <1>5. CASE p.ok /\ ~(p.rowsLeft > 0)
    <2>1. p.rowsLeft = 0
      BY <1>1, <1>5
    <2>2. CASE line.word = "size"
      <3>1. /\ ReadLine(p, line, B) = ReadSize(p, line.args)
            /\ ReadLine(q, line, R) = ReadSize(q, line.args)
        BY <1>1, <1>5, <2>2 DEF ReadLine
      <3> QED BY <1>2, <2>1, <3>1, SizeAgrees
    <2>3. CASE line.word = "legend"
      <3>1. /\ ReadLine(p, line, B) = ReadLegend(p, line.glyph, line.args)
            /\ ReadLine(q, line, R) = ReadLegend(q, line.glyph, line.args)
        BY <1>1, <1>5, <2>3 DEF ReadLine
      <3> QED BY <1>2, <3>1, LegendAgrees
    <2>4. CASE line.word = "spawn"
      <3>1. /\ ReadLine(p, line, B) = ReadSpawn(p, line.glyph)
            /\ ReadLine(q, line, R) = ReadSpawn(q, line.glyph)
        BY <1>1, <1>5, <2>4 DEF ReadLine
      <3> QED BY <1>2, <3>1, SpawnAgrees
    <2>5. CASE line.word = "monster"
      <3>1. /\ ReadLine(p, line, B) = ReadMonster(p, line.args)
            /\ ReadLine(q, line, R) = ReadMonster(q, line.args)
        BY <1>1, <1>5, <2>5 DEF ReadLine
      <3> QED BY <1>2, <3>1, MonsterAgrees
    <2>6. CASE line.word = "spawner"
      <3>1. /\ ReadLine(p, line, B) = ReadSpawner(p, line.args)
            /\ ReadLine(q, line, R) = ReadSpawner(q, line.args)
        BY <1>1, <1>5, <2>6 DEF ReadLine
      <3> QED BY <1>2, <3>1, SpawnerAgrees
    <2>7. CASE line.word = "portal"
      <3>1. /\ ReadLine(p, line, B) = ReadPortal(p, line.args)
            /\ ReadLine(q, line, R) = ReadPortal(q, line.args)
        BY <1>1, <1>5, <2>7 DEF ReadLine
      <3> QED BY <1>2, <3>1, PortalAgrees
    <2>8. CASE line.word = "floor"
      <3>1. /\ ReadLine(p, line, B) = ReadFloor(p, line.args)
            /\ ReadLine(q, line, R) = ReadFloor(q, line.args)
        BY <1>1, <1>5, <2>8 DEF ReadLine
      <3> QED BY <1>2, <3>1, FloorAgrees
    <2>9. CASE line.word = "comment"
      <3>1. ReadLine(p, line, B) = p /\ ReadLine(q, line, R) = q
        BY <1>1, <1>5, <2>9 DEF ReadLine
      <3> QED BY <3>1
    <2>10. CASE line.word = "row" /\ line.cells = <<>>
      <3>1. ReadLine(p, line, B) = p /\ ReadLine(q, line, R) = q
        BY <1>1, <1>5, <2>10 DEF ReadLine
      <3> QED BY <3>1
    <2>11. CASE (line.word = "row" /\ line.cells # <<>>) \/ line.word = "other"
      <3>1. ReadLine(p, line, B) = Refused(p) /\ ReadLine(q, line, R) = Refused(q)
        BY <1>1, <1>5, <2>11 DEF ReadLine
      <3> QED BY <3>1, RefusedAgree
    <2> QED BY <1>2, <2>2, <2>3, <2>4, <2>5, <2>6, <2>7, <2>8, <2>9, <2>10, <2>11 DEF Words
  <1> QED BY <1>3, <1>4, <1>5

LEMMA StartedAgrees ==
    ASSUME NEW R
    PROVE  Agree(Started, Started, R)
  <1>1. IsReader(Started)
    <2>1. /\ <<>> \in Seq(Mobs) /\ <<>> \in Seq(Nests) /\ <<>> \in Seq(Warps)
          /\ DOMAIN <<>> = {}
      OBVIOUS
    <2>2. NoGlyph \in Int
      BY DEF NoGlyph
    <2> QED BY <2>1, <2>2 DEF IsReader, IsAuthored, Started, ReaderFields
  <1>2. Twin(Started, Started, R)
    BY DEF Twin, Started, ReaderFields
  <1> QED BY <1>1, <1>2 DEF Agree

LEMMA ReadAgrees ==
    ASSUME NEW R, 0 \notin R, NEW B, NEW lines \in Seq(Lines)
    PROVE  Agree(Read(Started, lines, B), Read(Started, lines, R), R)
  <1>0. Len(lines) \in Nat
    OBVIOUS
  <1>1. PICK f : Reads(f, Started, lines, B) /\ Read(Started, lines, B) = f[Len(lines)]
    BY <1>0, ReadIs
  <1>2. PICK g : Reads(g, Started, lines, R) /\ Read(Started, lines, R) = g[Len(lines)]
    BY <1>0, ReadIs
  <1> DEFINE Good == {k \in Nat : k <= Len(lines) => Agree(f[k], g[k], R)}
  <1>3. 0 \in Good
    BY <1>1, <1>2, StartedAgrees DEF Reads
  <1>4. ASSUME NEW k \in Nat, k \in Good PROVE k + 1 \in Good
    <2>1. SUFFICES ASSUME k + 1 <= Len(lines) PROVE Agree(f[k + 1], g[k + 1], R)
      OBVIOUS
    <2>2. k + 1 \in 1..Len(lines) /\ k + 1 - 1 = k
      BY <1>0, <2>1
    <2>3. Agree(f[k], g[k], R)
      BY <1>0, <1>4, <2>1
    <2>4. lines[k + 1] \in Lines
      BY <2>2
    <2>5. f[k + 1] = ReadLine(f[k], lines[k + 1], B) /\ g[k + 1] = ReadLine(g[k], lines[k + 1], R)
      BY <1>1, <1>2, <2>2 DEF Reads
    <2> QED BY <2>3, <2>4, <2>5, LineAgrees
  <1> HIDE DEF Good
  <1>5. Len(lines) \in Good
    BY <1>0, <1>3, <1>4, Induction
  <1> QED BY <1>0, <1>1, <1>2, <1>5 DEF Good

----------------------------------------------------------------------------
(* Documents. *)

DocFields == {"ok", "map", "spawn", "monsters", "spawners", "portals"}

IsDoc(d) ==
    /\ d = [ok |-> TRUE, map |-> d.map, spawn |-> d.spawn, monsters |-> d.monsters,
            spawners |-> d.spawners, portals |-> d.portals]
    /\ IsMap(d.map) /\ IsAuthored(d)

LEMMA ParseIs ==
    ASSUME NEW lines, NEW B, NEW p, p = Read(Started, lines, B)
    PROVE  Parse(lines, B) = IF p.ok /\ p.sized /\ p.rowsLeft = 0 /\ PortalsStand(p)
                             THEN [ok |-> TRUE, map |-> p.map, spawn |-> p.spawn,
                                   monsters |-> p.monsters, spawners |-> p.spawners,
                                   portals |-> p.portals]
                             ELSE Unreadable
  BY DEF Parse

(* What can be read is a document. *)
LEMMA ParsedIsDoc ==
    ASSUME NEW lines \in Seq(Lines), NEW B, 0 \notin B, Parse(lines, B).ok
    PROVE  IsDoc(Parse(lines, B))
  <1>1. PICK p : p = Read(Started, lines, B)
    OBVIOUS
  <1>2. PICK d : d = Parse(lines, B)
    OBVIOUS
  <1>3. d = IF p.ok /\ p.sized /\ p.rowsLeft = 0 /\ PortalsStand(p)
            THEN [ok |-> TRUE, map |-> p.map, spawn |-> p.spawn,
                  monsters |-> p.monsters, spawners |-> p.spawners, portals |-> p.portals]
            ELSE Unreadable
    BY <1>1, <1>2, ParseIs
  <1>4. d.ok
    BY <1>2
  <1>5. p.sized /\ d = [ok |-> TRUE, map |-> p.map, spawn |-> p.spawn,
                        monsters |-> p.monsters, spawners |-> p.spawners, portals |-> p.portals]
    <2>1. Unreadable.ok = FALSE
      BY DEF Unreadable
    <2> QED BY <1>3, <1>4, <2>1
  <1>6. IsReader(p)
    BY <1>1, ReadAgrees DEF Agree
  <1>7. IsMap(p.map) /\ IsAuthored(p)
    BY <1>5, <1>6 DEF IsReader
  <1>8. /\ d.map = p.map /\ d.spawn = p.spawn /\ d.monsters = p.monsters
        /\ d.spawners = p.spawners /\ d.portals = p.portals
    BY <1>5
  <1>9. IsDoc(d)
    BY <1>5, <1>7, <1>8 DEF IsDoc, IsAuthored
  <1> QED BY <1>2, <1>9

(* Read under other blockers, a file shows the same document, its map     *)
(* redrawn, as long as its portals can still be stood on.                  *)
LEMMA ReadUnderOthers ==
    ASSUME NEW lines \in Seq(Lines), NEW B, NEW R, 0 \notin R, 0 \notin B,
           NEW d, d = Parse(lines, B), d.ok,
           PortalsStand([d EXCEPT !.map = Redrawn(d.map, R)])
    PROVE  LET e == Parse(lines, R)
           IN  /\ e.ok /\ e.map = Redrawn(d.map, R) /\ e.spawn = d.spawn
               /\ e.monsters = d.monsters /\ e.spawners = d.spawners /\ e.portals = d.portals
  <1>1. PICK p : p = Read(Started, lines, B)
    OBVIOUS
  <1>2. PICK q : q = Read(Started, lines, R)
    OBVIOUS
  <1>3. Agree(p, q, R)
    BY <1>1, <1>2, ReadAgrees
  <1>4. d = IF p.ok /\ p.sized /\ p.rowsLeft = 0 /\ PortalsStand(p)
            THEN [ok |-> TRUE, map |-> p.map, spawn |-> p.spawn,
                  monsters |-> p.monsters, spawners |-> p.spawners, portals |-> p.portals]
            ELSE Unreadable
    BY <1>1, ParseIs
  <1>5. /\ p.ok /\ p.sized /\ p.rowsLeft = 0
        /\ d = [ok |-> TRUE, map |-> p.map, spawn |-> p.spawn,
                monsters |-> p.monsters, spawners |-> p.spawners, portals |-> p.portals]
    <2>1. Unreadable.ok = FALSE
      BY DEF Unreadable
    <2> QED BY <1>4, <2>1
  <1>6. /\ q.ok = p.ok /\ q.sized = p.sized /\ q.rowsLeft = p.rowsLeft
        /\ q.map = Redrawn(p.map, R) /\ q.spawn = p.spawn /\ q.monsters = p.monsters
        /\ q.spawners = p.spawners /\ q.portals = p.portals
    BY <1>3, <1>5 DEF Agree, Twin
  <1>7. PICK dd : dd = [d EXCEPT !.map = Redrawn(d.map, R)]
    OBVIOUS
  <1>8. dd.map = q.map /\ dd.portals = q.portals
    <2>1. {"map", "portals"} \subseteq DOMAIN d /\ d.map = p.map /\ d.portals = p.portals
      BY <1>5
    <2>2. dd.map = Redrawn(d.map, R) /\ dd.portals = d.portals
      BY <1>7, <2>1
    <2> QED BY <1>6, <2>1, <2>2
  <1>9. PortalsStand(q)
    <2>1. PortalsStand(dd)
      BY <1>7
    <2> QED BY <1>8, <2>1 DEF PortalsStand
  <1>10. Parse(lines, R) = [ok |-> TRUE, map |-> q.map, spawn |-> q.spawn,
                            monsters |-> q.monsters, spawners |-> q.spawners, portals |-> q.portals]
    BY <1>2, <1>5, <1>6, <1>9, ParseIs
  <1>11. /\ d.map = p.map /\ d.spawn = p.spawn /\ d.monsters = p.monsters
         /\ d.spawners = p.spawners /\ d.portals = p.portals
    BY <1>5
  <1> QED BY <1>6, <1>10, <1>11

----------------------------------------------------------------------------
(* Reading what was written: the mobs, nests and portals. *)

Fits(m) == m.width <= CoordLimit /\ m.height <= CoordLimit /\ m.floors <= FloorLimit

LEMMA SpotFits ==
    ASSUME NEW m, IsMap(m), Fits(m), NEW c \in Cells(m.width, m.height, m.floors)
    PROVE  /\ CellOf(c[1], c[2], c[3]) = c
           /\ c = <<c[1], c[2], c[3]>> /\ c[1] \in Nat /\ c[2] \in Nat /\ c[3] \in Nat
  <1>1. /\ c = <<c[1], c[2], c[3]>>
        /\ c[1] \in 0..(m.width - 1) /\ c[2] \in 0..(m.height - 1) /\ c[3] \in 0..(m.floors - 1)
    BY DEF Cells
  <1>2. m.width \in Nat /\ m.height \in Nat /\ m.floors \in Nat
    BY DEF IsMap, Dims
  <1>3. CoordLimit \in Int /\ FloorLimit \in Int
    BY DEF CoordLimit, FloorLimit
  <1>4. /\ c[1] \in Nat /\ c[2] \in Nat /\ c[3] \in Nat
        /\ c[1] < CoordLimit /\ c[2] < CoordLimit /\ c[3] < FloorLimit
    BY <1>1, <1>2, <1>3 DEF Fits
  <1>5. /\ Signed(c[1], CoordLimit) = c[1] /\ Signed(c[2], CoordLimit) = c[2]
        /\ Signed(c[3], FloorLimit) = c[3]
    BY <1>3, <1>4, FitsIs
  <1> QED BY <1>1, <1>4, <1>5 DEF CellOf

(* A reader between two directives. *)
Holds(p, m, legend, sign, ms, ns, ps) ==
    /\ ReaderFields \subseteq DOMAIN p
    /\ p.ok = TRUE /\ p.sized = TRUE /\ p.rowsLeft = 0
    /\ p.map = m /\ p.legend = legend /\ p.sign = sign /\ p.spawn = NoCell
    /\ p.monsters = ms /\ p.spawners = ns /\ p.portals = ps

Prefix(s, k) == SubSeq(s, 1, k)

LEMMA PrefixGrows ==
    ASSUME NEW S, NEW s \in Seq(S)
    PROVE  /\ Prefix(s, 0) = <<>> /\ Prefix(s, Len(s)) = s
           /\ \A k \in 0..(Len(s) - 1) : Append(Prefix(s, k), s[k + 1]) = Prefix(s, k + 1)
  <1>1. Len(s) \in Nat /\ \A k \in 1..Len(s) : s[k] \in S
    BY ElementOfSeq
  <1>2. ASSUME NEW n \in 0..Len(s)
        PROVE  /\ SubSeq(s, 1, n) \in Seq(S) /\ Len(SubSeq(s, 1, n)) = n
               /\ \A k \in 1..n : SubSeq(s, 1, n)[k] = s[k]
    <2>1. \A k \in 1..n : s[k] \in S
      BY <1>1
    <2>2. /\ SubSeq(s, 1, n) \in Seq(S)
          /\ Len(SubSeq(s, 1, n)) = IF 1 <= n THEN n - 1 + 1 ELSE 0
          /\ \A k \in 1..n - 1 + 1 : SubSeq(s, 1, n)[k] = s[1 + k - 1]
      BY <2>1, SubSeqProperties
    <2>3. n - 1 + 1 = n /\ (~ 1 <= n => n = 0) /\ \A k \in 1..n : 1 + k - 1 = k
      OBVIOUS
    <2> QED BY <2>2, <2>3
  <1>3. SubSeq(s, 1, 0) = <<>>
    BY <1>1, <1>2, EmptySeq
  <1>4. SubSeq(s, 1, Len(s)) = s
    <2>1. PICK t : t = SubSeq(s, 1, Len(s))
      OBVIOUS
    <2>2. t \in Seq(S) /\ Len(t) = Len(s) /\ \A k \in 1..Len(s) : t[k] = s[k]
      BY <1>1, <1>2, <2>1
    <2> QED BY <2>1, <2>2, SeqEqual
  <1>5. ASSUME NEW k \in 0..(Len(s) - 1)
        PROVE  Append(SubSeq(s, 1, k), s[k + 1]) = SubSeq(s, 1, k + 1)
    <2>1. k \in 0..Len(s) /\ k + 1 \in 0..Len(s) /\ k + 1 \in 1..Len(s)
      BY <1>1
    <2>2. PICK t : t = SubSeq(s, 1, k)
      OBVIOUS
    <2>3. PICK u : u = SubSeq(s, 1, k + 1)
      OBVIOUS
    <2>4. t \in Seq(S) /\ Len(t) = k /\ \A j \in 1..k : t[j] = s[j]
      BY <1>2, <2>1, <2>2
    <2>5. u \in Seq(S) /\ Len(u) = k + 1 /\ \A j \in 1..(k + 1) : u[j] = s[j]
      BY <1>2, <2>1, <2>3
    <2>6. PICK a : a = Append(t, s[k + 1])
      OBVIOUS
    <2>7. a \in Seq(S) /\ Len(a) = k + 1 /\ (\A j \in 1..k : a[j] = t[j]) /\ a[k + 1] = s[k + 1]
      BY <1>1, <2>1, <2>4, <2>6, AppendProperties
    <2>8. \A j \in 1..(k + 1) : a[j] = u[j]
      BY <2>4, <2>5, <2>7
    <2>9. a = u
      BY <2>5, <2>7, <2>8, SeqEqual
    <2> QED BY <2>2, <2>3, <2>6, <2>9
  <1>6. \A k : Prefix(s, k) = SubSeq(s, 1, k)
    BY DEF Prefix
  <1> QED BY <1>3, <1>4, <1>5, <1>6

Placed(m, s) ==
    \A k \in 1..Len(s) : s[k].tile \in Cells(m.width, m.height, m.floors) /\ s[k].type # 0

LEMMA SomeType ==
    ASSUME NEW t \in TileIds, t # 0
    PROVE  ~ (t <= 0)
  BY DEF TileIds

LEMMA MonsterRead ==
    ASSUME NEW m, IsMap(m), Fits(m), NEW l, NEW s, NEW ms, NEW ns, NEW ps, NEW p,
           Holds(p, m, l, s, ms, ns, ps),
           NEW x \in Mobs, x.tile \in Cells(m.width, m.height, m.floors), x.type # 0, NEW B
    PROVE  Holds(ReadLine(p, MonsterLine(x), B), m, l, s, Append(ms, x), ns, ps)
  <1>1. PICK args : args = <<x.tile[1], x.tile[2], x.tile[3], x.type>>
    OBVIOUS
  <1>2. /\ Len(args) = 4 /\ args[1] = x.tile[1] /\ args[2] = x.tile[2] /\ args[3] = x.tile[3]
        /\ args[4] = x.type
    BY <1>1
  <1>3. MonsterLine(x).word = "monster" /\ MonsterLine(x).args = args
    BY <1>1 DEF MonsterLine, Directive, Line
  <1>4. ReadLine(p, MonsterLine(x), B) = ReadMonster(p, args)
    BY <1>3 DEF ReadLine, Holds
  <1>5. At(args) = x.tile
    BY <1>2, SpotFits DEF At
  <1>6. x.type \in TileIds /\ x = [tile |-> x.tile, type |-> x.type]
    BY DEF Mobs
  <1>7. TileIdOf(args[4]) = x.type
    BY <1>2, <1>6, TypeFits
  <1>8. ~ (args[4] <= 0)
    BY <1>2, <1>6, SomeType
  <1>9. InBounds(p.map, x.tile)
    BY DEF InBounds, Holds, IsMap
  <1>10. ReadMonster(p, args) = [p EXCEPT !.monsters = Append(p.monsters, x)]
    <2>1. p.sized /\ ~ (Len(args) < 4)
      BY <1>2 DEF Holds
    <2>2. ~ (Len(args) < 4 \/ args[4] <= 0 \/ ~p.sized \/ ~InBounds(p.map, At(args)))
      BY <2>1, <1>5, <1>8, <1>9
    <2>3. [tile |-> At(args), type |-> TileIdOf(args[4])] = x
      BY <1>5, <1>6, <1>7
    <2> QED BY <2>2, <2>3 DEF ReadMonster
  <1>11. PICK q : q = [p EXCEPT !.monsters = Append(ms, x)]
    OBVIOUS
  <1>12. Holds(q, m, l, s, Append(ms, x), ns, ps)
    BY <1>11 DEF Holds, ReaderFields
  <1> QED BY <1>4, <1>10, <1>11, <1>12 DEF Holds

LEMMA SpawnerRead ==
    ASSUME NEW m, IsMap(m), Fits(m), NEW l, NEW s, NEW ms, NEW ns, NEW ps, NEW p,
           Holds(p, m, l, s, ms, ns, ps),
           NEW x \in Nests, x.tile \in Cells(m.width, m.height, m.floors), x.type # 0, NEW B
    PROVE  Holds(ReadLine(p, SpawnerLine(x), B), m, l, s, ms, Append(ns, x), ps)
  <1>1. PICK args : args = <<x.tile[1], x.tile[2], x.tile[3], x.type, x.maxAlive, x.radius, x.seconds>>
    OBVIOUS
  <1>2. /\ Len(args) = 7 /\ args[1] = x.tile[1] /\ args[2] = x.tile[2] /\ args[3] = x.tile[3]
        /\ args[4] = x.type /\ args[5] = x.maxAlive /\ args[6] = x.radius /\ args[7] = x.seconds
    BY <1>1
  <1>3. SpawnerLine(x).word = "spawner" /\ SpawnerLine(x).args = args
    BY <1>1 DEF SpawnerLine, Directive, Line
  <1>4. ReadLine(p, SpawnerLine(x), B) = ReadSpawner(p, args)
    BY <1>3 DEF ReadLine, Holds
  <1>5. At(args) = x.tile
    BY <1>2, SpotFits DEF At
  <1>6. /\ x.type \in TileIds /\ x.maxAlive \in 1..ByteMax /\ x.radius \in 0..ByteMax
        /\ x.seconds \in 0..ShortMax
        /\ x = [tile |-> x.tile, type |-> x.type, maxAlive |-> x.maxAlive, radius |-> x.radius,
                seconds |-> x.seconds]
    BY DEF Nests
  <1>7. TileIdOf(args[4]) = x.type
    BY <1>2, <1>6, TypeFits
  <1>8. ByteMax \in Nat /\ ShortMax \in Nat
    BY MapTextAssumption
  <1>9. ~ (args[4] <= 0) /\ ~ (args[5] <= 0) /\ ~ (args[6] < 0) /\ ~ (args[7] < 0)
    <2>1. ~ (x.type <= 0)
      BY <1>6, SomeType
    <2> QED BY <1>2, <1>6, <1>8, <2>1
  <1>10. /\ Clamped(args[5], ByteMax) = x.maxAlive /\ Clamped(args[6], ByteMax) = x.radius
         /\ Clamped(args[7], ShortMax) = x.seconds
    <2>1. \A most \in Nat : \A n \in 0..most : Clamped(n, most) = n
      BY DEF Clamped
    <2>2. x.maxAlive \in 0..ByteMax
      BY <1>6, <1>8
    <2> QED BY <1>2, <1>6, <1>8, <2>1, <2>2
  <1>11. InBounds(p.map, x.tile)
    BY DEF InBounds, Holds, IsMap
  <1>12. ReadSpawner(p, args) = [p EXCEPT !.spawners = Append(p.spawners, x)]
    <2>1. p.sized = TRUE /\ "spawners" \in DOMAIN p
      BY DEF Holds, ReaderFields
    <2>2. ~ (Len(args) < 7)
      BY <1>2
    <2> QED BY <1>5, <1>6, <1>7, <1>9, <1>10, <1>11, <2>1, <2>2 DEF ReadSpawner
  <1>13. PICK q : q = [p EXCEPT !.spawners = Append(ns, x)]
    OBVIOUS
  <1>14. Holds(q, m, l, s, ms, Append(ns, x), ps)
    BY <1>13 DEF Holds, ReaderFields
  <1> QED BY <1>4, <1>12, <1>13, <1>14 DEF Holds

LEMMA PortalRead ==
    ASSUME NEW m, IsMap(m), Fits(m), NEW l, NEW s, NEW ms, NEW ns, NEW ps, NEW p,
           Holds(p, m, l, s, ms, ns, ps), NEW x \in Warps, NEW B,
           x.from \in Cells(m.width, m.height, m.floors), x.to \in Cells(m.width, m.height, m.floors)
    PROVE  Holds(ReadLine(p, PortalLine(x), B), m, l, s, ms, ns, Append(ps, x))
  <1>1. PICK args : args = <<x.from[1], x.from[2], x.from[3], x.to[1], x.to[2], x.to[3]>>
    OBVIOUS
  <1>2. /\ Len(args) = 6 /\ args[1] = x.from[1] /\ args[2] = x.from[2] /\ args[3] = x.from[3]
        /\ args[4] = x.to[1] /\ args[5] = x.to[2] /\ args[6] = x.to[3]
    BY <1>1
  <1>3. PortalLine(x).word = "portal" /\ PortalLine(x).args = args
    BY <1>1 DEF PortalLine, Directive, Line
  <1>4. ReadLine(p, PortalLine(x), B) = ReadPortal(p, args)
    BY <1>3 DEF ReadLine, Holds
  <1>5. At(args) = x.from /\ CellOf(args[4], args[5], args[6]) = x.to
    BY <1>2, SpotFits DEF At
  <1>6. x.from # x.to /\ x = [from |-> x.from, to |-> x.to]
    BY DEF Warps
  <1>7. InBounds(p.map, x.from) /\ InBounds(p.map, x.to)
    BY DEF InBounds, Holds, IsMap
  <1>8. ReadPortal(p, args) = [p EXCEPT !.portals = Append(p.portals, x)]
    <2>1. p.sized = TRUE /\ "portals" \in DOMAIN p
      BY DEF Holds, ReaderFields
    <2>2. ~ (Len(args) < 6)
      BY <1>2
    <2> QED BY <1>5, <1>6, <1>7, <2>1, <2>2 DEF ReadPortal
  <1>9. PICK q : q = [p EXCEPT !.portals = Append(ps, x)]
    OBVIOUS
  <1>10. Holds(q, m, l, s, ms, ns, Append(ps, x))
    BY <1>9 DEF Holds, ReaderFields
  <1> QED BY <1>4, <1>8, <1>9, <1>10 DEF Holds

LEMMA MonstersRead ==
    ASSUME NEW m, IsMap(m), Fits(m), NEW l, NEW s, NEW ns, NEW ps, NEW p,
           Holds(p, m, l, s, <<>>, ns, ps), NEW ms \in Seq(Mobs), Placed(m, ms), NEW B
    PROVE  Holds(Read(p, MonsterLines(ms), B), m, l, s, ms, ns, ps)
  <1>0. /\ Prefix(ms, 0) = <<>> /\ Prefix(ms, Len(ms)) = ms
        /\ \A k \in 0..(Len(ms) - 1) : Append(Prefix(ms, k), ms[k + 1]) = Prefix(ms, k + 1)
    <2>1. ms \in Seq(Mobs)
      OBVIOUS
    <2> QED BY <2>1, PrefixGrows
  <1>1. PICK n \in Nat : n = Len(ms)
    OBVIOUS
  <1>2. PICK lines : lines = MonsterLines(ms)
    OBVIOUS
  <1>3. Len(lines) = n /\ \A k \in 1..n : lines[k] = MonsterLine(ms[k]) /\ ms[k] \in Mobs
    BY <1>1, <1>2 DEF MonsterLines
  <1>4. PICK f : Reads(f, p, lines, B) /\ Read(p, lines, B) = f[n]
    BY <1>1, <1>3, ReadIs
  <1> DEFINE Good == {k \in Nat : k <= n => Holds(f[k], m, l, s, Prefix(ms, k), ns, ps)}
  <1>5. 0 \in Good
    BY <1>0, <1>4 DEF Reads
  <1>6. ASSUME NEW k \in Nat, k \in Good PROVE k + 1 \in Good
    <2>1. SUFFICES ASSUME k + 1 <= n PROVE Holds(f[k + 1], m, l, s, Prefix(ms, k + 1), ns, ps)
      OBVIOUS
    <2>2. k + 1 \in 1..n /\ k + 1 - 1 = k /\ k \in 0..(n - 1)
      BY <2>1
    <2>3. Holds(f[k], m, l, s, Prefix(ms, k), ns, ps)
      BY <1>6, <2>1
    <2>4. f[k + 1] = ReadLine(f[k], MonsterLine(ms[k + 1]), B)
      BY <1>3, <1>4, <2>2 DEF Reads
    <2>5. Append(Prefix(ms, k), ms[k + 1]) = Prefix(ms, k + 1)
      BY <1>0, <1>1, <2>2
    <2>6. /\ ms[k + 1].tile \in Cells(m.width, m.height, m.floors) /\ ms[k + 1].type # 0
          /\ ms[k + 1] \in Mobs
      BY <1>1, <1>3, <2>2 DEF Placed
    <2>7. Holds(f[k + 1], m, l, s, Append(Prefix(ms, k), ms[k + 1]), ns, ps)
      BY <2>3, <2>4, <2>6, MonsterRead
    <2> QED BY <2>5, <2>7
  <1> HIDE DEF Good
  <1>7. n \in Good
    BY <1>5, <1>6, Induction
  <1>8. Holds(f[n], m, l, s, Prefix(ms, n), ns, ps)
    BY <1>7 DEF Good
  <1> QED BY <1>0, <1>1, <1>2, <1>4, <1>8

LEMMA SpawnersRead ==
    ASSUME NEW m, IsMap(m), Fits(m), NEW l, NEW s, NEW ms, NEW ps, NEW p,
           Holds(p, m, l, s, ms, <<>>, ps), NEW ns \in Seq(Nests), Placed(m, ns), NEW B
    PROVE  Holds(Read(p, SpawnerLines(ns), B), m, l, s, ms, ns, ps)
  <1>0. /\ Prefix(ns, 0) = <<>> /\ Prefix(ns, Len(ns)) = ns
        /\ \A k \in 0..(Len(ns) - 1) : Append(Prefix(ns, k), ns[k + 1]) = Prefix(ns, k + 1)
    <2>1. ns \in Seq(Nests)
      OBVIOUS
    <2> QED BY <2>1, PrefixGrows
  <1>1. PICK n \in Nat : n = Len(ns)
    OBVIOUS
  <1>2. PICK lines : lines = SpawnerLines(ns)
    OBVIOUS
  <1>3. Len(lines) = n /\ \A k \in 1..n : lines[k] = SpawnerLine(ns[k]) /\ ns[k] \in Nests
    BY <1>1, <1>2 DEF SpawnerLines
  <1>4. PICK f : Reads(f, p, lines, B) /\ Read(p, lines, B) = f[n]
    BY <1>1, <1>3, ReadIs
  <1> DEFINE Good == {k \in Nat : k <= n => Holds(f[k], m, l, s, ms, Prefix(ns, k), ps)}
  <1>5. 0 \in Good
    BY <1>0, <1>4 DEF Reads
  <1>6. ASSUME NEW k \in Nat, k \in Good PROVE k + 1 \in Good
    <2>1. SUFFICES ASSUME k + 1 <= n PROVE Holds(f[k + 1], m, l, s, ms, Prefix(ns, k + 1), ps)
      OBVIOUS
    <2>2. k + 1 \in 1..n /\ k + 1 - 1 = k /\ k \in 0..(n - 1)
      BY <2>1
    <2>3. Holds(f[k], m, l, s, ms, Prefix(ns, k), ps)
      BY <1>6, <2>1
    <2>4. f[k + 1] = ReadLine(f[k], SpawnerLine(ns[k + 1]), B)
      BY <1>3, <1>4, <2>2 DEF Reads
    <2>5. Append(Prefix(ns, k), ns[k + 1]) = Prefix(ns, k + 1)
      BY <1>0, <1>1, <2>2
    <2>6. /\ ns[k + 1].tile \in Cells(m.width, m.height, m.floors) /\ ns[k + 1].type # 0
          /\ ns[k + 1] \in Nests
      BY <1>1, <1>3, <2>2 DEF Placed
    <2>7. Holds(f[k + 1], m, l, s, ms, Append(Prefix(ns, k), ns[k + 1]), ps)
      BY <2>3, <2>4, <2>6, SpawnerRead
    <2> QED BY <2>5, <2>7
  <1> HIDE DEF Good
  <1>7. n \in Good
    BY <1>5, <1>6, Induction
  <1>8. Holds(f[n], m, l, s, ms, Prefix(ns, n), ps)
    BY <1>7 DEF Good
  <1> QED BY <1>0, <1>1, <1>2, <1>4, <1>8

LEMMA PortalsRead ==
    ASSUME NEW m, IsMap(m), Fits(m), NEW l, NEW s, NEW ms, NEW ns, NEW p,
           Holds(p, m, l, s, ms, ns, <<>>), NEW ps \in Seq(Warps), NEW B,
           \A k \in 1..Len(ps) : /\ ps[k].from \in Cells(m.width, m.height, m.floors)
                                 /\ ps[k].to \in Cells(m.width, m.height, m.floors)
    PROVE  Holds(Read(p, PortalLines(ps), B), m, l, s, ms, ns, ps)
  <1>0. /\ Prefix(ps, 0) = <<>> /\ Prefix(ps, Len(ps)) = ps
        /\ \A k \in 0..(Len(ps) - 1) : Append(Prefix(ps, k), ps[k + 1]) = Prefix(ps, k + 1)
    <2>1. ps \in Seq(Warps)
      OBVIOUS
    <2> QED BY <2>1, PrefixGrows
  <1>1. PICK n \in Nat : n = Len(ps)
    OBVIOUS
  <1>2. PICK lines : lines = PortalLines(ps)
    OBVIOUS
  <1>3. Len(lines) = n /\ \A k \in 1..n : lines[k] = PortalLine(ps[k]) /\ ps[k] \in Warps
    BY <1>1, <1>2 DEF PortalLines
  <1>4. PICK f : Reads(f, p, lines, B) /\ Read(p, lines, B) = f[n]
    BY <1>1, <1>3, ReadIs
  <1> DEFINE Good == {k \in Nat : k <= n => Holds(f[k], m, l, s, ms, ns, Prefix(ps, k))}
  <1>5. 0 \in Good
    BY <1>0, <1>4 DEF Reads
  <1>6. ASSUME NEW k \in Nat, k \in Good PROVE k + 1 \in Good
    <2>1. SUFFICES ASSUME k + 1 <= n PROVE Holds(f[k + 1], m, l, s, ms, ns, Prefix(ps, k + 1))
      OBVIOUS
    <2>2. k + 1 \in 1..n /\ k + 1 - 1 = k /\ k \in 0..(n - 1)
      BY <2>1
    <2>3. Holds(f[k], m, l, s, ms, ns, Prefix(ps, k))
      BY <1>6, <2>1
    <2>4. f[k + 1] = ReadLine(f[k], PortalLine(ps[k + 1]), B)
      BY <1>3, <1>4, <2>2 DEF Reads
    <2>5. Append(Prefix(ps, k), ps[k + 1]) = Prefix(ps, k + 1)
      BY <1>0, <1>1, <2>2
    <2>6. /\ ps[k + 1].from \in Cells(m.width, m.height, m.floors)
          /\ ps[k + 1].to \in Cells(m.width, m.height, m.floors) /\ ps[k + 1] \in Warps
      BY <1>1, <1>3, <2>2
    <2>7. Holds(f[k + 1], m, l, s, ms, ns, Append(Prefix(ps, k), ps[k + 1]))
      BY <2>3, <2>4, <2>6, PortalRead
    <2> QED BY <2>5, <2>7
  <1> HIDE DEF Good
  <1>7. n \in Good
    BY <1>5, <1>6, Induction
  <1>8. Holds(f[n], m, l, s, ms, ns, Prefix(ps, n))
    BY <1>7 DEF Good
  <1> QED BY <1>0, <1>1, <1>2, <1>4, <1>8

----------------------------------------------------------------------------
(* The size, the legend and the spawn. *)

LEMMA HeaderRead ==
    ASSUME NEW w \in Dims, NEW h \in Dims, NEW f \in Dims, NEW B
    PROVE  LET p == Read(Started, <<Directive("comment", <<>>), Directive("size", <<w, h, f>>)>>, B)
           IN  Holds(p, NewMap(w, h, f), <<>>, NoGlyph, <<>>, <<>>, <<>>)
  <1>1. PICK one : one = Directive("comment", <<>>)
    OBVIOUS
  <1>2. PICK two : two = Directive("size", <<w, h, f>>)
    OBVIOUS
  <1>3. /\ one.word = "comment" /\ two.word = "size" /\ two.args = <<w, h, f>>
        /\ Len(<<one, two>>) = 2 /\ <<one, two>>[1] = one /\ <<one, two>>[2] = two
    BY <1>1, <1>2 DEF Directive, Line
  <1>4. PICK g : Reads(g, Started, <<one, two>>, B) /\ Read(Started, <<one, two>>, B) = g[2]
    BY <1>3, ReadIs
  <1>5. g[0] = Started /\ g[1] = ReadLine(g[0], one, B) /\ g[2] = ReadLine(g[1], two, B)
    <2>1. \A k \in 1..2 : g[k] = ReadLine(g[k - 1], <<one, two>>[k], B)
      BY <1>3, <1>4 DEF Reads
    <2> QED BY <1>3, <1>4, <2>1 DEF Reads
  <1>6. Started.ok = TRUE /\ Started.rowsLeft = 0 /\ ReaderFields \subseteq DOMAIN Started
    BY DEF Started, ReaderFields
  <1>7. g[1] = Started
    BY <1>3, <1>5, <1>6 DEF ReadLine
  <1>8. g[2] = ReadSize(Started, <<w, h, f>>)
    BY <1>3, <1>5, <1>6, <1>7 DEF ReadLine
  <1>9. ReadSize(Started, <<w, h, f>>) = [Started EXCEPT !.map = NewMap(w, h, f), !.sized = TRUE]
    <2>1. Len(<<w, h, f>>) = 3 /\ <<w, h, f>>[1] = w /\ <<w, h, f>>[2] = h /\ <<w, h, f>>[3] = f
      OBVIOUS
    <2>2. ~ (\E k \in 1..3 : <<w, h, f>>[k] <= 0) /\ ~ (Len(<<w, h, f>>) < 3)
      BY <2>1 DEF Dims
    <2> QED BY <2>1, <2>2 DEF ReadSize
  <1>10. PICK q : q = [Started EXCEPT !.map = NewMap(w, h, f), !.sized = TRUE]
    OBVIOUS
  <1>11. Holds(q, NewMap(w, h, f), <<>>, NoGlyph, <<>>, <<>>, <<>>)
    <2>1. /\ Started.legend = <<>> /\ Started.sign = NoGlyph /\ Started.spawn = NoCell
          /\ Started.monsters = <<>> /\ Started.spawners = <<>> /\ Started.portals = <<>>
      BY DEF Started
    <2> QED BY <1>6, <1>10, <2>1 DEF Holds, ReaderFields
  <1> QED BY <1>1, <1>2, <1>4, <1>8, <1>9, <1>10, <1>11

LEMMA LegendRead ==
    ASSUME NEW m, NEW l, NEW s, NEW ms, NEW ns, NEW ps, NEW p, Holds(p, m, l, s, ms, ns, ps),
           NEW glyph \in Int, glyph # NoGlyph, NEW pair \in IdPairs, NEW B
    PROVE  LET q == ReadLine(p, LegendLine(glyph, pair), B)
           IN  /\ Holds(q, m, q.legend, s, ms, ns, ps)
               /\ glyph \in DOMAIN q.legend /\ q.legend[glyph] = pair
               /\ \A g \in DOMAIN l \ {glyph} : g \in DOMAIN q.legend /\ q.legend[g] = l[g]
  <1>1. PICK args : args = IF pair[2] = 0 THEN <<pair[1]>> ELSE pair
    OBVIOUS
  <1>2. pair = <<pair[1], pair[2]>> /\ pair[1] \in TileIds /\ pair[2] \in TileIds
    BY DEF IdPairs
  <1>3. LegendLine(glyph, pair).word = "legend" /\ LegendLine(glyph, pair).glyph = glyph
        /\ LegendLine(glyph, pair).args = args
    BY <1>1 DEF LegendLine, Line
  <1>4. ReadLine(p, LegendLine(glyph, pair), B) = ReadLegend(p, glyph, args)
    BY <1>3 DEF ReadLine, Holds
  <1> DEFINE object == IF Len(args) > 1 THEN args[2] ELSE 0
  <1>5. args # <<>> /\ args[1] = pair[1] /\ object = pair[2]
    <2>1. CASE pair[2] = 0
      BY <1>1, <2>1
    <2>2. CASE pair[2] # 0
      <3>1. args = <<pair[1], pair[2]>>
        BY <1>1, <1>2, <2>2
      <3> QED BY <3>1
    <2> QED BY <2>1, <2>2
  <1>6. <<TileIdOf(args[1]), TileIdOf(object)>> = pair
    <2>1. TileIdOf(pair[1]) = pair[1] /\ TileIdOf(pair[2]) = pair[2]
      BY <1>2, TypeFits
    <2> QED BY <1>2, <1>5, <2>1
  <1>7. PICK n : n = [g \in DOMAIN l \cup {glyph} |-> IF g = glyph THEN pair ELSE l[g]]
    OBVIOUS
  <1>8. PICK q : q = [p EXCEPT !.legend = n]
    OBVIOUS
  <1>9. ReadLegend(p, glyph, args) = q
    <2>1. p.legend = l /\ "legend" \in DOMAIN p
      BY DEF Holds, ReaderFields
    <2>2. ReadLegend(p, glyph, args) =
            [p EXCEPT !.legend = [g \in DOMAIN l \cup {glyph} |->
                IF g = glyph THEN <<TileIdOf(args[1]), TileIdOf(object)>> ELSE l[g]]]
      BY <1>5, <2>1 DEF ReadLegend
    <2> HIDE DEF object
    <2> QED BY <1>6, <1>7, <1>8, <2>2
  <1>10. Holds(q, m, n, s, ms, ns, ps) /\ q.legend = n
    BY <1>8 DEF Holds, ReaderFields
  <1>11. /\ glyph \in DOMAIN n /\ n[glyph] = pair
         /\ \A g \in DOMAIN l \ {glyph} : g \in DOMAIN n /\ n[g] = l[g]
    BY <1>7
  <1> QED BY <1>4, <1>9, <1>10, <1>11

Binds(legend, pairs, n) ==
    \A i \in 1..n : Signs(pairs)[i] \in DOMAIN legend /\ legend[Signs(pairs)[i]] = pairs[i]

LEMMA LegendsRead ==
    ASSUME NEW pairs \in Seq(IdPairs), Distinct(pairs), Len(pairs) <= PoolSize + 1,
           NEW m, NEW s, NEW p, Holds(p, m, <<>>, s, <<>>, <<>>, <<>>), NEW B
    PROVE  LET q == Read(p, LegendLines(pairs), B)
           IN  Holds(q, m, q.legend, s, <<>>, <<>>, <<>>) /\ Binds(q.legend, pairs, Len(pairs))
  <1>1. PICK n \in Nat : n = Len(pairs)
    OBVIOUS
  <1>2. PICK lines : lines = LegendLines(pairs)
    OBVIOUS
  <1>3. /\ \A k \in 1..n : Signs(pairs)[k] \in Int /\ Signs(pairs)[k] # NoGlyph
        /\ \A j, k \in 1..n : Signs(pairs)[j] = Signs(pairs)[k] => j = k
        /\ \A k \in 1..n : pairs[k] \in IdPairs /\ SignOf(pairs, pairs[k]) = Signs(pairs)[k]
    BY <1>1, SignsAre, SignsDiffer
  <1>4. Len(lines) = n /\ \A k \in 1..n : lines[k] = LegendLine(Signs(pairs)[k], pairs[k])
    BY <1>1, <1>2, <1>3 DEF LegendLines
  <1>5. PICK f : Reads(f, p, lines, B) /\ Read(p, lines, B) = f[n]
    <2>1. Len(lines) = n
      BY <1>4
    <2> QED BY <2>1, ReadIs
  <1> DEFINE Good == {k \in Nat : k <= n => /\ Holds(f[k], m, f[k].legend, s, <<>>, <<>>, <<>>)
                                            /\ Binds(f[k].legend, pairs, k)}
  <1>6. 0 \in Good
    <2>1. f[0] = p /\ p.legend = <<>>
      BY <1>5 DEF Reads, Holds
    <2>2. Binds(f[0].legend, pairs, 0)
      BY DEF Binds
    <2> QED BY <2>1, <2>2
  <1>7. ASSUME NEW k \in Nat, k \in Good PROVE k + 1 \in Good
    <2>1. SUFFICES ASSUME k + 1 <= n
                   PROVE  /\ Holds(f[k + 1], m, f[k + 1].legend, s, <<>>, <<>>, <<>>)
                          /\ Binds(f[k + 1].legend, pairs, k + 1)
      OBVIOUS
    <2>2. k + 1 \in 1..n /\ k + 1 - 1 = k
      BY <2>1
    <2>3. Holds(f[k], m, f[k].legend, s, <<>>, <<>>, <<>>) /\ Binds(f[k].legend, pairs, k)
      BY <1>7, <2>1
    <2>4. f[k + 1] = ReadLine(f[k], LegendLine(Signs(pairs)[k + 1], pairs[k + 1]), B)
      BY <1>4, <1>5, <2>2 DEF Reads
    <2>5. PICK glyph : glyph = Signs(pairs)[k + 1]
      OBVIOUS
    <2>6. /\ Holds(f[k + 1], m, f[k + 1].legend, s, <<>>, <<>>, <<>>)
          /\ glyph \in DOMAIN f[k + 1].legend /\ f[k + 1].legend[glyph] = pairs[k + 1]
          /\ \A g \in DOMAIN f[k].legend \ {glyph} :
                g \in DOMAIN f[k + 1].legend /\ f[k + 1].legend[g] = f[k].legend[g]
      BY <1>3, <2>2, <2>3, <2>4, <2>5, LegendRead
    <2>7. ASSUME NEW i \in 1..(k + 1)
          PROVE  Signs(pairs)[i] \in DOMAIN f[k + 1].legend
                 /\ f[k + 1].legend[Signs(pairs)[i]] = pairs[i]
      <3>1. CASE i = k + 1
        BY <2>5, <2>6, <3>1
      <3>2. CASE i # k + 1
        <4>1. i \in 1..k /\ i \in 1..n
          BY <2>2, <3>2
        <4>2. Signs(pairs)[i] # glyph
          BY <1>3, <2>2, <2>5, <3>2, <4>1
        <4>3. Signs(pairs)[i] \in DOMAIN f[k].legend /\ f[k].legend[Signs(pairs)[i]] = pairs[i]
          BY <2>3, <4>1 DEF Binds
        <4> QED BY <2>6, <4>2, <4>3
      <3> QED BY <3>1, <3>2
    <2> QED BY <2>6, <2>7 DEF Binds
  <1> HIDE DEF Good
  <1>8. n \in Good
    BY <1>6, <1>7, Induction
  <1> QED BY <1>1, <1>2, <1>5, <1>8 DEF Good

(* The reader knows the glyphs of a document. *)
Knows(legend, sign, doc) ==
    /\ Binds(legend, Pairs(doc.map), Len(Pairs(doc.map)))
    /\ HasSpawn(doc) => /\ sign = SpawnSign /\ SpawnSign \in DOMAIN legend
                        /\ legend[SpawnSign] = PairOf(doc.map, doc.spawn)
    /\ ~HasSpawn(doc) => sign = NoGlyph

LEMMA SpawnRead ==
    ASSUME NEW doc, IsMap(doc.map), Len(Pairs(doc.map)) <= PoolSize + 1,
           NEW m, NEW p, Holds(p, m, p.legend, NoGlyph, <<>>, <<>>, <<>>),
           Binds(p.legend, Pairs(doc.map), Len(Pairs(doc.map))), NEW B
    PROVE  LET q == Read(p, SpawnLines(doc), B)
           IN  Holds(q, m, q.legend, q.sign, <<>>, <<>>, <<>>) /\ Knows(q.legend, q.sign, doc)
  <1>1. CASE ~HasSpawn(doc)
    <2>1. Read(p, SpawnLines(doc), B) = p
      BY <1>1, ReadNothing DEF SpawnLines
    <2>2. p.sign = NoGlyph
      BY DEF Holds
    <2> QED BY <1>1, <2>1, <2>2 DEF Knows
  <1>2. CASE HasSpawn(doc)
    <2>1. PICK pairs : pairs = Pairs(doc.map)
      OBVIOUS
    <2>2. pairs \in Seq(IdPairs) /\ Distinct(pairs) /\ Len(pairs) <= PoolSize + 1
      BY <2>1, PairsAre
    <2>3. \A k \in 1..Len(pairs) : Signs(pairs)[k] # SpawnSign
      BY <2>2, SignsDiffer
    <2>4. PICK pair : pair = PairOf(doc.map, doc.spawn)
      OBVIOUS
    <2>5. pair \in IdPairs
      <3>1. doc.spawn \in Cells(doc.map.width, doc.map.height, doc.map.floors)
        BY <1>2 DEF HasSpawn, InBounds, IsMap
      <3> QED BY <2>4, <3>1, TileOfMap
    <2>6. PICK one : one = LegendLine(SpawnSign, pair)
      OBVIOUS
    <2>7. PICK two : two = Line("spawn", SpawnSign, <<>>, <<Letters>>)
      OBVIOUS
    <2>8. SpawnLines(doc) = <<one, two>>
      BY <1>2, <2>4, <2>6, <2>7 DEF SpawnLines
    <2>9. Len(<<one, two>>) = 2 /\ <<one, two>>[1] = one /\ <<one, two>>[2] = two
      OBVIOUS
    <2>10. PICK g : Reads(g, p, <<one, two>>, B) /\ Read(p, <<one, two>>, B) = g[2]
      BY <2>9, ReadIs
    <2>11. g[0] = p /\ g[1] = ReadLine(g[0], one, B) /\ g[2] = ReadLine(g[1], two, B)
      <3>1. \A k \in 1..2 : g[k] = ReadLine(g[k - 1], <<one, two>>[k], B)
        BY <2>9, <2>10 DEF Reads
      <3> QED BY <2>9, <2>10, <3>1 DEF Reads
    <2>12. SpawnSign \in Int /\ SpawnSign # NoGlyph
      BY DEF SpawnSign, NoGlyph
    <2>13. /\ Holds(g[1], m, g[1].legend, NoGlyph, <<>>, <<>>, <<>>)
           /\ SpawnSign \in DOMAIN g[1].legend /\ g[1].legend[SpawnSign] = pair
           /\ \A c \in DOMAIN p.legend \ {SpawnSign} :
                 c \in DOMAIN g[1].legend /\ g[1].legend[c] = p.legend[c]
      <3>1. g[1] = ReadLine(p, LegendLine(SpawnSign, pair), B)
        BY <2>6, <2>11
      <3> QED BY <2>5, <2>12, <3>1, LegendRead
    <2>14. two.word = "spawn" /\ two.glyph = SpawnSign
      BY <2>7 DEF Line
    <2>15. PICK a : a = g[1]
      OBVIOUS
    <2>16. PICK q : q = g[2]
      OBVIOUS
    <2>17. q = ReadLine(a, two, B) /\ a.ok = TRUE /\ a.rowsLeft = 0
      BY <2>11, <2>13, <2>15, <2>16 DEF Holds
    <2>18. q = ReadSpawn(a, SpawnSign)
      BY <2>14, <2>17 DEF ReadLine
    <2>19. q = [a EXCEPT !.sign = SpawnSign] /\ Holds(a, m, a.legend, NoGlyph, <<>>, <<>>, <<>>)
      BY <2>12, <2>13, <2>15, <2>18 DEF ReadSpawn
    <2>20. /\ Holds(q, m, q.legend, q.sign, <<>>, <<>>, <<>>)
           /\ q.sign = SpawnSign /\ q.legend = a.legend
      BY <2>19 DEF Holds, ReaderFields
    <2>21. Binds(q.legend, pairs, Len(pairs))
      BY <2>1, <2>3, <2>13, <2>15, <2>20 DEF Binds
    <2>22. Knows(q.legend, q.sign, doc)
      BY <1>2, <2>1, <2>4, <2>13, <2>15, <2>20, <2>21 DEF Knows
    <2> QED BY <2>8, <2>10, <2>16, <2>20, <2>22
  <1> QED BY <1>1, <1>2

----------------------------------------------------------------------------
(* The grid. *)

(* A reader who knows the glyphs of a document that has enough of them. *)
Ready(doc, legend, sign) ==
    IsMap(doc.map) /\ Len(Pairs(doc.map)) <= PoolSize + 1 /\ Knows(legend, sign, doc)

LEMMA SignIs ==
    ASSUME NEW doc, NEW legend, NEW sign, Ready(doc, legend, sign),
           NEW c, c \in Cells(doc.map.width, doc.map.height, doc.map.floors),
           NEW sg, sg = SignAt(doc, Pairs(doc.map), c)
    PROVE  /\ sg \in Int
           /\ sg # Blank => sg \in DOMAIN legend /\ legend[sg] = PairOf(doc.map, c)
           /\ sg = Blank => PairOf(doc.map, c) = VoidPair
           /\ sg = sign <=> HasSpawn(doc) /\ c = doc.spawn
           /\ sg = Blank => ~(HasSpawn(doc) /\ c = doc.spawn)
  <1> DEFINE here == HasSpawn(doc) /\ c = doc.spawn
  <1>0. IsMap(doc.map) /\ Len(Pairs(doc.map)) <= PoolSize + 1 /\ Knows(legend, sign, doc)
    BY DEF Ready
  <1>1. PICK pairs : pairs = Pairs(doc.map)
    OBVIOUS
  <1>2. PICK pair : pair = PairOf(doc.map, c)
    OBVIOUS
  <1>3. pairs \in Seq(IdPairs) /\ Distinct(pairs) /\ Listed(pairs, pair) /\ Len(pairs) <= PoolSize + 1
    BY <1>0, <1>1, <1>2, PairsAre
  <1>4. sign = IF HasSpawn(doc) THEN SpawnSign ELSE NoGlyph
    BY <1>0 DEF Knows
  <1>5. CASE here
    <2>1. sg = SpawnSign
      BY <1>5 DEF SignAt
    <2>2. SpawnSign \in Int /\ SpawnSign # Blank
      BY DEF SpawnSign, Blank
    <2>3. SpawnSign \in DOMAIN legend /\ legend[SpawnSign] = PairOf(doc.map, c)
      BY <1>0, <1>5 DEF Knows
    <2> QED BY <1>4, <1>5, <2>1, <2>2, <2>3
  <1>6. CASE ~here /\ pair = VoidPair
    <2>1. sg = Blank
      BY <1>1, <1>2, <1>6 DEF SignAt
    <2>2. Blank \in Int /\ Blank # SpawnSign /\ Blank # NoGlyph
      BY DEF SpawnSign, Blank, NoGlyph
    <2> QED BY <1>2, <1>4, <1>6, <2>1, <2>2
  <1>7. CASE ~here /\ pair # VoidPair
    <2>1. sg = SignOf(pairs, pair)
      BY <1>1, <1>2, <1>7 DEF SignAt
    <2>2. PICK k \in 1..Len(pairs) : pairs[k] = pair
      BY <1>3, <1>7 DEF Listed
    <2>3. sg = Signs(pairs)[k]
      BY <1>3, <2>1, <2>2, SignsAre
    <2>4. sg \in Int /\ sg # Blank /\ sg # SpawnSign /\ sg # NoGlyph
      BY <1>3, <2>2, <2>3, SignsDiffer
    <2>5. sg \in DOMAIN legend /\ legend[sg] = pair
      BY <1>0, <1>1, <2>2, <2>3 DEF Knows, Binds
    <2> QED BY <1>2, <1>4, <1>7, <2>4, <2>5
  <1> QED BY <1>5, <1>6, <1>7

LEMMA RowIs ==
    ASSUME NEW doc, NEW legend, NEW sign, Ready(doc, legend, sign),
           NEW y \in 0..(doc.map.height - 1), NEW z \in 0..(doc.map.floors - 1),
           NEW line, line = RowOf(doc, Pairs(doc.map), y, z)
    PROVE  /\ line \in Lines /\ line.word = "row" /\ line.cells \in Seq(Int)
           /\ \A x \in 0..(doc.map.width - 1) :
                 /\ <<x, y, z>> \in Cells(doc.map.width, doc.map.height, doc.map.floors)
                 /\ (x < Len(line.cells) /\ line.cells[x + 1] # Blank)
                        <=> SignAt(doc, Pairs(doc.map), <<x, y, z>>) # Blank
                 /\ SignAt(doc, Pairs(doc.map), <<x, y, z>>) # Blank
                        => line.cells[x + 1] = SignAt(doc, Pairs(doc.map), <<x, y, z>>)
  <1>1. PICK w \in Nat \ {0} : w = doc.map.width
    BY DEF Ready, IsMap, Dims
  <1> DEFINE at(x) == SignAt(doc, Pairs(doc.map), <<x, y, z>>)
             full == [x \in 1..w |-> at(x - 1)]
  <1>2. \A x \in 0..(w - 1) : <<x, y, z>> \in Cells(doc.map.width, doc.map.height, doc.map.floors)
    BY <1>1 DEF Cells
  <1>3. ASSUME NEW x \in 0..(w - 1) PROVE at(x) \in Int
    <2>1. PICK c : c = <<x, y, z>>
      OBVIOUS
    <2>2. c \in Cells(doc.map.width, doc.map.height, doc.map.floors)
      BY <1>2, <2>1
    <2>3. PICK sg : sg = SignAt(doc, Pairs(doc.map), c)
      OBVIOUS
    <2>4. sg \in Int
      BY <2>2, <2>3, SignIs
    <2> QED BY <2>1, <2>3, <2>4
  <1>4. full \in Seq(Int) /\ Len(full) = w /\ \A x \in 1..w : full[x] = at(x - 1)
    <2>1. \A x \in 1..w : x - 1 \in 0..(w - 1)
      OBVIOUS
    <2> HIDE DEF at
    <2> QED BY <1>3, <2>1
  <1>5. line.cells = Trimmed(full) /\ line = Line("row", NoGlyph, <<>>, Trimmed(full))
    <2>1. line = Line("row", NoGlyph, <<>>, Trimmed(full))
      BY <1>1 DEF RowOf, Row
    <2> QED BY <2>1 DEF Line
  <1> HIDE DEF full, at
  <1>6. /\ line.cells \in Seq(Int) /\ Len(line.cells) \in 0..w
        /\ \A k \in 1..Len(line.cells) : line.cells[k] = full[k]
        /\ \A k \in 1..w : k > Len(line.cells) => full[k] = Blank
    BY <1>4, <1>5, TrimmedIs
  <1>7. ASSUME NEW x \in 0..(w - 1)
        PROVE  /\ (x < Len(line.cells) /\ line.cells[x + 1] # Blank) <=> at(x) # Blank
               /\ at(x) # Blank => line.cells[x + 1] = at(x)
    <2>1. x + 1 \in 1..w /\ x + 1 - 1 = x
      OBVIOUS
    <2>2. full[x + 1] = at(x)
      BY <1>4, <2>1
    <2>3. CASE x < Len(line.cells)
      <3>1. x + 1 \in 1..Len(line.cells)
        BY <1>6, <2>1, <2>3
      <3> QED BY <1>6, <2>2, <2>3, <3>1
    <2>4. CASE ~(x < Len(line.cells))
      <3>1. x + 1 > Len(line.cells)
        BY <1>6, <2>4
      <3> QED BY <1>6, <2>1, <2>2, <2>4, <3>1
    <2> QED BY <2>3, <2>4
  <1>8. line \in Lines /\ line.word = "row"
    <2>1. "row" \in Words /\ NoGlyph \in Int /\ <<>> \in Seq(Int)
      BY DEF Words, NoGlyph
    <2>2. PICK t : t = Trimmed(full)
      OBVIOUS
    <2>3. t \in Seq(Int)
      BY <1>5, <1>6, <2>2
    <2>4. line = Line("row", NoGlyph, <<>>, t)
      BY <1>5, <2>2
    <2>5. line = [word |-> "row", glyph |-> NoGlyph, args |-> <<>>, cells |-> t]
      BY <2>4 DEF Line
    <2>6. line.word = "row"
      BY <2>5
    <2> QED BY <2>1, <2>3, <2>5, <2>6 DEF Lines
  <1> QED BY <1>1, <1>2, <1>6, <1>7, <1>8 DEF at

(* The cells drawn once j rows of floor z are. *)
Past(c, z, j) == c[3] < z \/ (c[3] = z /\ c[2] < j)

Drawing(p, doc, legend, sign, B, z, j) ==
    /\ ReaderFields \subseteq DOMAIN p
    /\ p.ok = TRUE /\ p.sized = TRUE /\ p.rowsLeft = doc.map.height - j /\ p.floor = z
    /\ p.legend = legend /\ p.sign = sign
    /\ p.monsters = doc.monsters /\ p.spawners = doc.spawners /\ p.portals = doc.portals
    /\ IsMap(p.map)
    /\ p.map.width = doc.map.width /\ p.map.height = doc.map.height
    /\ p.map.floors = doc.map.floors
    /\ \A c \in Cells(doc.map.width, doc.map.height, doc.map.floors) :
          p.map.tiles[c] = IF Past(c, z, j)
                           THEN Tile(doc.map.tiles[c].ground, doc.map.tiles[c].object, B)
                           ELSE VoidTile
    /\ p.spawn = IF HasSpawn(doc) /\ Past(doc.spawn, z, j) THEN doc.spawn ELSE NoCell

LEMMA LastOfOne ==
    ASSUME NEW x \in Int
    PROVE  LastOf({x}) = x
  BY DEF LastOf

(* One row read. *)
LEMMA RowRead ==
    ASSUME NEW doc, NEW legend, NEW sign, Ready(doc, legend, sign), Fits(doc.map),
           NEW B, 0 \notin B,
           NEW z \in 0..(doc.map.floors - 1), NEW j \in 0..(doc.map.height - 1),
           NEW p, Drawing(p, doc, legend, sign, B, z, j)
    PROVE  Drawing(ReadLine(p, RowOf(doc, Pairs(doc.map), j, z), B), doc, legend, sign, B, z, j + 1)
  <1>0. IsMap(doc.map)
    BY DEF Ready
  <1>1. PICK line : line = RowOf(doc, Pairs(doc.map), j, z)
    OBVIOUS
  <1>2. PICK cells : cells = line.cells
    OBVIOUS
  <1>3. PICK w, h, f : w = doc.map.width /\ h = doc.map.height /\ f = doc.map.floors
    OBVIOUS
  <1>4. w \in Nat \ {0} /\ h \in Nat \ {0} /\ f \in Nat \ {0}
    BY <1>0, <1>3 DEF IsMap, Dims
  <1> DEFINE at(x) == SignAt(doc, Pairs(doc.map), <<x, j, z>>)
             places == Cells(w, h, f)
  <1>5. cells \in Seq(Int) /\ \A x \in 0..(w - 1) :
              /\ <<x, j, z>> \in places
              /\ (x < Len(cells) /\ cells[x + 1] # Blank) <=> at(x) # Blank
              /\ at(x) # Blank => cells[x + 1] = at(x)
    BY <1>1, <1>2, <1>3, RowIs
  <1>6. ASSUME NEW x \in 0..(w - 1)
        PROVE /\ at(x) # Blank => at(x) \in DOMAIN legend /\ legend[at(x)] = PairOf(doc.map, <<x, j, z>>)
              /\ at(x) = Blank => PairOf(doc.map, <<x, j, z>>) = VoidPair
              /\ at(x) = sign <=> HasSpawn(doc) /\ <<x, j, z>> = doc.spawn
              /\ at(x) = Blank => ~(HasSpawn(doc) /\ <<x, j, z>> = doc.spawn)
    <2>1. PICK c : c = <<x, j, z>>
      OBVIOUS
    <2>2. c \in Cells(doc.map.width, doc.map.height, doc.map.floors)
      BY <1>3, <1>5, <2>1
    <2>3. PICK sg : sg = SignAt(doc, Pairs(doc.map), c)
      OBVIOUS
    <2>4. at(x) = sg
      BY <2>1, <2>3
    <2>5. /\ sg # Blank => sg \in DOMAIN legend /\ legend[sg] = PairOf(doc.map, c)
          /\ sg = Blank => PairOf(doc.map, c) = VoidPair
          /\ sg = sign <=> HasSpawn(doc) /\ c = doc.spawn
          /\ sg = Blank => ~(HasSpawn(doc) /\ c = doc.spawn)
      BY <2>2, <2>3, SignIs
    <2> HIDE DEF at
    <2> QED BY <2>1, <2>4, <2>5
  <1>7. \A x \in 0..(w - 1) : CellOf(x, j, z) = <<x, j, z>>
    <2>1. ASSUME NEW x \in 0..(w - 1) PROVE CellOf(x, j, z) = <<x, j, z>>
      <3>1. PICK c : c = <<x, j, z>>
        OBVIOUS
      <3>2. c \in Cells(doc.map.width, doc.map.height, doc.map.floors)
        BY <1>3, <1>5, <3>1
      <3>3. CellOf(c[1], c[2], c[3]) = c
        BY <1>0, <3>2, SpotFits
      <3> QED BY <3>1, <3>3
    <2> QED BY <2>1
  <1> HIDE DEF at
  <1>8. /\ ReaderFields \subseteq DOMAIN p
        /\ p.ok = TRUE /\ p.rowsLeft = h - j /\ p.floor = z /\ p.legend = legend /\ p.sign = sign
        /\ IsMap(p.map) /\ p.map.width = w /\ p.map.height = h /\ p.map.floors = f
        /\ DOMAIN p.map.tiles = places
    BY <1>3 DEF Drawing, IsMap
  <1>9. p.rowsLeft > 0 /\ h - p.rowsLeft = j /\ p.rowsLeft - 1 = h - (j + 1)
    BY <1>3, <1>4, <1>8
  <1>10. ReadLine(p, line, B) = ReadRow(p, cells, B)
    BY <1>2, <1>8, <1>9 DEF ReadLine
  <1> DEFINE drawn == DrawnIn(p.map, cells)
             onto(c) == {x \in drawn : CellOf(x, j, p.floor) = c}
             pair(c) == p.legend[cells[LastOf(onto(c)) + 1]]
             signs == {x \in drawn : cells[x + 1] = p.sign}
  <1>11. drawn = {x \in 0..(w - 1) : at(x) # Blank}
    BY <1>5, <1>8 DEF DrawnIn
  <1> HIDE DEF drawn
  <1>12. \A x \in drawn : /\ x \in 0..(w - 1) /\ cells[x + 1] = at(x)
                          /\ cells[x + 1] \in DOMAIN p.legend
    BY <1>5, <1>6, <1>8, <1>11
  <1>13. \A c \in places : /\ c = <<c[1], c[2], c[3]>>
                           /\ c[1] \in 0..(w - 1) /\ c[2] \in 0..(h - 1) /\ c[3] \in 0..(f - 1)
    BY DEF Cells
  <1>14. ASSUME NEW c \in places
         PROVE  onto(c) = IF c[2] = j /\ c[3] = z /\ c[1] \in drawn THEN {c[1]} ELSE {}
    <2>1. \A x \in drawn : CellOf(x, j, p.floor) = <<x, j, z>>
      BY <1>7, <1>8, <1>12
    <2>2. c = <<c[1], c[2], c[3]>>
      BY <1>13
    <2>3. \A x \in drawn : <<x, j, z>> = c <=> (x = c[1] /\ c[2] = j /\ c[3] = z)
      BY <2>2
    <2> QED BY <2>1, <2>3
  <1> DEFINE t == [c \in places |-> IF onto(c) # {} THEN Tile(pair(c)[1], pair(c)[2], B)
                                    ELSE p.map.tiles[c]]
             redone(c) == Tile(doc.map.tiles[c].ground, doc.map.tiles[c].object, B)
  <1>15. \A c \in places : p.map.tiles[c] = IF Past(c, z, j) THEN redone(c) ELSE VoidTile
    BY <1>3 DEF Drawing
  <1>16. \A c \in places : /\ doc.map.tiles[c] \in Kinds
                           /\ PairOf(doc.map, c) = <<doc.map.tiles[c].ground, doc.map.tiles[c].object>>
    BY <1>0, <1>3, TileOfMap
  <1>17. ASSUME NEW c \in places
         PROVE  t[c] = IF Past(c, z, j + 1) THEN redone(c) ELSE VoidTile
    <2>0. /\ c = <<c[1], c[2], c[3]>>
          /\ c[1] \in 0..(w - 1) /\ c[2] \in 0..(h - 1) /\ c[3] \in 0..(f - 1)
      BY <1>13
    <2>1. CASE c[2] = j /\ c[3] = z /\ c[1] \in drawn
      <3>1. onto(c) = {c[1]} /\ onto(c) # {}
        BY <1>14, <2>1
      <3>2. LastOf(onto(c)) = c[1]
        <4> HIDE DEF onto
        <4> QED BY <2>0, <3>1, LastOfOne
      <3>3. pair(c) = legend[cells[c[1] + 1]]
        <4> HIDE DEF onto
        <4> QED BY <1>8, <3>2
      <3>4. cells[c[1] + 1] = at(c[1]) /\ at(c[1]) # Blank
        BY <1>11, <1>12, <2>1
      <3>5. legend[at(c[1])] = PairOf(doc.map, <<c[1], j, z>>)
        BY <1>6, <2>0, <3>4
      <3>6. pair(c) = <<doc.map.tiles[c].ground, doc.map.tiles[c].object>>
        <4> HIDE DEF pair, places
        <4> QED BY <1>16, <2>0, <2>1, <3>3, <3>4, <3>5
      <3>7. t[c] = Tile(pair(c)[1], pair(c)[2], B)
        <4> HIDE DEF pair, onto, places
        <4> QED BY <3>1
      <3>8. t[c] = redone(c)
        <4> HIDE DEF pair, t
        <4> QED BY <3>6, <3>7
      <3>9. Past(c, z, j + 1)
        <4>1. j < j + 1
          OBVIOUS
        <4> QED BY <2>1, <4>1 DEF Past
      <3> HIDE DEF t, redone
      <3> QED BY <3>8, <3>9
    <2>2. CASE ~(c[2] = j /\ c[3] = z /\ c[1] \in drawn)
      <3>1. onto(c) = {}
        BY <1>14, <2>2
      <3>2. t[c] = p.map.tiles[c]
        <4> HIDE DEF onto, pair, places
        <4> QED BY <3>1
      <3>3. CASE c[2] = j /\ c[3] = z
        <4>1. c[1] \notin drawn
          BY <2>2, <3>3
        <4>2. at(c[1]) = Blank
          BY <1>11, <2>0, <4>1
        <4>3. PairOf(doc.map, c) = VoidPair
          BY <1>6, <2>0, <3>3, <4>2
        <4>4. doc.map.tiles[c].ground = 0 /\ doc.map.tiles[c].object = 0
          BY <1>16, <4>3 DEF VoidPair
        <4>5. redone(c) = VoidTile
          BY <4>4, VoidIsDrawn
        <4>6. ~ Past(c, z, j)
          BY <2>0, <3>3 DEF Past
        <4> HIDE DEF t, redone
        <4> QED BY <1>15, <3>2, <4>5, <4>6
      <3>4. CASE ~(c[2] = j /\ c[3] = z)
        <4>1. Past(c, z, j + 1) <=> Past(c, z, j)
          BY <2>0, <3>4 DEF Past
        <4> HIDE DEF t, redone
        <4> QED BY <1>15, <3>2, <4>1
      <3> QED BY <3>3, <3>4
    <2> QED BY <2>1, <2>2
  <1>18. t \in [places -> Kinds]
    <2>1. \A c \in places : redone(c) \in Kinds
      <3>1. \A c \in places : doc.map.tiles[c].ground \in TileIds /\ doc.map.tiles[c].object \in TileIds
        <4> HIDE DEF places
        <4> QED BY <1>16 DEF Kinds
      <3> HIDE DEF places
      <3> QED BY <3>1, TileIsKind
    <2>2. VoidTile \in Kinds
      BY DEF VoidTile, Kinds, TileIds
    <2>3. \A c \in places : t[c] \in Kinds
      <3> HIDE DEF t, redone, places
      <3> QED BY <1>17, <2>1, <2>2
    <2>4. t = [c \in places |-> t[c]]
      <3> HIDE DEF onto, pair, places
      <3> QED OBVIOUS
    <2> HIDE DEF t, places
    <2> QED BY <2>3, <2>4
  <1>19. PICK m : m = [p.map EXCEPT !.tiles = t]
    OBVIOUS
  <1>20. RowDrawn(p, j, cells, B) = m
    BY <1>8, <1>19 DEF RowDrawn, IsMap, drawn
  <1> HIDE DEF t
  <1>21. IsMap(m) /\ m.tiles = t /\ m.width = w /\ m.height = h /\ m.floors = f
    BY <1>8, <1>18, <1>19, MapWith
  <1> DEFINE found == IF signs = {} THEN p.spawn ELSE CellOf(LastOf(signs), j, p.floor)
  <1>22. PICK s : s = found
    OBVIOUS
  <1>23. PICK q : q = [p EXCEPT !.map = m, !.spawn = s, !.rowsLeft = h - (j + 1)]
    OBVIOUS
  <1>24. ReadRow(p, cells, B) = q
    <2>1. ~ (\E x \in drawn : cells[x + 1] \notin DOMAIN p.legend)
      BY <1>12
    <2>2. p.map.height - p.rowsLeft = j
      BY <1>8, <1>9
    <2>3. ReadRow(p, cells, B) = [p EXCEPT !.map = RowDrawn(p, j, cells, B), !.spawn = found,
                                            !.rowsLeft = p.rowsLeft - 1]
      BY <1>8, <2>1, <2>2 DEF ReadRow, drawn, ReaderFields
    <2> HIDE DEF found
    <2> QED BY <1>9, <1>20, <1>22, <1>23, <2>3
  <1>25. s = IF HasSpawn(doc) /\ Past(doc.spawn, z, j + 1) THEN doc.spawn ELSE NoCell
    <2>0. p.spawn = IF HasSpawn(doc) /\ Past(doc.spawn, z, j) THEN doc.spawn ELSE NoCell
      BY DEF Drawing
    <2>1. signs = {x \in 0..(w - 1) : HasSpawn(doc) /\ <<x, j, z>> = doc.spawn}
      <3>1. \A x \in 0..(w - 1) : (x \in drawn /\ cells[x + 1] = p.sign)
                                     <=> (HasSpawn(doc) /\ <<x, j, z>> = doc.spawn)
        BY <1>6, <1>8, <1>11, <1>12
      <3>2. \A x \in drawn : x \in 0..(w - 1)
        BY <1>12
      <3> QED BY <3>1, <3>2
    <2> HIDE DEF signs
    <2>2. HasSpawn(doc) => doc.spawn \in places
      BY <1>0, <1>3 DEF HasSpawn, InBounds, IsMap
    <2>3. CASE HasSpawn(doc) /\ doc.spawn[2] = j /\ doc.spawn[3] = z
      <3>1. PICK x : x = doc.spawn[1]
        OBVIOUS
      <3>2. x \in 0..(w - 1) /\ doc.spawn = <<x, j, z>>
        BY <1>13, <2>2, <2>3, <3>1
      <3>3. signs = {x}
        <4>1. \A o \in 0..(w - 1) : <<o, j, z>> = doc.spawn <=> o = x
          BY <3>2
        <4> QED BY <2>1, <2>3, <3>2, <4>1
      <3>4. LastOf(signs) = x
        BY <3>2, <3>3, LastOfOne
      <3>5. s = doc.spawn
        <4>1. signs # {}
          BY <3>3
        <4> QED BY <1>7, <1>8, <1>22, <3>2, <3>4, <4>1
      <3>6. Past(doc.spawn, z, j + 1)
        <4>1. j < j + 1
          OBVIOUS
        <4> QED BY <2>3, <4>1 DEF Past
      <3> QED BY <2>3, <3>5, <3>6
    <2>4. CASE HasSpawn(doc) /\ ~(doc.spawn[2] = j /\ doc.spawn[3] = z)
      <3>1. doc.spawn = <<doc.spawn[1], doc.spawn[2], doc.spawn[3]>>
            /\ doc.spawn[2] \in Int /\ doc.spawn[3] \in Int
        <4>1. /\ doc.spawn = <<doc.spawn[1], doc.spawn[2], doc.spawn[3]>>
              /\ doc.spawn[2] \in 0..(h - 1) /\ doc.spawn[3] \in 0..(f - 1)
          BY <1>13, <2>2, <2>4
        <4> QED BY <4>1
      <3>2. signs = {}
        <4>1. \A x \in 0..(w - 1) : <<x, j, z>> # doc.spawn
          BY <2>4, <3>1
        <4> QED BY <2>1, <4>1
      <3>3. s = p.spawn
        BY <1>22, <3>2
      <3>4. Past(doc.spawn, z, j + 1) <=> Past(doc.spawn, z, j)
        BY <2>4, <3>1 DEF Past
      <3> QED BY <2>0, <3>3, <3>4
    <2>5. CASE ~HasSpawn(doc)
      <3>1. signs = {}
        BY <2>1, <2>5
      <3> QED BY <1>22, <2>0, <2>5, <3>1
    <2> QED BY <2>3, <2>4, <2>5
  <1>26. Drawing(q, doc, legend, sign, B, z, j + 1)
    <2>1. /\ ReaderFields \subseteq DOMAIN q /\ q.ok = p.ok /\ q.sized = p.sized
          /\ q.rowsLeft = h - (j + 1) /\ q.floor = p.floor /\ q.legend = p.legend
          /\ q.sign = p.sign /\ q.monsters = p.monsters /\ q.spawners = p.spawners
          /\ q.portals = p.portals /\ q.map = m /\ q.spawn = s
      BY <1>8, <1>23 DEF ReaderFields
    <2>2. /\ p.ok = TRUE /\ p.sized = TRUE /\ p.floor = z /\ p.legend = legend /\ p.sign = sign
          /\ p.monsters = doc.monsters /\ p.spawners = doc.spawners /\ p.portals = doc.portals
      BY DEF Drawing
    <2>3. \A c \in Cells(doc.map.width, doc.map.height, doc.map.floors) :
              q.map.tiles[c] = IF Past(c, z, j + 1)
                               THEN Tile(doc.map.tiles[c].ground, doc.map.tiles[c].object, B)
                               ELSE VoidTile
      BY <1>3, <1>17, <1>21, <2>1
    <2> QED BY <1>3, <1>21, <1>25, <2>1, <2>2, <2>3 DEF Drawing
  <1> QED BY <1>1, <1>10, <1>24, <1>26

----------------------------------------------------------------------------
(* Floor after floor. *)

(* Before the line that names floor z. *)
Between(p, doc, legend, sign, B, z) ==
    /\ ReaderFields \subseteq DOMAIN p
    /\ p.ok = TRUE /\ p.sized = TRUE /\ p.rowsLeft = 0
    /\ p.legend = legend /\ p.sign = sign
    /\ p.monsters = doc.monsters /\ p.spawners = doc.spawners /\ p.portals = doc.portals
    /\ IsMap(p.map)
    /\ p.map.width = doc.map.width /\ p.map.height = doc.map.height
    /\ p.map.floors = doc.map.floors
    /\ \A c \in Cells(doc.map.width, doc.map.height, doc.map.floors) :
          p.map.tiles[c] = IF Past(c, z, 0)
                           THEN Tile(doc.map.tiles[c].ground, doc.map.tiles[c].object, B)
                           ELSE VoidTile
    /\ p.spawn = IF HasSpawn(doc) /\ Past(doc.spawn, z, 0) THEN doc.spawn ELSE NoCell

(* Where the cells of a map lie. *)
LEMMA CellLies ==
    ASSUME NEW m, IsMap(m), NEW c \in Cells(m.width, m.height, m.floors)
    PROVE  /\ c[1] \in 0..(m.width - 1) /\ c[2] \in 0..(m.height - 1) /\ c[3] \in 0..(m.floors - 1)
           /\ c = <<c[1], c[2], c[3]>>
           /\ m.width \in Nat \ {0} /\ m.height \in Nat \ {0} /\ m.floors \in Nat \ {0}
  <1>1. m.width \in Nat \ {0} /\ m.height \in Nat \ {0} /\ m.floors \in Nat \ {0}
    BY DEF IsMap, Dims
  <1> QED BY <1>1 DEF Cells

LEMMA SpawnLies ==
    ASSUME NEW doc, IsMap(doc.map), HasSpawn(doc)
    PROVE  doc.spawn \in Cells(doc.map.width, doc.map.height, doc.map.floors)
  BY DEF HasSpawn, InBounds, IsMap

LEMMA FloorRead ==
    ASSUME NEW doc, IsMap(doc.map), NEW legend, NEW sign, NEW B,
           NEW z \in 0..(doc.map.floors - 1), NEW p, Between(p, doc, legend, sign, B, z)
    PROVE  Drawing(ReadLine(p, Directive("floor", <<z>>), B), doc, legend, sign, B, z, 0)
  <1>1. PICK line : line = Directive("floor", <<z>>)
    OBVIOUS
  <1>2. line.word = "floor" /\ line.args = <<z>>
    BY <1>1 DEF Directive, Line
  <1>3. /\ ReaderFields \subseteq DOMAIN p /\ p.ok = TRUE /\ p.sized = TRUE /\ p.rowsLeft = 0
        /\ p.map.floors = doc.map.floors /\ p.map.height = doc.map.height
    BY DEF Between
  <1>4. ReadLine(p, line, B) = ReadFloor(p, <<z>>)
    BY <1>2, <1>3 DEF ReadLine
  <1>5. PICK q : q = [p EXCEPT !.floor = z, !.rowsLeft = doc.map.height]
    OBVIOUS
  <1>6. ReadFloor(p, <<z>>) = q
    BY <1>3, <1>5 DEF ReadFloor
  <1>7. doc.map.height \in Int /\ doc.map.height - 0 = doc.map.height
    BY DEF IsMap, Dims
  <1>8. /\ ReaderFields \subseteq DOMAIN q /\ q.ok = p.ok /\ q.sized = p.sized
        /\ q.rowsLeft = doc.map.height - 0 /\ q.floor = z /\ q.legend = p.legend
        /\ q.sign = p.sign /\ q.monsters = p.monsters /\ q.spawners = p.spawners
        /\ q.portals = p.portals /\ q.map = p.map /\ q.spawn = p.spawn
    BY <1>3, <1>5, <1>7 DEF ReaderFields
  <1>9. Drawing(q, doc, legend, sign, B, z, 0)
    BY <1>8 DEF Drawing, Between
  <1> QED BY <1>1, <1>4, <1>6, <1>9

LEMMA FloorDone ==
    ASSUME NEW doc, IsMap(doc.map), NEW legend, NEW sign, NEW B,
           NEW z \in 0..(doc.map.floors - 1), NEW p,
           Drawing(p, doc, legend, sign, B, z, doc.map.height)
    PROVE  Between(p, doc, legend, sign, B, z + 1)
  <1>1. \A c \in Cells(doc.map.width, doc.map.height, doc.map.floors) :
            Past(c, z, doc.map.height) <=> Past(c, z + 1, 0)
    <2>1. ASSUME NEW c \in Cells(doc.map.width, doc.map.height, doc.map.floors)
          PROVE  Past(c, z, doc.map.height) <=> Past(c, z + 1, 0)
      <3>1. c[2] \in Nat /\ c[2] < doc.map.height /\ c[3] \in Nat /\ z \in Nat
        BY CellLies
      <3> QED BY <3>1 DEF Past
    <2> QED BY <2>1
  <1>2. HasSpawn(doc) => (Past(doc.spawn, z, doc.map.height) <=> Past(doc.spawn, z + 1, 0))
    BY <1>1, SpawnLies
  <1>3. p.rowsLeft = 0
    <2>1. doc.map.height \in Int /\ doc.map.height - doc.map.height = 0
      BY DEF IsMap, Dims
    <2> QED BY <2>1 DEF Drawing
  <1>4. p.spawn = IF HasSpawn(doc) /\ Past(doc.spawn, z + 1, 0) THEN doc.spawn ELSE NoCell
    BY <1>2 DEF Drawing
  <1>5. \A c \in Cells(doc.map.width, doc.map.height, doc.map.floors) :
          p.map.tiles[c] = IF Past(c, z + 1, 0)
                           THEN Tile(doc.map.tiles[c].ground, doc.map.tiles[c].object, B)
                           ELSE VoidTile
    BY <1>1 DEF Drawing
  <1>6. /\ ReaderFields \subseteq DOMAIN p
        /\ p.ok = TRUE /\ p.sized = TRUE
        /\ p.legend = legend /\ p.sign = sign
        /\ p.monsters = doc.monsters /\ p.spawners = doc.spawners /\ p.portals = doc.portals
        /\ IsMap(p.map)
        /\ p.map.width = doc.map.width /\ p.map.height = doc.map.height
        /\ p.map.floors = doc.map.floors
    BY DEF Drawing
  <1> QED BY <1>3, <1>4, <1>5, <1>6 DEF Between

LEMMA GridStarts ==
    ASSUME NEW doc, IsMap(doc.map), NEW legend, NEW sign, NEW B, NEW p,
           Holds(p, NewMap(doc.map.width, doc.map.height, doc.map.floors), legend, sign,
                 doc.monsters, doc.spawners, doc.portals)
    PROVE  Between(p, doc, legend, sign, B, 0)
  <1>1. PICK m : m = NewMap(doc.map.width, doc.map.height, doc.map.floors)
    OBVIOUS
  <1>2. /\ IsMap(m) /\ m.width = doc.map.width /\ m.height = doc.map.height
        /\ m.floors = doc.map.floors
        /\ m.tiles = [c \in Cells(doc.map.width, doc.map.height, doc.map.floors) |-> VoidTile]
    <2>1. doc.map.width \in Dims /\ doc.map.height \in Dims /\ doc.map.floors \in Dims
      BY DEF IsMap
    <2> QED BY <1>1, <2>1, NewMapIs
  <1>3. \A c \in Cells(doc.map.width, doc.map.height, doc.map.floors) : ~ Past(c, 0, 0)
    <2>1. ASSUME NEW c \in Cells(doc.map.width, doc.map.height, doc.map.floors)
          PROVE  ~ Past(c, 0, 0)
      <3>1. c[2] \in Nat /\ c[3] \in Nat
        BY CellLies
      <3> QED BY <3>1 DEF Past
    <2> QED BY <2>1
  <1>4. HasSpawn(doc) => ~ Past(doc.spawn, 0, 0)
    BY <1>3, SpawnLies
  <1>5. Holds(p, m, legend, sign, doc.monsters, doc.spawners, doc.portals)
    BY <1>1
  <1> QED BY <1>2, <1>3, <1>4, <1>5 DEF Holds, Between

LEMMA FloorLineIs ==
    ASSUME NEW doc, IsMap(doc.map), NEW pairs
    PROVE  /\ Len(FloorLines(doc, pairs)) = doc.map.floors * (doc.map.height + 1)
           /\ \A z \in 0..(doc.map.floors - 1), y \in 0..doc.map.height :
                 /\ z * (doc.map.height + 1) + y + 1 \in 1..(doc.map.floors * (doc.map.height + 1))
                 /\ FloorLines(doc, pairs)[z * (doc.map.height + 1) + y + 1] =
                       IF y = 0 THEN Directive("floor", <<z>>) ELSE RowOf(doc, pairs, y - 1, z)
  <1>1. PICK f, b : f = doc.map.floors /\ b = doc.map.height + 1
    OBVIOUS
  <1>2. f \in Nat /\ b \in Nat \ {0} /\ doc.map.height \in Nat /\ doc.map.height = b - 1
    BY <1>1 DEF IsMap, Dims
  <1>3. PICK n : n = f * b
    OBVIOUS
  <1>4. n \in Nat
    BY <1>2, <1>3
  <1> DEFINE what(k) == IF ((k - 1) % b) = 0 THEN Directive("floor", <<(k - 1) \div b>>)
                        ELSE RowOf(doc, pairs, ((k - 1) % b) - 1, (k - 1) \div b)
  <1>5. FloorLines(doc, pairs) = [k \in 1..n |-> what(k)]
    BY <1>1, <1>3 DEF FloorLines
  <1>6. Len(FloorLines(doc, pairs)) = n
    <2> HIDE DEF what
    <2> QED BY <1>4, <1>5
  <1>7. ASSUME NEW z \in 0..(f - 1), NEW y \in 0..(b - 1)
        PROVE  /\ z * b + y + 1 \in 1..n
               /\ FloorLines(doc, pairs)[z * b + y + 1] =
                     IF y = 0 THEN Directive("floor", <<z>>) ELSE RowOf(doc, pairs, y - 1, z)
    <2>1. z * b + y \in Nat /\ z \in Nat /\ z + 1 <= f
      BY <1>2
    <2>2. z * b + y + 1 <= n
      <3>1. (z + 1) * b <= f * b
        BY <1>2, <2>1, TimesKeepsOrder
      <3>2. (z + 1) * b = z * b + b
        BY <1>2, <2>1
      <3> QED BY <1>2, <1>3, <2>1, <3>1, <3>2
    <2>3. PICK k : k = z * b + y
      OBVIOUS
    <2>4. k + 1 \in 1..n /\ k + 1 - 1 = k
      BY <1>4, <2>1, <2>2, <2>3
    <2>5. k \div b = z /\ (k % b) = y
      BY <1>2, <2>1, <2>3, Quotients
    <2>6. FloorLines(doc, pairs)[k + 1] = what(k + 1)
      <3> HIDE DEF what
      <3> QED BY <1>5, <2>4
    <2>7. what(k + 1) = IF (k % b) = 0 THEN Directive("floor", <<k \div b>>)
                        ELSE RowOf(doc, pairs, (k % b) - 1, k \div b)
      <3>1. PICK i : i = k + 1
        OBVIOUS
      <3>2. i - 1 = k
        <4> HIDE DEF what
        <4>1. k \in Int
          BY <2>1, <2>3
        <4> QED BY <3>1, <4>1
      <3>3. what(i) = IF (k % b) = 0 THEN Directive("floor", <<k \div b>>)
                      ELSE RowOf(doc, pairs, (k % b) - 1, k \div b)
        BY <3>2, Zenon
      <3> HIDE DEF what
      <3> QED BY <3>1, <3>3
    <2>8. what(k + 1) = IF y = 0 THEN Directive("floor", <<z>>) ELSE RowOf(doc, pairs, y - 1, z)
      <3> HIDE DEF what
      <3> QED BY <2>5, <2>7
    <2> HIDE DEF what
    <2> QED BY <2>3, <2>4, <2>6, <2>8
  <1> QED BY <1>1, <1>2, <1>3, <1>6, <1>7

(* Where a reader of the grid is after k lines. *)
OnWay(p, doc, legend, sign, B, k) ==
    \E z \in 0..doc.map.floors, j \in 0..doc.map.height :
        /\ k = z * (doc.map.height + 1) + j
        /\ j = 0 => Between(p, doc, legend, sign, B, z)
        /\ j # 0 => z < doc.map.floors /\ Drawing(p, doc, legend, sign, B, z, j - 1)

LEMMA OnWayGoes ==
    ASSUME NEW doc, NEW legend, NEW sign, Ready(doc, legend, sign), Fits(doc.map),
           NEW B, 0 \notin B, NEW k \in Nat, k < doc.map.floors * (doc.map.height + 1),
           NEW p, OnWay(p, doc, legend, sign, B, k),
           NEW q, q = ReadLine(p, FloorLines(doc, Pairs(doc.map))[k + 1], B)
    PROVE  OnWay(q, doc, legend, sign, B, k + 1)
  <1>0. IsMap(doc.map)
    BY DEF Ready
  <1>1. PICK f, h, b : f = doc.map.floors /\ h = doc.map.height /\ b = doc.map.height + 1
    OBVIOUS
  <1>2. f \in Nat /\ h \in Nat /\ b = h + 1 /\ b \in Nat /\ h # 0
    BY <1>0, <1>1 DEF IsMap, Dims
  <1>3. PICK z \in 0..f, j \in 0..h :
            /\ k = z * b + j
            /\ j = 0 => Between(p, doc, legend, sign, B, z)
            /\ j # 0 => z < f /\ Drawing(p, doc, legend, sign, B, z, j - 1)
    BY <1>1 DEF OnWay
  <1>4. z < f
    <2>1. CASE z >= f
      <3>1. f * b <= z * b
        BY <1>2, <2>1, TimesKeepsOrder
      <3>2. k < f * b
        BY <1>1
      <3> QED BY <1>2, <1>3, <3>1, <3>2
    <2> QED BY <1>2, <2>1
  <1>5. z \in 0..(f - 1) /\ z + 1 \in 0..f
    BY <1>2, <1>4
  <1>6. PICK line : line = FloorLines(doc, Pairs(doc.map))[k + 1]
    OBVIOUS
  <1>7. line = IF j = 0 THEN Directive("floor", <<z>>) ELSE RowOf(doc, Pairs(doc.map), j - 1, z)
    <2>1. FloorLines(doc, Pairs(doc.map))[z * b + j + 1] =
             IF j = 0 THEN Directive("floor", <<z>>) ELSE RowOf(doc, Pairs(doc.map), j - 1, z)
      BY <1>0, <1>1, <1>5, FloorLineIs
    <2> QED BY <1>3, <1>6, <2>1
  <1>8. Drawing(q, doc, legend, sign, B, z, j)
    <2>1. CASE j = 0
      BY <1>0, <1>1, <1>3, <1>5, <1>6, <1>7, <2>1, FloorRead
    <2>2. CASE j # 0
      <3>1. j - 1 \in 0..(h - 1) /\ j - 1 + 1 = j
        BY <1>2, <2>2
      <3>2. Drawing(p, doc, legend, sign, B, z, j - 1)
        BY <1>3, <2>2
      <3>3. PICK i : i = j - 1
        OBVIOUS
      <3>4. q = ReadLine(p, RowOf(doc, Pairs(doc.map), i, z), B)
        BY <1>6, <1>7, <2>2, <3>3
      <3>5. Drawing(q, doc, legend, sign, B, z, i + 1)
        BY <1>1, <1>5, <3>1, <3>2, <3>3, <3>4, RowRead
      <3> QED BY <3>1, <3>3, <3>5
    <2> QED BY <2>1, <2>2
  <1>9. CASE j < h
    <2>1. j + 1 \in 0..h /\ j + 1 # 0 /\ j + 1 - 1 = j
      BY <1>2, <1>9
    <2>2. k + 1 = z * b + (j + 1)
      BY <1>2, <1>3
    <2>3. PICK i : i = j + 1
      OBVIOUS
    <2>4. /\ i \in 0..doc.map.height /\ k + 1 = z * (doc.map.height + 1) + i /\ i # 0
          /\ Drawing(q, doc, legend, sign, B, z, i - 1)
      BY <1>1, <1>8, <2>1, <2>2, <2>3
    <2> QED BY <1>1, <1>4, <2>4 DEF OnWay
  <1>10. CASE j = h
    <2>1. Between(q, doc, legend, sign, B, z + 1)
      BY <1>0, <1>1, <1>5, <1>8, <1>10, FloorDone
    <2>2. k + 1 = (z + 1) * b + 0
      BY <1>2, <1>3, <1>10
    <2>3. PICK i : i = z + 1
      OBVIOUS
    <2>4. /\ i \in 0..doc.map.floors /\ 0 \in 0..doc.map.height
          /\ k + 1 = i * (doc.map.height + 1) + 0
          /\ Between(q, doc, legend, sign, B, i)
      BY <1>1, <1>2, <1>5, <2>1, <2>2, <2>3
    <2> QED BY <2>4 DEF OnWay
  <1> QED BY <1>2, <1>9, <1>10

LEMMA FloorsRead ==
    ASSUME NEW doc, NEW legend, NEW sign, Ready(doc, legend, sign), Fits(doc.map),
           NEW B, 0 \notin B, NEW p, Between(p, doc, legend, sign, B, 0)
    PROVE  Between(Read(p, FloorLines(doc, Pairs(doc.map)), B), doc, legend, sign, B, doc.map.floors)
  <1>0. IsMap(doc.map)
    BY DEF Ready
  <1>1. PICK f, h, b : f = doc.map.floors /\ h = doc.map.height /\ b = doc.map.height + 1
    OBVIOUS
  <1>2. f \in Nat /\ h \in Nat /\ b = h + 1 /\ b \in Nat \ {0}
    BY <1>0, <1>1 DEF IsMap, Dims
  <1>3. PICK n : n = f * b
    OBVIOUS
  <1>4. n \in Nat
    BY <1>2, <1>3
  <1>5. PICK lines : lines = FloorLines(doc, Pairs(doc.map))
    OBVIOUS
  <1>6. Len(lines) = n
    BY <1>0, <1>1, <1>3, <1>5, FloorLineIs
  <1>7. PICK g : Reads(g, p, lines, B) /\ Read(p, lines, B) = g[n]
    BY <1>4, <1>6, ReadIs
  <1> DEFINE Good == {k \in Nat : k <= n => OnWay(g[k], doc, legend, sign, B, k)}
  <1>8. 0 \in Good
    <2>1. g[0] = p
      BY <1>7 DEF Reads
    <2>2. 0 \in 0..doc.map.floors /\ 0 \in 0..doc.map.height /\ 0 = 0 * (doc.map.height + 1) + 0
      BY <1>1, <1>2
    <2>3. OnWay(p, doc, legend, sign, B, 0)
      BY <2>2 DEF OnWay
    <2> QED BY <2>1, <2>3
  <1>9. ASSUME NEW k \in Nat, k \in Good PROVE k + 1 \in Good
    <2>1. SUFFICES ASSUME k + 1 <= n PROVE OnWay(g[k + 1], doc, legend, sign, B, k + 1)
      OBVIOUS
    <2>2. k + 1 \in 1..Len(lines) /\ k + 1 - 1 = k /\ k < n /\ k <= n
      BY <1>4, <1>6, <2>1
    <2>3. OnWay(g[k], doc, legend, sign, B, k)
      BY <1>9, <2>2
    <2>4. g[k + 1] = ReadLine(g[k], lines[k + 1], B)
      BY <1>7, <2>2 DEF Reads
    <2>5. PICK s : s = g[k]
      OBVIOUS
    <2>6. PICK q : q = g[k + 1]
      OBVIOUS
    <2>7. q = ReadLine(s, FloorLines(doc, Pairs(doc.map))[k + 1], B)
      BY <1>5, <2>4, <2>5, <2>6
    <2>8. OnWay(s, doc, legend, sign, B, k)
      BY <2>3, <2>5
    <2>9. k < doc.map.floors * (doc.map.height + 1)
      BY <1>1, <1>3, <2>2
    <2>10. OnWay(q, doc, legend, sign, B, k + 1)
      BY <2>7, <2>8, <2>9, OnWayGoes
    <2> QED BY <2>6, <2>10
  <1> HIDE DEF Good
  <1>10. n \in Good
    BY <1>4, <1>8, <1>9, Induction
  <1>11. OnWay(g[n], doc, legend, sign, B, n)
    BY <1>4, <1>10 DEF Good
  <1>12. PICK z \in 0..f, j \in 0..h :
            n = z * b + j /\ (j = 0 => Between(g[n], doc, legend, sign, B, z))
    BY <1>1, <1>11 DEF OnWay
  <1>13. z = f /\ j = 0
    <2>1. j \in 0..(b - 1) /\ 0 \in 0..(b - 1) /\ z \in Nat
      BY <1>2
    <2>2. (z * b + j) \div b = z /\ ((z * b + j) % b) = j
      BY <1>2, <2>1, Quotients
    <2>3. (f * b + 0) \div b = f /\ ((f * b + 0) % b) = 0
      BY <1>2, <2>1, Quotients
    <2>4. f * b + 0 = z * b + j
      BY <1>2, <1>3, <1>4, <1>12
    <2> QED BY <2>2, <2>3, <2>4
  <1> QED BY <1>1, <1>5, <1>7, <1>12, <1>13

----------------------------------------------------------------------------
(* What is written is made of lines. *)

LEMMA TypeIsInt ==
    ASSUME NEW t \in TileIds
    PROVE  t \in Int
  BY DEF TileIds

LEMMA SomeSign ==
    ASSUME NEW m, IsMap(m), NEW c \in Cells(m.width, m.height, m.floors), PairOf(m, c) # VoidPair
    PROVE  SignOf(Pairs(m), PairOf(m, c)) \in Int
  <1>1. PICK pairs : pairs = Pairs(m)
    OBVIOUS
  <1>2. pairs \in Seq(IdPairs) /\ Distinct(pairs) /\ Listed(pairs, PairOf(m, c))
    BY <1>1, PairsAre
  <1>3. PICK k \in 1..Len(pairs) : pairs[k] = PairOf(m, c)
    BY <1>2 DEF Listed
  <1>4. SignOf(pairs, pairs[k]) = Signs(pairs)[k]
    BY <1>2, SignsAre
  <1>5. Signs(pairs)[k] \in Int
    BY <1>2 DEF Signs, Overflow
  <1> QED BY <1>1, <1>3, <1>4, <1>5

LEMMA RowIsLine ==
    ASSUME NEW doc, IsMap(doc.map),
           NEW y \in 0..(doc.map.height - 1), NEW z \in 0..(doc.map.floors - 1)
    PROVE  RowOf(doc, Pairs(doc.map), y, z) \in Lines
  <1>1. PICK w \in Nat \ {0} : w = doc.map.width
    BY DEF IsMap, Dims
  <1> DEFINE at(x) == SignAt(doc, Pairs(doc.map), <<x, y, z>>)
             full == [x \in 1..w |-> at(x - 1)]
  <1>2. ASSUME NEW x \in 0..(w - 1) PROVE at(x) \in Int
    <2>1. PICK c : c = <<x, y, z>>
      OBVIOUS
    <2>2. c \in Cells(doc.map.width, doc.map.height, doc.map.floors)
      BY <1>1, <2>1 DEF Cells
    <2>3. SpawnSign \in Int /\ Blank \in Int
      BY DEF SpawnSign, Blank
    <2>4. SignAt(doc, Pairs(doc.map), c) \in Int
      <3>1. PICK m : m = doc.map
        OBVIOUS
      <3>2. PairOf(m, c) # VoidPair => SignOf(Pairs(m), PairOf(m, c)) \in Int
        BY <2>2, <3>1, SomeSign
      <3>3. SignAt(doc, Pairs(m), c) \in {SpawnSign, Blank}
            \/ (PairOf(m, c) # VoidPair /\ SignAt(doc, Pairs(m), c) = SignOf(Pairs(m), PairOf(m, c)))
        BY <3>1 DEF SignAt
      <3> QED BY <2>3, <3>1, <3>2, <3>3
    <2> QED BY <2>1, <2>4
  <1>3. full \in Seq(Int)
    <2>1. \A x \in 1..w : x - 1 \in 0..(w - 1)
      OBVIOUS
    <2> HIDE DEF at
    <2> QED BY <1>2, <2>1
  <1>4. PICK t : t = Trimmed(full)
    OBVIOUS
  <1>5. t \in Seq(Int)
    <2> HIDE DEF full
    <2> QED BY <1>3, <1>4, TrimmedIs
  <1>6. RowOf(doc, Pairs(doc.map), y, z) = Line("row", NoGlyph, <<>>, t)
    BY <1>1, <1>4 DEF RowOf, Row
  <1>7. "row" \in Words /\ NoGlyph \in Int /\ <<>> \in Seq(Int)
    BY DEF Words, NoGlyph
  <1>8. Line("row", NoGlyph, <<>>, t) \in Lines
    BY <1>5, <1>7, DirectiveIs
  <1> QED BY <1>6, <1>8

LEMMA SaysIsLine ==
    ASSUME NEW word \in Words, NEW args \in Seq(Int)
    PROVE  Directive(word, args) \in Lines
  <1>1. NoGlyph \in Int /\ <<Letters>> \in Seq(Int)
    BY DEF NoGlyph, Letters
  <1> QED BY <1>1, DirectiveIs DEF Directive

LEMMA LegendIsLine ==
    ASSUME NEW glyph \in Int, NEW pair \in IdPairs
    PROVE  LegendLine(glyph, pair) \in Lines
  <1>0. pair = <<pair[1], pair[2]>> /\ pair[1] \in TileIds /\ pair[2] \in TileIds
    BY DEF IdPairs
  <1>1. pair = <<pair[1], pair[2]>> /\ pair[1] \in Int /\ pair[2] \in Int
    BY <1>0, TypeIsInt
  <1>2. PICK args : args = IF pair[2] = 0 THEN <<pair[1]>> ELSE pair
    OBVIOUS
  <1>3. args \in Seq(Int)
    <2>1. <<pair[1]>> \in Seq(Int) /\ <<pair[1], pair[2]>> \in Seq(Int)
      BY <1>1
    <2> QED BY <1>1, <1>2, <2>1
  <1>4. "legend" \in Words /\ <<Letters>> \in Seq(Int)
    BY DEF Words, Letters
  <1>5. LegendLine(glyph, pair) = Line("legend", glyph, args, <<Letters>>)
    BY <1>2 DEF LegendLine
  <1>6. Line("legend", glyph, args, <<Letters>>) \in Lines
    BY <1>3, <1>4, DirectiveIs
  <1> QED BY <1>5, <1>6

LEMMA HeadIsLines ==
    ASSUME NEW m, IsMap(m)
    PROVE  <<Directive("comment", <<>>), Directive("size", <<m.width, m.height, m.floors>>)>>
               \in Seq(Lines)
  <1>1. PICK args : args = <<m.width, m.height, m.floors>>
    OBVIOUS
  <1>2. args \in Seq(Int) /\ <<>> \in Seq(Int)
    BY <1>1 DEF IsMap, Dims
  <1>3. "comment" \in Words /\ "size" \in Words
    BY DEF Words
  <1>4. Directive("comment", <<>>) \in Lines /\ Directive("size", args) \in Lines
    BY <1>2, <1>3, SaysIsLine
  <1> QED BY <1>1, <1>4

LEMMA LegendLinesAre ==
    ASSUME NEW pairs \in Seq(IdPairs), Distinct(pairs)
    PROVE  LegendLines(pairs) \in Seq(Lines)
  <1>1. Len(pairs) \in Nat /\ DOMAIN pairs = 1..Len(pairs)
    OBVIOUS
  <1>2. \A k \in 1..Len(pairs) : LegendLine(SignOf(pairs, pairs[k]), pairs[k]) \in Lines
    <2>1. ASSUME NEW k \in 1..Len(pairs)
          PROVE  LegendLine(SignOf(pairs, pairs[k]), pairs[k]) \in Lines
      <3>1. SignOf(pairs, pairs[k]) = Signs(pairs)[k]
        BY SignsAre
      <3>2. Signs(pairs)[k] \in Int
        BY DEF Signs, Overflow
      <3>3. pairs[k] \in IdPairs
        OBVIOUS
      <3> QED BY <3>1, <3>2, <3>3, LegendIsLine
    <2> QED BY <2>1
  <1> QED BY <1>1, <1>2 DEF LegendLines

LEMMA SpawnLinesAre ==
    ASSUME NEW doc, IsMap(doc.map)
    PROVE  SpawnLines(doc) \in Seq(Lines)
  <1>1. CASE HasSpawn(doc)
    <2>1. PairOf(doc.map, doc.spawn) \in IdPairs
      BY <1>1, SpawnLies, TileOfMap
    <2>2. PICK one : one = LegendLine(SpawnSign, PairOf(doc.map, doc.spawn))
      OBVIOUS
    <2>3. PICK two : two = Line("spawn", SpawnSign, <<>>, <<Letters>>)
      OBVIOUS
    <2>4. SpawnSign \in Int /\ <<Letters>> \in Seq(Int) /\ <<>> \in Seq(Int) /\ "spawn" \in Words
      BY DEF SpawnSign, Letters, Words
    <2>5. one \in Lines
      BY <2>1, <2>2, <2>4, LegendIsLine
    <2>6. two \in Lines
      BY <2>3, <2>4, DirectiveIs
    <2>7. SpawnLines(doc) = <<one, two>>
      BY <1>1, <2>2, <2>3 DEF SpawnLines
    <2> QED BY <2>5, <2>6, <2>7
  <1>2. CASE ~HasSpawn(doc)
    BY <1>2 DEF SpawnLines
  <1> QED BY <1>1, <1>2

LEMMA MobLinesAre ==
    ASSUME NEW ms \in Seq(Mobs), NEW ns \in Seq(Nests), NEW ps \in Seq(Warps)
    PROVE  /\ MonsterLines(ms) \in Seq(Lines) /\ SpawnerLines(ns) \in Seq(Lines)
           /\ PortalLines(ps) \in Seq(Lines)
  <1>1. "monster" \in Words /\ "spawner" \in Words /\ "portal" \in Words
    BY DEF Words
  <1>2. ASSUME NEW m \in Mobs PROVE MonsterLine(m) \in Lines
    <2>1. m.tile[1] \in Int /\ m.tile[2] \in Int /\ m.tile[3] \in Int /\ m.type \in Int
      <3>1. m.tile \in Spots /\ m.type \in TileIds
        BY DEF Mobs
      <3>2. m.type \in Int
        BY <3>1, TypeIsInt
      <3>3. m.tile[1] \in Int /\ m.tile[2] \in Int /\ m.tile[3] \in Int
        BY <3>1 DEF Spots
      <3> QED BY <3>2, <3>3
    <2>2. PICK args : args = <<m.tile[1], m.tile[2], m.tile[3], m.type>>
      OBVIOUS
    <2>3. args \in Seq(Int)
      BY <2>1, <2>2
    <2> QED BY <1>1, <2>2, <2>3, SaysIsLine DEF MonsterLine
  <1>3. ASSUME NEW s \in Nests PROVE SpawnerLine(s) \in Lines
    <2>1. s.tile[1] \in Int /\ s.tile[2] \in Int /\ s.tile[3] \in Int /\ s.type \in Int
      <3>1. s.tile \in Spots /\ s.type \in TileIds
        BY DEF Nests
      <3>2. s.type \in Int
        BY <3>1, TypeIsInt
      <3>3. s.tile[1] \in Int /\ s.tile[2] \in Int /\ s.tile[3] \in Int
        BY <3>1 DEF Spots
      <3> QED BY <3>2, <3>3
    <2>2. s.maxAlive \in Int /\ s.radius \in Int /\ s.seconds \in Int
      BY DEF Nests
    <2>3. PICK args : args = <<s.tile[1], s.tile[2], s.tile[3], s.type, s.maxAlive, s.radius, s.seconds>>
      OBVIOUS
    <2>4. args \in Seq(Int)
      BY <2>1, <2>2, <2>3
    <2> QED BY <1>1, <2>3, <2>4, SaysIsLine DEF SpawnerLine
  <1>4. ASSUME NEW p \in Warps PROVE PortalLine(p) \in Lines
    <2>1. /\ p.from[1] \in Int /\ p.from[2] \in Int /\ p.from[3] \in Int
          /\ p.to[1] \in Int /\ p.to[2] \in Int /\ p.to[3] \in Int
      BY DEF Warps, Spots
    <2>2. PICK args : args = <<p.from[1], p.from[2], p.from[3], p.to[1], p.to[2], p.to[3]>>
      OBVIOUS
    <2>3. args \in Seq(Int)
      BY <2>1, <2>2
    <2> QED BY <1>1, <2>2, <2>3, SaysIsLine DEF PortalLine
  <1>5. MonsterLines(ms) \in Seq(Lines)
    BY <1>2 DEF MonsterLines
  <1>6. SpawnerLines(ns) \in Seq(Lines)
    BY <1>3 DEF SpawnerLines
  <1>7. PortalLines(ps) \in Seq(Lines)
    BY <1>4 DEF PortalLines
  <1> QED BY <1>5, <1>6, <1>7

LEMMA FloorLinesAre ==
    ASSUME NEW doc, IsMap(doc.map)
    PROVE  FloorLines(doc, Pairs(doc.map)) \in Seq(Lines)
  <1>1. PICK f, b : f = doc.map.floors /\ b = doc.map.height + 1
    OBVIOUS
  <1>2. f \in Nat /\ b \in Nat \ {0} /\ doc.map.height \in Nat /\ doc.map.height = b - 1
    BY <1>1 DEF IsMap, Dims
  <1>3. PICK n : n = f * b
    OBVIOUS
  <1>4. n \in Nat
    BY <1>2, <1>3
  <1> DEFINE what(z, y) == IF y = 0 THEN Directive("floor", <<z>>)
                           ELSE RowOf(doc, Pairs(doc.map), y - 1, z)
  <1>5. FloorLines(doc, Pairs(doc.map)) = [k \in 1..n |-> what((k - 1) \div b, (k - 1) % b)]
    BY <1>1, <1>3 DEF FloorLines
  <1>6. ASSUME NEW z \in 0..(f - 1), NEW y \in 0..(b - 1) PROVE what(z, y) \in Lines
    <2>1. CASE y = 0
      <3>1. "floor" \in Words /\ <<z>> \in Seq(Int)
        BY DEF Words
      <3> QED BY <2>1, <3>1, SaysIsLine
    <2>2. CASE y # 0
      <3>1. PICK i : i = y - 1
        OBVIOUS
      <3>2. i \in 0..(doc.map.height - 1)
        BY <1>2, <2>2, <3>1
      <3>3. RowOf(doc, Pairs(doc.map), i, z) \in Lines
        BY <1>1, <3>2, RowIsLine
      <3> QED BY <2>2, <3>1, <3>3
    <2> QED BY <2>1, <2>2
  <1>7. ASSUME NEW k \in 1..n PROVE (k - 1) \div b \in 0..(f - 1) /\ ((k - 1) % b) \in 0..(b - 1)
    <2>1. PICK i : i = k - 1
      OBVIOUS
    <2>2. i \in Nat /\ i < f * b
      BY <1>3, <1>4, <2>1
    <2>3. i \div b \in 0..(f - 1) /\ (i % b) \in 0..(b - 1)
      BY <1>2, <2>2, DivBound
    <2> QED BY <2>1, <2>3
  <1> HIDE DEF what
  <1>8. \A k \in 1..n : what((k - 1) \div b, (k - 1) % b) \in Lines
    <2>1. ASSUME NEW k \in 1..n PROVE what((k - 1) \div b, (k - 1) % b) \in Lines
      <3>1. PICK z : z = (k - 1) \div b
        OBVIOUS
      <3>2. PICK y : y = (k - 1) % b
        OBVIOUS
      <3>3. z \in 0..(f - 1) /\ y \in 0..(b - 1)
        BY <1>7, <3>1, <3>2
      <3> QED BY <1>6, <3>1, <3>2, <3>3
    <2> QED BY <2>1
  <1> DEFINE it == [k \in 1..n |-> what((k - 1) \div b, (k - 1) % b)]
  <1>9. it \in [1..n -> Lines]
    BY <1>8
  <1>10. it \in Seq(Lines)
    <2> HIDE DEF it
    <2> QED BY <1>4, <1>9, SeqDef
  <1> QED BY <1>5, <1>10

(* The seven parts of a text. *)
HeadOf(doc) == <<Directive("comment", <<>>),
                 Directive("size", <<doc.map.width, doc.map.height, doc.map.floors>>)>>

LEMMA PartsAre ==
    ASSUME NEW doc, IsMap(doc.map), IsAuthored(doc)
    PROVE  /\ HeadOf(doc) \in Seq(Lines) /\ LegendLines(Pairs(doc.map)) \in Seq(Lines)
           /\ SpawnLines(doc) \in Seq(Lines) /\ MonsterLines(doc.monsters) \in Seq(Lines)
           /\ SpawnerLines(doc.spawners) \in Seq(Lines) /\ PortalLines(doc.portals) \in Seq(Lines)
           /\ FloorLines(doc, Pairs(doc.map)) \in Seq(Lines)
           /\ Write(doc) = HeadOf(doc) \o LegendLines(Pairs(doc.map)) \o SpawnLines(doc)
                             \o MonsterLines(doc.monsters) \o SpawnerLines(doc.spawners)
                             \o PortalLines(doc.portals) \o FloorLines(doc, Pairs(doc.map))
  <1>1. HeadOf(doc) \in Seq(Lines)
    <2>1. PICK m : m = doc.map
      OBVIOUS
    <2> QED BY <2>1, HeadIsLines DEF HeadOf
  <1>2. LegendLines(Pairs(doc.map)) \in Seq(Lines)
    BY PairsAre, LegendLinesAre
  <1>3. /\ doc.monsters \in Seq(Mobs) /\ doc.spawners \in Seq(Nests) /\ doc.portals \in Seq(Warps)
    BY DEF IsAuthored
  <1>4. /\ MonsterLines(doc.monsters) \in Seq(Lines)
        /\ SpawnerLines(doc.spawners) \in Seq(Lines) /\ PortalLines(doc.portals) \in Seq(Lines)
    BY <1>3, MobLinesAre
  <1>5. SpawnLines(doc) \in Seq(Lines) /\ FloorLines(doc, Pairs(doc.map)) \in Seq(Lines)
    BY SpawnLinesAre, FloorLinesAre
  <1> QED BY <1>1, <1>2, <1>4, <1>5 DEF Write, HeadOf

SevenReads(p, text, a, b, c, d, e, f, g, B) ==
    Read(p, text, B) =
        Read(Read(Read(Read(Read(Read(Read(p, a, B), b, B), c, B), d, B), e, B), f, B), g, B)

LEMMA SevenParts ==
    ASSUME NEW S, NEW a \in Seq(S), NEW b \in Seq(S), NEW c \in Seq(S), NEW d \in Seq(S),
           NEW e \in Seq(S), NEW f \in Seq(S), NEW g \in Seq(S), NEW p, NEW B
    PROVE  /\ a \o b \o c \o d \o e \o f \o g \in Seq(S)
           /\ SevenReads(p, a \o b \o c \o d \o e \o f \o g, a, b, c, d, e, f, g, B)
  <1>1. PICK ab : ab = a \o b
    OBVIOUS
  <1>2. ab \in Seq(S) /\ Read(p, ab, B) = Read(Read(p, a, B), b, B)
    BY <1>1, ReadOn
  <1>3. PICK ac : ac = ab \o c
    OBVIOUS
  <1>4. ac \in Seq(S) /\ Read(p, ac, B) = Read(Read(p, ab, B), c, B)
    BY <1>2, <1>3, ReadOn
  <1>5. PICK ad : ad = ac \o d
    OBVIOUS
  <1>6. ad \in Seq(S) /\ Read(p, ad, B) = Read(Read(p, ac, B), d, B)
    BY <1>4, <1>5, ReadOn
  <1>7. PICK ae : ae = ad \o e
    OBVIOUS
  <1>8. ae \in Seq(S) /\ Read(p, ae, B) = Read(Read(p, ad, B), e, B)
    BY <1>6, <1>7, ReadOn
  <1>9. PICK af : af = ae \o f
    OBVIOUS
  <1>10. af \in Seq(S) /\ Read(p, af, B) = Read(Read(p, ae, B), f, B)
    BY <1>8, <1>9, ReadOn
  <1>11. PICK ag : ag = af \o g
    OBVIOUS
  <1>12. ag \in Seq(S) /\ Read(p, ag, B) = Read(Read(p, af, B), g, B)
    BY <1>10, <1>11, ReadOn
  <1>13. ag = a \o b \o c \o d \o e \o f \o g
    BY <1>1, <1>3, <1>5, <1>7, <1>9, <1>11
  <1> QED BY <1>2, <1>4, <1>6, <1>8, <1>10, <1>12, <1>13 DEF SevenReads

LEMMA Longer ==
    ASSUME NEW S, NEW s \in Seq(S), NEW t \in Seq(S), NEW n \in Nat, Len(s) >= n
    PROVE  s \o t \in Seq(S) /\ Len(s \o t) >= n
  OBVIOUS

LEMMA HeadFirst ==
    ASSUME NEW doc, IsDoc(doc), NEW text, text = Write(doc)
    PROVE  text \in Seq(Lines) /\ Len(text) >= 2
  <1>0. IsMap(doc.map) /\ IsAuthored(doc)
    BY DEF IsDoc
  <1>1. PICK a, b, c, d, e, f, g :
            /\ a \in Seq(Lines) /\ b \in Seq(Lines) /\ c \in Seq(Lines) /\ d \in Seq(Lines)
            /\ e \in Seq(Lines) /\ f \in Seq(Lines) /\ g \in Seq(Lines)
            /\ a = HeadOf(doc) /\ text = a \o b \o c \o d \o e \o f \o g
    BY <1>0, PartsAre
  <1>2. Len(a) >= 2 /\ 2 \in Nat
    BY <1>1 DEF HeadOf
  <1>3. PICK ab : ab = a \o b
    OBVIOUS
  <1>4. ab \in Seq(Lines) /\ Len(ab) >= 2
    BY <1>1, <1>2, <1>3, Longer
  <1>5. PICK ac : ac = ab \o c
    OBVIOUS
  <1>6. ac \in Seq(Lines) /\ Len(ac) >= 2
    BY <1>1, <1>2, <1>4, <1>5, Longer
  <1>7. PICK ad : ad = ac \o d
    OBVIOUS
  <1>8. ad \in Seq(Lines) /\ Len(ad) >= 2
    BY <1>1, <1>2, <1>6, <1>7, Longer
  <1>9. PICK ae : ae = ad \o e
    OBVIOUS
  <1>10. ae \in Seq(Lines) /\ Len(ae) >= 2
    BY <1>1, <1>2, <1>8, <1>9, Longer
  <1>11. PICK af : af = ae \o f
    OBVIOUS
  <1>12. af \in Seq(Lines) /\ Len(af) >= 2
    BY <1>1, <1>2, <1>10, <1>11, Longer
  <1>13. PICK ag : ag = af \o g
    OBVIOUS
  <1>14. ag \in Seq(Lines) /\ Len(ag) >= 2
    BY <1>1, <1>2, <1>12, <1>13, Longer
  <1> QED BY <1>1, <1>3, <1>5, <1>7, <1>9, <1>11, <1>13, <1>14

LEMMA WriteIsLines ==
    ASSUME NEW doc, IsMap(doc.map), IsAuthored(doc)
    PROVE  Write(doc) \in Seq(Lines)
  <1>1. PICK a, b, c, d, e, f, g :
            /\ a \in Seq(Lines) /\ b \in Seq(Lines) /\ c \in Seq(Lines) /\ d \in Seq(Lines)
            /\ e \in Seq(Lines) /\ f \in Seq(Lines) /\ g \in Seq(Lines)
            /\ Write(doc) = a \o b \o c \o d \o e \o f \o g
    BY PartsAre
  <1>2. a \o b \o c \o d \o e \o f \o g \in Seq(Lines)
    BY <1>1, SevenParts
  <1> QED BY <1>1, <1>2

----------------------------------------------------------------------------
(* What is written is read again. *)

LEMMA AllDrawn ==
    ASSUME NEW doc, IsMap(doc.map), NEW legend, NEW sign, NEW B, NEW p,
           Between(p, doc, legend, sign, B, doc.map.floors)
    PROVE  /\ p.map = Redrawn(doc.map, B)
           /\ p.spawn = IF HasSpawn(doc) THEN doc.spawn ELSE NoCell
  <1>1. PICK m : m = doc.map
    OBVIOUS
  <1>2. PICK r : r = Redrawn(m, B)
    OBVIOUS
  <1>3. /\ IsMap(r) /\ r.width = m.width /\ r.height = m.height /\ r.floors = m.floors
        /\ \A c \in Cells(m.width, m.height, m.floors) :
              r.tiles[c] = Tile(m.tiles[c].ground, m.tiles[c].object, B)
    BY <1>1, <1>2, RedrawnIs
  <1>4. \A c \in Cells(m.width, m.height, m.floors) : Past(c, m.floors, 0)
    <2>1. ASSUME NEW c \in Cells(m.width, m.height, m.floors) PROVE Past(c, m.floors, 0)
      <3>1. c[3] < m.floors
        BY <1>1, CellLies
      <3> QED BY <3>1 DEF Past
    <2> QED BY <2>1
  <1>5. PICK n : n = p.map
    OBVIOUS
  <1>6. /\ IsMap(n) /\ n.width = m.width /\ n.height = m.height /\ n.floors = m.floors
        /\ \A c \in Cells(m.width, m.height, m.floors) :
              n.tiles[c] = Tile(m.tiles[c].ground, m.tiles[c].object, B)
    BY <1>1, <1>4, <1>5 DEF Between
  <1>7. n = r
    <2>1. n.tiles = [c \in Cells(m.width, m.height, m.floors) |-> n.tiles[c]]
      BY <1>6 DEF IsMap
    <2>2. r.tiles = [c \in Cells(m.width, m.height, m.floors) |-> r.tiles[c]]
      BY <1>3 DEF IsMap
    <2>3. n.tiles = r.tiles
      BY <1>3, <1>6, <2>1, <2>2
    <2>4. /\ n = [width |-> n.width, height |-> n.height, floors |-> n.floors, tiles |-> n.tiles]
          /\ r = [width |-> r.width, height |-> r.height, floors |-> r.floors, tiles |-> r.tiles]
      BY <1>3, <1>6 DEF IsMap
    <2> QED BY <1>3, <1>6, <2>3, <2>4
  <1>8. HasSpawn(doc) => Past(doc.spawn, doc.map.floors, 0)
    BY <1>1, <1>4, SpawnLies
  <1>9. p.spawn = IF HasSpawn(doc) THEN doc.spawn ELSE NoCell
    BY <1>8 DEF Between
  <1> QED BY <1>1, <1>2, <1>5, <1>7, <1>9

LEMMA LegibleIs ==
    ASSUME NEW doc, IsDoc(doc), NEW B, Legible(doc, B)
    PROVE  /\ IsMap(doc.map) /\ Fits(doc.map) /\ Len(Pairs(doc.map)) <= PoolSize + 1
           /\ doc.monsters \in Seq(Mobs) /\ Placed(doc.map, doc.monsters)
           /\ doc.spawners \in Seq(Nests) /\ Placed(doc.map, doc.spawners)
           /\ doc.portals \in Seq(Warps)
           /\ \A k \in 1..Len(doc.portals) :
                 /\ doc.portals[k].from \in Cells(doc.map.width, doc.map.height, doc.map.floors)
                 /\ doc.portals[k].to \in Cells(doc.map.width, doc.map.height, doc.map.floors)
           /\ doc.spawn = IF HasSpawn(doc) THEN doc.spawn ELSE NoCell
  <1>1. IsMap(doc.map) /\ IsAuthored(doc)
    BY DEF IsDoc
  <1>2. doc.monsters \in Seq(Mobs) /\ doc.spawners \in Seq(Nests) /\ doc.portals \in Seq(Warps)
    BY <1>1 DEF IsAuthored
  <1>3. Fits(doc.map) /\ Len(Pairs(doc.map)) <= PoolSize + 1
    BY DEF Legible, Fits
  <1>4. DOMAIN doc.map.tiles = Cells(doc.map.width, doc.map.height, doc.map.floors)
    BY <1>1 DEF IsMap
  <1>5. /\ DOMAIN doc.monsters = 1..Len(doc.monsters) /\ DOMAIN doc.spawners = 1..Len(doc.spawners)
        /\ DOMAIN doc.portals = 1..Len(doc.portals)
    BY <1>2
  <1>6. Placed(doc.map, doc.monsters) /\ Placed(doc.map, doc.spawners)
    BY <1>4, <1>5 DEF Legible, Placed, InBounds
  <1>7. PICK r : r = Redrawn(doc.map, B)
    OBVIOUS
  <1>8. DOMAIN r.tiles = Cells(doc.map.width, doc.map.height, doc.map.floors)
    BY <1>1, <1>7, RedrawnIs
  <1>9. PICK d : d = [doc EXCEPT !.map = r]
    OBVIOUS
  <1>10. d.map = r /\ d.portals = doc.portals
    BY <1>9 DEF IsDoc
  <1>11. PortalsStand(d)
    BY <1>7, <1>9 DEF Legible
  <1>12. \A k \in 1..Len(doc.portals) :
            InBounds(r, doc.portals[k].from) /\ InBounds(r, doc.portals[k].to)
    BY <1>5, <1>10, <1>11 DEF PortalsStand, IsWalkable
  <1>13. doc.spawn # NoCell => HasSpawn(doc)
    BY DEF Legible, HasSpawn
  <1> QED BY <1>1, <1>2, <1>3, <1>6, <1>8, <1>12, <1>13 DEF InBounds

LEMMA AllRead ==
    ASSUME NEW doc, IsDoc(doc), NEW B, 0 \notin B, Legible(doc, B)
    PROVE  \E legend, sign :
              Between(Read(Started, Write(doc), B), doc, legend, sign, B, doc.map.floors)
  <1>1. /\ IsMap(doc.map) /\ Fits(doc.map) /\ Len(Pairs(doc.map)) <= PoolSize + 1
        /\ doc.monsters \in Seq(Mobs) /\ Placed(doc.map, doc.monsters)
        /\ doc.spawners \in Seq(Nests) /\ Placed(doc.map, doc.spawners)
        /\ doc.portals \in Seq(Warps)
        /\ \A k \in 1..Len(doc.portals) :
              /\ doc.portals[k].from \in Cells(doc.map.width, doc.map.height, doc.map.floors)
              /\ doc.portals[k].to \in Cells(doc.map.width, doc.map.height, doc.map.floors)
    BY LegibleIs
  <1>2. PICK t1, t2, t3, t4, t5, t6, t7 :
            /\ t1 = HeadOf(doc) /\ t2 = LegendLines(Pairs(doc.map)) /\ t3 = SpawnLines(doc)
            /\ t4 = MonsterLines(doc.monsters) /\ t5 = SpawnerLines(doc.spawners)
            /\ t6 = PortalLines(doc.portals) /\ t7 = FloorLines(doc, Pairs(doc.map))
    OBVIOUS
  <1>3. /\ t1 \in Seq(Lines) /\ t2 \in Seq(Lines) /\ t3 \in Seq(Lines) /\ t4 \in Seq(Lines)
        /\ t5 \in Seq(Lines) /\ t6 \in Seq(Lines) /\ t7 \in Seq(Lines)
        /\ Write(doc) = t1 \o t2 \o t3 \o t4 \o t5 \o t6 \o t7
    <2>1. IsAuthored(doc)
      BY DEF IsDoc
    <2> QED BY <1>1, <1>2, <2>1, PartsAre
  <1>4. PICK p1, p2, p3, p4, p5, p6, p7 :
            /\ p1 = Read(Started, t1, B) /\ p2 = Read(p1, t2, B) /\ p3 = Read(p2, t3, B)
            /\ p4 = Read(p3, t4, B) /\ p5 = Read(p4, t5, B) /\ p6 = Read(p5, t6, B)
            /\ p7 = Read(p6, t7, B)
    OBVIOUS
  <1>5. Read(Started, Write(doc), B) = p7
    <2>1. PICK text : text = t1 \o t2 \o t3 \o t4 \o t5 \o t6 \o t7
      OBVIOUS
    <2>2. SevenReads(Started, text, t1, t2, t3, t4, t5, t6, t7, B)
      BY <1>3, <2>1, SevenParts
    <2> QED BY <1>3, <1>4, <2>1, <2>2 DEF SevenReads
  <1>6. PICK m : m = NewMap(doc.map.width, doc.map.height, doc.map.floors)
    OBVIOUS
  <1>7. /\ doc.map.width \in Dims /\ doc.map.height \in Dims /\ doc.map.floors \in Dims
    BY <1>1 DEF IsMap
  <1>8. IsMap(m) /\ m.width = doc.map.width /\ m.height = doc.map.height /\ m.floors = doc.map.floors
    <2>1. PICK w, h, n : w = doc.map.width /\ h = doc.map.height /\ n = doc.map.floors
      OBVIOUS
    <2>2. w \in Dims /\ h \in Dims /\ n \in Dims /\ m = NewMap(w, h, n)
      BY <1>6, <1>7, <2>1
    <2>3. /\ IsMap(m) /\ m.width = w /\ m.height = h /\ m.floors = n
          /\ m.tiles = [cell \in Cells(w, h, n) |-> VoidTile]
      BY <2>2, NewMapIs
    <2> QED BY <2>1, <2>3
  <1>9. Fits(m) /\ Placed(m, doc.monsters) /\ Placed(m, doc.spawners)
    BY <1>1, <1>8 DEF Fits, Placed
  <1>10. Holds(p1, m, <<>>, NoGlyph, <<>>, <<>>, <<>>)
    BY <1>2, <1>4, <1>6, <1>7, HeaderRead DEF HeadOf
  <1>11. PICK pairs : pairs = Pairs(doc.map)
    OBVIOUS
  <1>12. pairs \in Seq(IdPairs) /\ Distinct(pairs) /\ Len(pairs) <= PoolSize + 1
    BY <1>1, <1>11, PairsAre
  <1>13. Holds(p2, m, p2.legend, NoGlyph, <<>>, <<>>, <<>>) /\ Binds(p2.legend, pairs, Len(pairs))
    BY <1>2, <1>4, <1>10, <1>11, <1>12, LegendsRead
  <1>14. Holds(p3, m, p3.legend, p3.sign, <<>>, <<>>, <<>>) /\ Knows(p3.legend, p3.sign, doc)
    BY <1>1, <1>2, <1>4, <1>11, <1>13, SpawnRead
  <1>15. PICK legend, sign : legend = p3.legend /\ sign = p3.sign
    OBVIOUS
  <1>16. Holds(p3, m, legend, sign, <<>>, <<>>, <<>>) /\ Knows(legend, sign, doc)
    BY <1>14, <1>15
  <1>17. Holds(p4, m, legend, sign, doc.monsters, <<>>, <<>>)
    BY <1>1, <1>2, <1>4, <1>8, <1>9, <1>16, MonstersRead
  <1>18. Holds(p5, m, legend, sign, doc.monsters, doc.spawners, <<>>)
    BY <1>1, <1>2, <1>4, <1>8, <1>9, <1>17, SpawnersRead
  <1>19. Holds(p6, m, legend, sign, doc.monsters, doc.spawners, doc.portals)
    <2>1. \A k \in 1..Len(doc.portals) :
             /\ doc.portals[k].from \in Cells(m.width, m.height, m.floors)
             /\ doc.portals[k].to \in Cells(m.width, m.height, m.floors)
      BY <1>1, <1>8
    <2> QED BY <1>1, <1>2, <1>4, <1>8, <1>9, <1>18, <2>1, PortalsRead
  <1>20. Between(p6, doc, legend, sign, B, 0)
    BY <1>1, <1>6, <1>19, GridStarts
  <1>21. Ready(doc, legend, sign)
    BY <1>1, <1>16 DEF Ready
  <1>22. Between(p7, doc, legend, sign, B, doc.map.floors)
    BY <1>1, <1>2, <1>4, <1>20, <1>21, FloorsRead
  <1> QED BY <1>5, <1>22

Reproduces(e, doc, B) ==
    /\ e.ok = TRUE /\ e.map = Redrawn(doc.map, B) /\ e.spawn = doc.spawn
    /\ e.monsters = doc.monsters /\ e.spawners = doc.spawners /\ e.portals = doc.portals

(* A parse of what was written reproduces the document, its tiles redrawn. *)
LEMMA RoundTrip ==
    ASSUME NEW doc, IsDoc(doc), NEW B, 0 \notin B, Legible(doc, B)
    PROVE  Reproduces(Parse(Write(doc), B), doc, B)
  <1>0. PICK e : e = Parse(Write(doc), B)
    OBVIOUS
  <1>1. PICK p : p = Read(Started, Write(doc), B)
    OBVIOUS
  <1>2. PICK legend, sign : Between(p, doc, legend, sign, B, doc.map.floors)
    BY <1>1, AllRead
  <1>3. /\ p.ok = TRUE /\ p.sized = TRUE /\ p.rowsLeft = 0
        /\ p.monsters = doc.monsters /\ p.spawners = doc.spawners /\ p.portals = doc.portals
    BY <1>2 DEF Between
  <1>4. IsMap(doc.map)
    BY DEF IsDoc
  <1>5. p.map = Redrawn(doc.map, B) /\ p.spawn = IF HasSpawn(doc) THEN doc.spawn ELSE NoCell
    BY <1>2, <1>4, AllDrawn
  <1>6. p.spawn = doc.spawn
    BY <1>5, LegibleIs
  <1>7. PortalsStand(p)
    <2>1. PICK d : d = [doc EXCEPT !.map = Redrawn(doc.map, B)]
      OBVIOUS
    <2>2. d.map = p.map /\ d.portals = p.portals
      BY <1>3, <1>5, <2>1 DEF IsDoc
    <2>3. PortalsStand(d)
      BY <2>1 DEF Legible
    <2> QED BY <2>2, <2>3 DEF PortalsStand
  <1>8. e = [ok |-> TRUE, map |-> p.map, spawn |-> p.spawn, monsters |-> p.monsters,
             spawners |-> p.spawners, portals |-> p.portals]
    BY <1>0, <1>1, <1>3, <1>7, ParseIs
  <1> QED BY <1>0, <1>3, <1>5, <1>6, <1>8 DEF Reproduces

LEMMA RedrawnTwice ==
    ASSUME NEW m, IsMap(m), NEW A, NEW B
    PROVE  Redrawn(Redrawn(m, A), B) = Redrawn(m, B)
  <1>1. PICK r : r = Redrawn(m, A)
    OBVIOUS
  <1>2. PICK s : s = Redrawn(r, B)
    OBVIOUS
  <1>3. PICK t : t = Redrawn(m, B)
    OBVIOUS
  <1>4. PICK cells : cells = Cells(m.width, m.height, m.floors)
    OBVIOUS
  <1>5. /\ IsMap(r) /\ r.width = m.width /\ r.height = m.height /\ r.floors = m.floors
        /\ \A c \in cells : r.tiles[c] = Tile(m.tiles[c].ground, m.tiles[c].object, A)
    BY <1>1, <1>4, RedrawnIs
  <1>6. /\ IsMap(t) /\ t.width = m.width /\ t.height = m.height /\ t.floors = m.floors
        /\ \A c \in cells : t.tiles[c] = Tile(m.tiles[c].ground, m.tiles[c].object, B)
    BY <1>3, <1>4, RedrawnIs
  <1>7. /\ IsMap(s) /\ s.width = m.width /\ s.height = m.height /\ s.floors = m.floors
        /\ \A c \in cells : s.tiles[c] = Tile(r.tiles[c].ground, r.tiles[c].object, B)
    BY <1>2, <1>4, <1>5, RedrawnIs
  <1>8. \A c \in cells : r.tiles[c].ground = m.tiles[c].ground /\ r.tiles[c].object = m.tiles[c].object
    <2>1. \A g, o : Tile(g, o, A).ground = g /\ Tile(g, o, A).object = o
      BY DEF Tile
    <2> QED BY <1>5, <2>1
  <1>9. s.tiles = t.tiles
    <2>1. s.tiles = [c \in cells |-> s.tiles[c]] /\ t.tiles = [c \in cells |-> t.tiles[c]]
      BY <1>4, <1>6, <1>7 DEF IsMap
    <2>2. \A c \in cells : s.tiles[c] = t.tiles[c]
      BY <1>6, <1>7, <1>8
    <2> QED BY <2>1, <2>2
  <1>10. /\ s = [width |-> s.width, height |-> s.height, floors |-> s.floors, tiles |-> s.tiles]
         /\ t = [width |-> t.width, height |-> t.height, floors |-> t.floors, tiles |-> t.tiles]
    BY <1>6, <1>7 DEF IsMap
  <1> QED BY <1>1, <1>2, <1>3, <1>6, <1>7, <1>9, <1>10

----------------------------------------------------------------------------
(* The line of versions, as an operator of its three parts. *)

Versions(u, m, r) == u \o <<m>> \o Reverse(r)

LEMMA ReverseIs ==
    ASSUME NEW S, NEW r \in Seq(S)
    PROVE  /\ Reverse(r) \in Seq(S)
           /\ Len(Reverse(r)) = Len(r)
           /\ \A j \in 1..Len(r) : Reverse(r)[j] = r[Len(r) - j + 1]
  BY DEF Reverse

LEMMA FrontIs ==
    ASSUME NEW S, NEW u \in Seq(S), u # <<>>
    PROVE  /\ Front(u) \in Seq(S) /\ Len(Front(u)) = Len(u) - 1
           /\ \A k \in 1..Len(u) - 1 : Front(u)[k] = u[k]
           /\ Last(u) \in S /\ Last(u) = u[Len(u)] /\ Len(u) \in Nat \ {0}
  <1>1. Len(u) \in Nat \ {0}
    BY EmptySeq
  <1>2. \A k \in 1..Len(u) - 1 : u[k] \in S
    BY <1>1, ElementOfSeq
  <1>3. Last(u) \in S
    BY <1>1, ElementOfSeq DEF Last
  <1>4. /\ SubSeq(u, 1, Len(u) - 1) \in Seq(S)
        /\ Len(SubSeq(u, 1, Len(u) - 1)) = Len(u) - 1
        /\ \A k \in 1..Len(u) - 1 : SubSeq(u, 1, Len(u) - 1)[k] = u[k]
    <2>1. Len(u) - 1 \in Int /\ 1 \in Int
      BY <1>1
    <2>2. /\ SubSeq(u, 1, Len(u) - 1) \in Seq(S)
          /\ Len(SubSeq(u, 1, Len(u) - 1)) = IF 1 <= Len(u) - 1 THEN Len(u) - 1 - 1 + 1 ELSE 0
          /\ \A k \in 1..Len(u) - 1 - 1 + 1 : SubSeq(u, 1, Len(u) - 1)[k] = u[1 + k - 1]
      BY <1>2, <2>1, SubSeqProperties
    <2>3. PICK n \in Nat : n = Len(u) - 1
      BY <1>1
    <2>4. (IF 1 <= n THEN n - 1 + 1 ELSE 0) = n /\ n - 1 + 1 = n
      OBVIOUS
    <2>5. \A k \in 1..n : 1 + k - 1 = k
      OBVIOUS
    <2> QED BY <2>2, <2>3, <2>4, <2>5
  <1> QED BY <1>1, <1>3, <1>4 DEF Front, Last

LEMMA VersionsAre ==
    ASSUME NEW S, NEW u \in Seq(S), NEW m \in S, NEW r \in Seq(S)
    PROVE  /\ Versions(u, m, r) \in Seq(S)
           /\ Len(Versions(u, m, r)) = Len(u) + 1 + Len(r)
           /\ \A k \in 1..Len(u) + 1 + Len(r) :
                 Versions(u, m, r)[k] = IF k <= Len(u) THEN u[k]
                                        ELSE IF k = Len(u) + 1 THEN m
                                        ELSE r[Len(u) + Len(r) + 2 - k]
  <1>1. /\ Reverse(r) \in Seq(S) /\ Len(Reverse(r)) = Len(r)
        /\ \A j \in 1..Len(r) : Reverse(r)[j] = r[Len(r) - j + 1]
    BY ReverseIs
  <1>2. PICK um : um = u \o <<m>>
    OBVIOUS
  <1>3. /\ um \in Seq(S) /\ Len(um) = Len(u) + 1
        /\ \A k \in 1..Len(u) + 1 : um[k] = IF k <= Len(u) THEN u[k] ELSE m
    <2>1. Len(u) \in Nat /\ <<m>> \in Seq(S) /\ Len(<<m>>) = 1 /\ <<m>>[1] = m
      OBVIOUS
    <2>2. /\ u \o <<m>> \in Seq(S) /\ Len(u \o <<m>>) = Len(u) + Len(<<m>>)
          /\ \A k \in 1..Len(u) + Len(<<m>>) :
                (u \o <<m>>)[k] = IF k <= Len(u) THEN u[k] ELSE <<m>>[k - Len(u)]
      BY <2>1, ConcatProperties
    <2>3. ASSUME NEW k \in 1..Len(u) + 1
          PROVE  (u \o <<m>>)[k] = IF k <= Len(u) THEN u[k] ELSE m
      <3>1. k > Len(u) => k - Len(u) = 1
        BY <2>1
      <3> QED BY <3>1, <2>1, <2>2
    <2> QED BY <1>2, <2>1, <2>2, <2>3
  <1>4. PICK rev : rev = Reverse(r)
    OBVIOUS
  <1>5. PICK all : all = um \o rev
    OBVIOUS
  <1>6. Versions(u, m, r) = all
    BY <1>2, <1>4, <1>5 DEF Versions
  <1>7. Len(u) \in Nat /\ Len(r) \in Nat
    OBVIOUS
  <1>8. rev \in Seq(S) /\ Len(rev) = Len(r) /\ \A j \in 1..Len(r) : rev[j] = r[Len(r) - j + 1]
    BY <1>1, <1>4
  <1>9. /\ all \in Seq(S) /\ Len(all) = Len(um) + Len(rev)
        /\ \A k \in 1..Len(um) + Len(rev) :
              all[k] = IF k <= Len(um) THEN um[k] ELSE rev[k - Len(um)]
    <2>1. /\ um \o rev \in Seq(S) /\ Len(um \o rev) = Len(um) + Len(rev)
          /\ \A k \in 1..Len(um) + Len(rev) :
                (um \o rev)[k] = IF k <= Len(um) THEN um[k] ELSE rev[k - Len(um)]
      BY <1>3, <1>8, ConcatProperties
    <2> QED BY <2>1, <1>5
  <1>10. ASSUME NEW k \in 1..Len(u) + 1 + Len(r)
         PROVE  all[k] = IF k <= Len(u) THEN u[k]
                         ELSE IF k = Len(u) + 1 THEN m
                         ELSE r[Len(u) + Len(r) + 2 - k]
    <2>1. CASE k <= Len(u) + 1
      <3>1. all[k] = um[k]
        BY <2>1, <1>3, <1>7, <1>8, <1>9
      <3> QED BY <3>1, <2>1, <1>3, <1>7
    <2>2. CASE k > Len(u) + 1
      <3>1. k - (Len(u) + 1) \in 1..Len(r)
        BY <2>2, <1>7
      <3>2. all[k] = rev[k - (Len(u) + 1)]
        BY <2>2, <1>3, <1>7, <1>8, <1>9
      <3>3. Len(r) - (k - (Len(u) + 1)) + 1 = Len(u) + Len(r) + 2 - k
        BY <1>7
      <3>4. rev[k - (Len(u) + 1)] = r[Len(r) - (k - (Len(u) + 1)) + 1]
        BY <3>1, <1>8
      <3> QED BY <3>2, <3>3, <3>4, <2>2, <1>7
    <2> QED BY <2>1, <2>2, <1>7
  <1> QED BY <1>3, <1>6, <1>7, <1>8, <1>9, <1>10

(* Taking one version back moves the cursor and nothing else. *)
LEMMA StepBack ==
    ASSUME NEW S, NEW u \in Seq(S), NEW m \in S, NEW r \in Seq(S), u # <<>>
    PROVE  /\ Front(u) \in Seq(S) /\ Last(u) \in S /\ Append(r, m) \in Seq(S)
           /\ Len(Front(u)) = Len(u) - 1
           /\ Versions(Front(u), Last(u), Append(r, m)) = Versions(u, m, r)
  <1>1. PICK f : f = Front(u)
    OBVIOUS
  <1>2. PICK l : l = Last(u)
    OBVIOUS
  <1>3. PICK a : a = Append(r, m)
    OBVIOUS
  <1>4. PICK old : old = Versions(u, m, r)
    OBVIOUS
  <1>5. PICK new : new = Versions(f, l, a)
    OBVIOUS
  <1>6. /\ f \in Seq(S) /\ Len(f) = Len(u) - 1
        /\ \A k \in 1..Len(u) - 1 : f[k] = u[k]
        /\ l \in S /\ l = u[Len(u)] /\ Len(u) \in Nat \ {0} /\ Len(r) \in Nat
    BY <1>1, <1>2, FrontIs
  <1>7. /\ a \in Seq(S) /\ Len(a) = Len(r) + 1
        /\ \A k \in 1..Len(r) : a[k] = r[k]
        /\ a[Len(r) + 1] = m
    BY <1>3, AppendProperties
  <1>8. /\ old \in Seq(S) /\ Len(old) = Len(u) + 1 + Len(r)
        /\ \A k \in 1..Len(u) + 1 + Len(r) :
              old[k] = IF k <= Len(u) THEN u[k] ELSE IF k = Len(u) + 1 THEN m
                       ELSE r[Len(u) + Len(r) + 2 - k]
    <2>1. /\ Versions(u, m, r) \in Seq(S)
          /\ Len(Versions(u, m, r)) = Len(u) + 1 + Len(r)
          /\ \A k \in 1..Len(u) + 1 + Len(r) :
                Versions(u, m, r)[k] = IF k <= Len(u) THEN u[k] ELSE IF k = Len(u) + 1 THEN m
                                       ELSE r[Len(u) + Len(r) + 2 - k]
      BY VersionsAre
    <2> QED BY <2>1, <1>4
  <1>9. /\ new \in Seq(S) /\ Len(new) = Len(f) + 1 + Len(a)
        /\ \A k \in 1..Len(f) + 1 + Len(a) :
              new[k] = IF k <= Len(f) THEN f[k] ELSE IF k = Len(f) + 1 THEN l
                       ELSE a[Len(f) + Len(a) + 2 - k]
    <2>1. /\ Versions(f, l, a) \in Seq(S)
          /\ Len(Versions(f, l, a)) = Len(f) + 1 + Len(a)
          /\ \A k \in 1..Len(f) + 1 + Len(a) :
                Versions(f, l, a)[k] = IF k <= Len(f) THEN f[k] ELSE IF k = Len(f) + 1 THEN l
                                       ELSE a[Len(f) + Len(a) + 2 - k]
      <3>1. f \in Seq(S) /\ l \in S /\ a \in Seq(S)
        BY <1>6, <1>7
      <3> QED BY <3>1, VersionsAre
    <2> QED BY <2>1, <1>5
  <1>10. ASSUME NEW k \in 1..Len(u) + 1 + Len(r)
         PROVE  new[k] = old[k]
    <2>0. k \in 1..Len(f) + 1 + Len(a) /\ Len(f) + Len(a) = Len(u) + Len(r)
      BY <1>6, <1>7
    <2>1. CASE k < Len(u)
      <3>1. k \in 1..Len(u) - 1 /\ k <= Len(f) /\ k <= Len(u)
        BY <2>1, <1>6
      <3>2. new[k] = f[k]
        BY <2>0, <3>1, <1>9
      <3>3. old[k] = u[k]
        BY <3>1, <1>8
      <3> QED BY <3>1, <3>2, <3>3, <1>6
    <2>2. CASE k = Len(u)
      BY <2>0, <2>2, <1>6, <1>8, <1>9
    <2>3. CASE k = Len(u) + 1
      <3>1. Len(f) + Len(a) + 2 - k = Len(r) + 1
        BY <2>0, <2>3, <1>6
      <3>2. new[k] = a[Len(r) + 1]
        <4>1. ~ k <= Len(f) /\ k # Len(f) + 1
          BY <2>3, <1>6
        <4> QED BY <4>1, <3>1, <2>0, <1>9
      <3>3. old[k] = m
        BY <2>3, <1>6, <1>8
      <3> QED BY <3>2, <3>3, <1>7
    <2>4. CASE k > Len(u) + 1
      <3>1. Len(f) + Len(a) + 2 - k = Len(u) + Len(r) + 2 - k
        BY <2>0, <1>6, <1>7
      <3>2. Len(u) + Len(r) + 2 - k \in 1..Len(r)
        BY <2>4, <1>6
      <3>3. new[k] = a[Len(u) + Len(r) + 2 - k]
        BY <3>1, <2>0, <2>4, <1>6, <1>9
      <3>4. old[k] = r[Len(u) + Len(r) + 2 - k]
        BY <2>4, <1>6, <1>8
      <3> QED BY <3>2, <3>3, <3>4, <1>7
    <2> QED BY <2>1, <2>2, <2>3, <2>4, <1>6
  <1>11. Len(new) = Len(old) /\ Len(old) = Len(u) + 1 + Len(r)
    BY <1>6, <1>7, <1>8, <1>9
  <1>12. new = old
    BY <1>8, <1>9, <1>10, <1>11, SeqEqual
  <1> QED BY <1>1, <1>2, <1>3, <1>4, <1>5, <1>6, <1>7, <1>12

(* Redoing is going back, seen from where it leads. *)
LEMMA StepForward ==
    ASSUME NEW S, NEW u \in Seq(S), NEW m \in S, NEW r \in Seq(S), r # <<>>
    PROVE  /\ Append(u, m) \in Seq(S) /\ Last(r) \in S /\ Front(r) \in Seq(S)
           /\ Len(Append(u, m)) = Len(u) + 1 /\ Len(r) > 0
           /\ Versions(Append(u, m), Last(r), Front(r)) = Versions(u, m, r)
  <1>1. PICK a : a = Append(u, m)
    OBVIOUS
  <1>2. PICK f : f = Front(r)
    OBVIOUS
  <1>3. PICK l : l = Last(r)
    OBVIOUS
  <1>4. /\ f \in Seq(S) /\ Len(f) = Len(r) - 1
        /\ \A k \in 1..Len(r) - 1 : f[k] = r[k]
        /\ l \in S /\ l = r[Len(r)] /\ Len(r) \in Nat \ {0} /\ Len(u) \in Nat
    BY <1>2, <1>3, FrontIs
  <1>5. /\ a \in Seq(S) /\ Len(a) = Len(u) + 1 /\ a # <<>>
        /\ \A k \in 1..Len(u) : a[k] = u[k]
        /\ a[Len(u) + 1] = m
    BY <1>1, AppendProperties
  <1>6. Append(f, l) = r
    <2>1. PICK b : b = Append(f, l)
      OBVIOUS
    <2>2. /\ b \in Seq(S) /\ Len(b) = Len(f) + 1
          /\ \A k \in 1..Len(f) : b[k] = f[k]
          /\ b[Len(f) + 1] = l
      BY <2>1, <1>4, AppendProperties
    <2>3. Len(b) = Len(r) /\ \A k \in 1..Len(b) : b[k] = r[k]
      BY <2>2, <1>4
    <2>4. b = r
      BY <2>2, <2>3, SeqEqual
    <2> QED BY <2>1, <2>4
  <1>7. Front(a) = u /\ Last(a) = m
    <2>1. PICK b : b = Front(a)
      OBVIOUS
    <2>2. /\ b \in Seq(S) /\ Len(b) = Len(a) - 1
          /\ \A k \in 1..Len(a) - 1 : b[k] = a[k]
          /\ Last(a) = a[Len(a)]
      BY <2>1, <1>5, FrontIs
    <2>3. Len(b) = Len(u) /\ \A k \in 1..Len(b) : b[k] = u[k]
      BY <2>2, <1>4, <1>5
    <2>4. b = u
      BY <2>2, <2>3, SeqEqual
    <2> QED BY <2>1, <2>2, <2>4, <1>5
  <1> HIDE DEF Front, Last
  <1>8. Versions(Front(a), Last(a), Append(f, l)) = Versions(a, l, f)
    <2>1. a \in Seq(S) /\ l \in S /\ f \in Seq(S) /\ a # <<>>
      BY <1>4, <1>5
    <2>2. /\ Front(a) \in Seq(S) /\ Last(a) \in S /\ Append(f, l) \in Seq(S)
          /\ Len(Front(a)) = Len(a) - 1
          /\ Versions(Front(a), Last(a), Append(f, l)) = Versions(a, l, f)
      BY <2>1, StepBack, SMTT(30)
    <2> QED BY <2>2
  <1> QED BY <1>1, <1>2, <1>3, <1>4, <1>5, <1>6, <1>7, <1>8

(* With nothing ahead the line ends at its cursor. *)
LEMMA NothingAhead ==
    ASSUME NEW S, NEW u \in Seq(S), NEW m \in S
    PROVE  /\ Len(Versions(u, m, <<>>)) = Len(u) + 1
           /\ \A k \in 1..Len(u) : Versions(u, m, <<>>)[k] = u[k]
  <1>1. PICK e : e = <<>>
    OBVIOUS
  <1>2. e \in Seq(S) /\ Len(e) = 0 /\ Len(u) \in Nat
    BY <1>1, EmptySeq
  <1>3. /\ Versions(u, m, e) \in Seq(S)
        /\ Len(Versions(u, m, e)) = Len(u) + 1 + Len(e)
        /\ \A k \in 1..Len(u) + 1 + Len(e) :
              Versions(u, m, e)[k] = IF k <= Len(u) THEN u[k]
                                     ELSE IF k = Len(u) + 1 THEN m
                                     ELSE e[Len(u) + Len(e) + 2 - k]
    <2>1. e \in Seq(S)
      BY <1>2
    <2> QED BY <2>1, VersionsAre
  <1>4. ASSUME NEW k \in 1..Len(u)
        PROVE  Versions(u, m, e)[k] = u[k]
    <2>1. k \in 1..Len(u) + 1 + Len(e) /\ k <= Len(u)
      BY <1>2
    <2> QED BY <2>1, <1>3
  <1>5. Len(Versions(u, m, e)) = Len(u) + 1
    BY <1>2, <1>3
  <1> QED BY <1>1, <1>4, <1>5

(* The history push_undo leaves, with the oldest snapshot gone when there  *)
(* are more than `depth' of them.                                          *)
Pushed(u, m, depth) == IF Len(Append(u, m)) > depth THEN Tail(Append(u, m)) ELSE Append(u, m)

(* It is what the line of versions keeps when it branches. *)
KeptOf(vs, c, depth) == IF c <= depth THEN SubSeq(vs, 1, c) ELSE SubSeq(vs, 2, c)

LEMMA PushKeeps ==
    ASSUME NEW S, NEW u \in Seq(S), NEW m \in S, NEW r \in Seq(S), NEW depth \in Nat
    PROVE  /\ Pushed(u, m, depth) \in Seq(S)
           /\ KeptOf(Versions(u, m, r), Len(u) + 1, depth) = Pushed(u, m, depth)
  <1>1. PICK vs : vs = Versions(u, m, r)
    OBVIOUS
  <1>2. PICK a : a = Append(u, m)
    OBVIOUS
  <1>3. PICK c \in Nat \ {0} : c = Len(u) + 1
    OBVIOUS
  <1>4. vs \in Seq(S) /\ \A k \in 1..c : vs[k] = IF k < c THEN u[k] ELSE m
    <2>1. /\ Versions(u, m, r) \in Seq(S)
          /\ Len(Versions(u, m, r)) = Len(u) + 1 + Len(r)
          /\ \A k \in 1..Len(u) + 1 + Len(r) :
                Versions(u, m, r)[k] = IF k <= Len(u) THEN u[k] ELSE IF k = Len(u) + 1 THEN m
                                       ELSE r[Len(u) + Len(r) + 2 - k]
      BY VersionsAre
    <2>2. Len(u) \in Nat /\ Len(r) \in Nat
      OBVIOUS
    <2>3. ASSUME NEW k \in 1..c
          PROVE  vs[k] = IF k < c THEN u[k] ELSE m
      <3>1. k \in 1..Len(u) + 1 + Len(r) /\ (k < c <=> k <= Len(u)) /\ (~ k < c => k = Len(u) + 1)
        BY <1>3, <2>2
      <3> QED BY <3>1, <2>1, <1>1
    <2> QED BY <2>1, <2>3, <1>1
  <1>5. /\ a \in Seq(S) /\ Len(a) = c /\ a # <<>>
        /\ \A k \in 1..c : a[k] = vs[k]
    <2>1. /\ a \in Seq(S) /\ Len(a) = Len(u) + 1 /\ a # <<>>
          /\ \A k \in 1..Len(u) : a[k] = u[k]
          /\ a[Len(u) + 1] = m
      BY <1>2, AppendProperties
    <2>2. ASSUME NEW k \in 1..c
          PROVE  a[k] = vs[k]
      <3>1. CASE k < c
        <4>1. k \in 1..Len(u)
          BY <3>1, <1>3
        <4>2. vs[k] = u[k]
          BY <3>1, <1>4
        <4> QED BY <4>1, <4>2, <2>1
      <3>2. CASE k = c
        BY <3>2, <2>1, <1>3, <1>4
      <3> QED BY <3>1, <3>2
    <2> QED BY <2>1, <2>2, <1>3
  <1>6. SubSeq(vs, 1, c) = a
    <2>1. PICK sub : sub = SubSeq(vs, 1, c)
      OBVIOUS
    <2>2. \A k \in 1..c : vs[k] \in S
      BY <1>5, ElementOfSeq
    <2>3. sub \in Seq(S) /\ Len(sub) = c /\ \A k \in 1..c : sub[k] = vs[k]
      <3>1. /\ SubSeq(vs, 1, c) \in Seq(S)
            /\ Len(SubSeq(vs, 1, c)) = IF 1 <= c THEN c - 1 + 1 ELSE 0
            /\ \A k \in 1..c - 1 + 1 : SubSeq(vs, 1, c)[k] = vs[1 + k - 1]
        BY <2>2, SubSeqProperties
      <3>2. c - 1 + 1 = c /\ 1 <= c /\ \A k \in 1..c : 1 + k - 1 = k
        OBVIOUS
      <3> QED BY <3>1, <3>2, <2>1
    <2>4. sub = a
      BY <2>3, <1>5, SeqEqual
    <2> QED BY <2>1, <2>4
  <1>7. SubSeq(vs, 2, c) = Tail(a) /\ Tail(a) \in Seq(S)
    <2>1. PICK sub : sub = SubSeq(vs, 2, c)
      OBVIOUS
    <2>2. PICK t : t = Tail(a)
      OBVIOUS
    <2>3. \A k \in 2..c : vs[k] \in S
      BY <1>5, ElementOfSeq
    <2>4. sub \in Seq(S) /\ Len(sub) = c - 1 /\ \A k \in 1..c - 1 : sub[k] = vs[k + 1]
      <3>1. /\ SubSeq(vs, 2, c) \in Seq(S)
            /\ Len(SubSeq(vs, 2, c)) = IF 2 <= c THEN c - 2 + 1 ELSE 0
            /\ \A k \in 1..c - 2 + 1 : SubSeq(vs, 2, c)[k] = vs[2 + k - 1]
        BY <2>3, SubSeqProperties
      <3>2. c - 2 + 1 = c - 1 /\ (~ 2 <= c => 0 = c - 1) /\ \A k \in 1..c - 1 : 2 + k - 1 = k + 1
        OBVIOUS
      <3> QED BY <3>1, <3>2, <2>1
    <2>5. t \in Seq(S) /\ Len(t) = c - 1 /\ \A k \in 1..c - 1 : t[k] = a[k + 1]
      BY <1>5, <2>2, HeadTailProperties
    <2>6. ASSUME NEW k \in 1..c - 1
          PROVE  sub[k] = t[k]
      <3>1. k + 1 \in 1..c
        OBVIOUS
      <3>2. sub[k] = vs[k + 1] /\ t[k] = a[k + 1]
        BY <2>4, <2>5
      <3> QED BY <3>1, <3>2, <1>5
    <2>7. sub = t
      BY <2>4, <2>5, <2>6, SeqEqual
    <2> QED BY <2>1, <2>2, <2>5, <2>7
  <1>8. Pushed(u, m, depth) = IF c > depth THEN Tail(a) ELSE a
    BY <1>2, <1>5 DEF Pushed
  <1>9. KeptOf(vs, c, depth) = IF c <= depth THEN a ELSE Tail(a)
    BY <1>6, <1>7 DEF KeptOf
  <1> QED BY <1>1, <1>3, <1>5, <1>7, <1>8, <1>9

(* Another version on the canvas is the only difference it makes. *)
LEMMA OnlyTheCursor ==
    ASSUME NEW S, NEW u \in Seq(S), NEW m \in S, NEW n \in S, NEW r \in Seq(S)
    PROVE  /\ Len(Versions(u, n, r)) = Len(Versions(u, m, r))
           /\ \A k \in DOMAIN Versions(u, m, r) :
                 k # Len(u) + 1 => Versions(u, n, r)[k] = Versions(u, m, r)[k]
  <1>1. /\ Versions(u, m, r) \in Seq(S)
        /\ Len(Versions(u, m, r)) = Len(u) + 1 + Len(r)
        /\ \A k \in 1..Len(u) + 1 + Len(r) :
              Versions(u, m, r)[k] = IF k <= Len(u) THEN u[k] ELSE IF k = Len(u) + 1 THEN m
                                     ELSE r[Len(u) + Len(r) + 2 - k]
    BY VersionsAre
  <1>2. /\ Versions(u, n, r) \in Seq(S)
        /\ Len(Versions(u, n, r)) = Len(u) + 1 + Len(r)
        /\ \A k \in 1..Len(u) + 1 + Len(r) :
              Versions(u, n, r)[k] = IF k <= Len(u) THEN u[k] ELSE IF k = Len(u) + 1 THEN n
                                     ELSE r[Len(u) + Len(r) + 2 - k]
    BY VersionsAre
  <1>3. DOMAIN Versions(u, m, r) = 1..Len(u) + 1 + Len(r)
    BY <1>1
  <1>4. \A k \in DOMAIN Versions(u, m, r) :
            k # Len(u) + 1 => Versions(u, n, r)[k] = Versions(u, m, r)[k]
    BY <1>1, <1>2, <1>3, Zenon
  <1> QED BY <1>1, <1>2, <1>4

----------------------------------------------------------------------------
(* The invariant: the snapshots are sequences of the versions there were.  *)

SnapshotsAre(S) == undo \in Seq(S) /\ redo \in Seq(S) /\ map \in S

HInv == \E S : SnapshotsAre(S)

LEMMA WiderSequences ==
    ASSUME NEW S, NEW T, S \subseteq T, NEW s \in Seq(S)
    PROVE  s \in Seq(T)
  OBVIOUS

USE DEF History!vars

LEMMA LineIsVersions ==
    /\ undo \o <<map>> \o Reverse(redo) = Versions(undo, map, redo)
    /\ (undo \o <<map>> \o Reverse(redo))' = Versions(undo', map', redo')
  BY DEF Versions

(* The two facts every case below needs of the line there is. *)
LEMMA LineNow ==
    ASSUME NEW S, SnapshotsAre(S)
    PROVE  /\ Len(undo) \in Nat /\ Len(redo) \in Nat
           /\ Len(Versions(undo, map, redo)) = Len(undo) + 1 + Len(redo)
           /\ Versions(undo, map, redo) \in Seq(S)
           /\ \A k \in 1..Len(undo) + 1 + Len(redo) :
                 Versions(undo, map, redo)[k] = IF k <= Len(undo) THEN undo[k]
                                                ELSE IF k = Len(undo) + 1 THEN map
                                                ELSE redo[Len(undo) + Len(redo) + 2 - k]
  <1>1. undo \in Seq(S) /\ map \in S /\ redo \in Seq(S)
    BY DEF SnapshotsAre
  <1>2. /\ Versions(undo, map, redo) \in Seq(S)
        /\ Len(Versions(undo, map, redo)) = Len(undo) + 1 + Len(redo)
        /\ \A k \in 1..Len(undo) + 1 + Len(redo) :
              Versions(undo, map, redo)[k] = IF k <= Len(undo) THEN undo[k]
                                             ELSE IF k = Len(undo) + 1 THEN map
                                             ELSE redo[Len(undo) + Len(redo) + 2 - k]
    BY <1>1, VersionsAre
  <1>3. Len(undo) \in Nat /\ Len(redo) \in Nat
    BY <1>1
  <1> QED BY <1>2, <1>3

LEMMA UndoIsBack ==
    ASSUME HInv, Undo
    PROVE  HInv' /\ History!Back
  <1>1. PICK S : SnapshotsAre(S)
    BY DEF HInv
  <1>2. /\ undo \in Seq(S) /\ redo \in Seq(S) /\ map \in S /\ undo # <<>>
        /\ undo' = Front(undo) /\ map' = Last(undo) /\ redo' = Append(redo, map)
    BY <1>1 DEF SnapshotsAre, Undo
  <1>3. /\ Front(undo) \in Seq(S) /\ Last(undo) \in S /\ Append(redo, map) \in Seq(S)
        /\ Len(Front(undo)) = Len(undo) - 1
        /\ Versions(Front(undo), Last(undo), Append(redo, map)) = Versions(undo, map, redo)
    BY <1>2, StepBack
  <1>4. Len(undo) \in Nat \ {0}
    BY <1>2, EmptySeq
  <1> HIDE DEF Front, Last
  <1>5. HInv'
    BY <1>2, <1>3 DEF HInv, SnapshotsAre
  <1>6. Len(undo') = Len(undo) - 1
    BY <1>2, <1>3
  <1>7. Len(undo) + 1 > 1 /\ Len(undo') + 1 = Len(undo) + 1 - 1
    BY <1>4, <1>6
  <1>8. Versions(undo', map', redo') = Versions(undo, map, redo)
    BY <1>2, <1>3
  <1>9. (undo \o <<map>> \o Reverse(redo))' = undo \o <<map>> \o Reverse(redo)
    BY <1>8, LineIsVersions, Zenon
  <1>10. (Len(undo) + 1)' = Len(undo) + 1 - 1
    BY <1>7
  <1>11. History!Back
    <2>1. Len(undo) + 1 > 1
      BY <1>7
    <2>2. (Len(undo) + 1)' = (Len(undo) + 1) - 1
      BY <1>7
    <2>3. Len(undo) + 1 > 1 /\ (Len(undo) + 1)' = (Len(undo) + 1) - 1
      BY <2>1, <2>2
    <2> QED BY <2>3, <1>9 DEF History!Back
  <1> QED BY <1>5, <1>11

LEMMA RedoIsForward ==
    ASSUME HInv, Redo
    PROVE  HInv' /\ History!Forward
  <1>1. PICK S : SnapshotsAre(S)
    BY DEF HInv
  <1>2. /\ undo \in Seq(S) /\ redo \in Seq(S) /\ map \in S /\ redo # <<>>
        /\ undo' = Append(undo, map) /\ map' = Last(redo) /\ redo' = Front(redo)
    BY <1>1 DEF SnapshotsAre, Redo
  <1>3. /\ Append(undo, map) \in Seq(S) /\ Last(redo) \in S /\ Front(redo) \in Seq(S)
        /\ Len(Append(undo, map)) = Len(undo) + 1 /\ Len(redo) > 0
        /\ Versions(Append(undo, map), Last(redo), Front(redo)) = Versions(undo, map, redo)
    BY <1>2, StepForward
  <1> HIDE DEF Front, Last
  <1>4. HInv'
    BY <1>2, <1>3 DEF HInv, SnapshotsAre
  <1>5. Len(undo') = Len(undo) + 1
    BY <1>2, <1>3
  <1>6. /\ Len(undo) \in Nat /\ Len(redo) \in Nat
        /\ Len(Versions(undo, map, redo)) = Len(undo) + 1 + Len(redo)
    BY <1>1, LineNow
  <1>7. Len(undo) + 1 < Len(Versions(undo, map, redo))
    BY <1>3, <1>6
  <1>8. Len(undo) + 1 < Len(undo \o <<map>> \o Reverse(redo))
    BY <1>7, LineIsVersions, Zenon
  <1>9. Versions(undo', map', redo') = Versions(undo, map, redo)
    BY <1>2, <1>3
  <1>10. (undo \o <<map>> \o Reverse(redo))' = undo \o <<map>> \o Reverse(redo)
    BY <1>9, LineIsVersions, Zenon
  <1>11. (Len(undo) + 1)' = Len(undo) + 1 + 1
    BY <1>5, Zenon
  <1>12. History!Forward
    BY <1>8, <1>10, <1>11, Zenon DEF History!Forward
  <1> QED BY <1>4, <1>12

(* A snapshot taken is a branch, whatever is done to the map with it. *)
LEMMA PushIsBranch ==
    ASSUME HInv, PushUndo
    PROVE  HInv' /\ History!Branch
  <1>1. PICK S : SnapshotsAre(S)
    BY DEF HInv
  <1>2. PICK T : T = S \cup {map'}
    OBVIOUS
  <1>3. undo \in Seq(T) /\ redo \in Seq(T) /\ map \in T /\ map' \in T
    BY <1>1, <1>2, WiderSequences DEF SnapshotsAre
  <1>4. undo' = Pushed(undo, map, KMaxUndo) /\ redo' = <<>>
    BY DEF PushUndo, Pushed
  <1>5. KMaxUndo \in Nat
    BY MapEditorAssumption
  <1>6. /\ Pushed(undo, map, KMaxUndo) \in Seq(T)
        /\ KeptOf(Versions(undo, map, redo), Len(undo) + 1, KMaxUndo) = Pushed(undo, map, KMaxUndo)
    BY <1>3, <1>5, PushKeeps
  <1>7. undo' \in Seq(T)
    BY <1>4, <1>6
  <1>8. HInv'
    BY <1>3, <1>4, <1>7, EmptySeq DEF HInv, SnapshotsAre
  <1>9. History!Kept = KeptOf(Versions(undo, map, redo), Len(undo) + 1, KMaxUndo)
    BY LineIsVersions, Zenon DEF History!Kept, KeptOf
  <1>10. History!Kept = undo'
    BY <1>4, <1>6, <1>9
  <1>11. /\ Len(Versions(undo', map', <<>>)) = Len(undo') + 1
         /\ \A k \in 1..Len(undo') : Versions(undo', map', <<>>)[k] = undo'[k]
    BY <1>3, <1>7, NothingAhead
  <1>12. (undo \o <<map>> \o Reverse(redo))' = Versions(undo', map', <<>>)
    BY <1>4, LineIsVersions, Zenon
  <1>13. DOMAIN undo' = 1..Len(undo')
    BY <1>7
  <1>14. (Len(undo) + 1)' = Len(undo') + 1
    OBVIOUS
  <1>15. History!Branch
    BY <1>10, <1>11, <1>12, <1>13, <1>14, Zenon DEF History!Branch
  <1> QED BY <1>8, <1>15

(* Painting changes the version on the canvas and no other. *)
LEMMA PaintIsGrow ==
    ASSUME HInv, undo' = undo, redo' = redo
    PROVE  HInv' /\ History!Grow
  <1>1. PICK S : SnapshotsAre(S)
    BY DEF HInv
  <1>2. PICK n : n = map'
    OBVIOUS
  <1>3. PICK T : T = S \cup {n}
    OBVIOUS
  <1>4. undo \in Seq(T) /\ redo \in Seq(T) /\ map \in T /\ n \in T
    BY <1>1, <1>3, WiderSequences DEF SnapshotsAre
  <1>5. HInv'
    BY <1>2, <1>4 DEF HInv, SnapshotsAre
  <1>6. /\ Len(Versions(undo, n, redo)) = Len(Versions(undo, map, redo))
        /\ \A k \in DOMAIN Versions(undo, map, redo) :
              k # Len(undo) + 1 => Versions(undo, n, redo)[k] = Versions(undo, map, redo)[k]
    BY <1>4, OnlyTheCursor
  <1>7. (undo \o <<map>> \o Reverse(redo))' = Versions(undo, n, redo)
    BY <1>2, LineIsVersions, Zenon
  <1>8. (Len(undo) + 1)' = Len(undo) + 1
    OBVIOUS
  <1>9. History!Grow
    BY <1>6, <1>7, <1>8, LineIsVersions, Zenon DEF History!Grow
  <1> QED BY <1>5, <1>9

(* A map opened has no history. *)
LEMMA ShownIsTurn ==
    ASSUME undo' = <<>>, redo' = <<>>
    PROVE  HInv' /\ History!Turn
  <1>1. PICK T : T = {map'}
    OBVIOUS
  <1>2. undo' \in Seq(T) /\ map' \in T /\ redo' = <<>>
    BY <1>1, EmptySeq
  <1>3. HInv'
    BY <1>2, EmptySeq DEF HInv, SnapshotsAre
  <1>4. Len(Versions(undo', map', <<>>)) = Len(undo') + 1
    BY <1>2, NothingAhead
  <1>5. (undo \o <<map>> \o Reverse(redo))' = Versions(undo', map', <<>>)
    BY LineIsVersions, Zenon
  <1>6. Len(undo') = 0
    BY EmptySeq
  <1>7. (Len(undo) + 1)' = 1 /\ Len(undo') + 1 = 1
    BY <1>6
  <1>8. History!Turn
    BY <1>4, <1>5, <1>7, Zenon DEF History!Turn
  <1> QED BY <1>3, <1>8

----------------------------------------------------------------------------

LEMMA HistoryInit ==
    ASSUME Init
    PROVE  HInv /\ History!Init
  <1>1. PICK T : T = {map}
    OBVIOUS
  <1>2. undo = <<>> /\ redo = <<>>
    BY DEF Init
  <1>3. undo \in Seq(T) /\ redo \in Seq(T) /\ map \in T
    BY <1>1, <1>2, EmptySeq
  <1>4. HInv
    BY <1>3 DEF HInv, SnapshotsAre
  <1>5. Len(Versions(undo, map, <<>>)) = Len(undo) + 1
    BY <1>3, NothingAhead
  <1>6. Len(undo) + 1 = 1
    BY <1>2, EmptySeq
  <1>7. Len(undo \o <<map>> \o Reverse(redo)) = 1
    BY <1>2, <1>5, <1>6, LineIsVersions, Zenon
  <1>8. History!Init
    BY <1>6, <1>7, Zenon DEF History!Init
  <1> QED BY <1>4, <1>8

LEMMA HistoryStep ==
    ASSUME HInv, [Next]_vars
    PROVE  HInv' /\ [History!Next]_History!vars
  <1> DEFINE Still == undo' = undo /\ redo' = redo /\ map' = map
  <1>1. CASE Undo
    BY <1>1, UndoIsBack DEF History!Next
  <1>2. CASE Redo
    BY <1>2, RedoIsForward DEF History!Next
  <1>3. CASE PressLeft \/ PressRight \/ AddFloor
    <2>1. PushUndo
      BY <1>3 DEF PressLeft, PressRight, AddFloor
    <2> QED BY <2>1, PushIsBranch DEF History!Next
  <1>4. CASE \E c \in DOMAIN map.tiles : Paint(c)
    <2>1. undo' = undo /\ redo' = redo
      BY <1>4 DEF Paint
    <2> QED BY <2>1, PaintIsGrow DEF History!Next
  <1>5. CASE OpenChosen \/ \E p \in Paths : Restart(p)
    <2>1. undo' = <<>> /\ redo' = <<>>
      BY <1>5 DEF OpenChosen, Restart, Shown
    <2> QED BY <2>1, ShownIsTurn DEF History!Next
  <1>6. CASE Still
    <2>1. HInv'
      BY <1>6 DEF HInv, SnapshotsAre
    <2>2. UNCHANGED History!vars
      BY <1>6
    <2> QED BY <2>1, <2>2
  <1>7. Still \/ ~ UNCHANGED vars
    BY DEF vars, mapVars
  <1>8. ItemModeKey \/ MobModeKey \/ OpenBrowser \/ CloseBrowser \/ Arm \/ Release => Still
    BY DEF ItemModeKey, MobModeKey, OpenBrowser, CloseBrowser, Arm, Release, mapVars
  <1>9. SaveGood \/ SaveTorn \/ SaveRefused \/ ReviseItem => Still
    BY DEF SaveGood, SaveTorn, SaveRefused, ReviseItem, vars, mapVars
  <1>10. (\E p \in Paths : MoveSelection(p)) \/ (\E b \in Brushes : PickBrush(b))
         \/ (\E step \in {-1, 1} : Page(step)) => Still
    BY DEF MoveSelection, PickBrush, Page, mapVars
  <1> HIDE DEF Still
  <1> QED BY <1>1, <1>2, <1>3, <1>4, <1>5, <1>6, <1>7, <1>8, <1>9, <1>10, Zenon DEF Next

(* The editor's two stacks of snapshots and its canvas implement           *)
(* EditHistory: whatever is pressed, in any mode, no version is altered by *)
(* undoing or redoing, and only the oldest are ever forgotten (editor's    *)
(* push_undo, undo, redo, painting, F3 and + keys).                        *)
THEOREM EditorKeepsHistory == Spec => KeepsHistory
  <1>1. Init => HInv /\ History!Init
    BY HistoryInit
  <1>2. HInv /\ [Next]_vars => HInv' /\ [History!Next]_History!vars
    BY HistoryStep
  <1> QED BY <1>1, <1>2, PTL DEF Spec, KeepsHistory, History!Spec

----------------------------------------------------------------------------
(* The prompt: a list opened over unsaved work knows of it for as long as  *)
(* it is shown, and an armed prompt stands at the row that would be opened.*)

IsList(b) == b = [active |-> b.active, unsaved |-> b.unsaved,
                  confirmed |-> b.confirmed, selected |-> b.selected]

KnowsOfUnsaved == browser.active /\ dirty => browser.unsaved

ArmedAtItsRow == browser.active /\ browser.confirmed => warned = browser.selected

BInv == IsList(browser) /\ KnowsOfUnsaved /\ ArmedAtItsRow

LEMMA ClosedAsksNothing ==
    ASSUME browser' = Closed
    PROVE  BInv'
  <1>1. IsList(browser') /\ browser'.active = FALSE
    BY DEF IsList, Closed
  <1> QED BY <1>1 DEF BInv, KnowsOfUnsaved, ArmedAtItsRow

LEMMA PromptStep ==
    ASSUME BInv, [Next]_vars
    PROVE  BInv' /\ (dirty /\ OpenChosen => warned = path')
  <1>1. dirty /\ OpenChosen => warned = path'
    BY DEF OpenChosen, Shown, BInv, KnowsOfUnsaved, ArmedAtItsRow
  <1> SUFFICES BInv'
    BY <1>1
  <1>2. CASE CloseBrowser \/ OpenChosen \/ \E p \in Paths : Restart(p)
    <2>1. browser' = Closed
      BY <1>2 DEF CloseBrowser, OpenChosen, Restart
    <2> QED BY <2>1, ClosedAsksNothing
  <1>3. CASE OpenBrowser
    <2>1. /\ browser' = [active |-> TRUE, unsaved |-> dirty, confirmed |-> FALSE,
                         selected |-> FirstRow]
          /\ dirty' = dirty
      BY <1>3 DEF OpenBrowser, BrowserOpened
    <2>2. /\ browser'.unsaved = dirty /\ browser'.confirmed = FALSE
          /\ IsList(browser')
      BY <2>1 DEF IsList
    <2> QED BY <2>1, <2>2 DEF BInv, KnowsOfUnsaved, ArmedAtItsRow
  <1>4. CASE \E p \in Paths : MoveSelection(p)
    <2>1. PICK p \in Paths : MoveSelection(p)
      BY <1>4
    <2>2. /\ browser' = [active |-> browser.active, unsaved |-> browser.unsaved,
                         confirmed |-> FALSE, selected |-> p]
          /\ dirty' = dirty
      BY <2>1 DEF MoveSelection, Moved, BInv, IsList
    <2>3. /\ browser'.active = browser.active /\ browser'.unsaved = browser.unsaved
          /\ browser'.confirmed = FALSE /\ IsList(browser')
      BY <2>2 DEF IsList
    <2> QED BY <2>2, <2>3 DEF BInv, IsList, KnowsOfUnsaved, ArmedAtItsRow
  <1>5. CASE Arm
    <2>1. /\ browser' = [active |-> browser.active, unsaved |-> browser.unsaved,
                         confirmed |-> TRUE, selected |-> browser.selected]
          /\ dirty' = dirty /\ warned' = browser.selected
      BY <1>5 DEF Arm, BInv, IsList
    <2>2. /\ browser'.active = browser.active /\ browser'.unsaved = browser.unsaved
          /\ browser'.selected = browser.selected /\ IsList(browser')
      BY <2>1 DEF IsList
    <2> QED BY <2>1, <2>2 DEF BInv, IsList, KnowsOfUnsaved, ArmedAtItsRow
  <1>6. CASE Undo \/ Redo \/ AddFloor \/ \E c \in DOMAIN map.tiles : Paint(c)
    <2>1. browser' = browser /\ warned' = warned /\ ~ browser.active
      BY <1>6 DEF Undo, Redo, AddFloor, Paint, ToMap
    <2> QED BY <2>1 DEF BInv, IsList, KnowsOfUnsaved, ArmedAtItsRow
  <1>7. CASE SaveGood \/ SaveTorn \/ SaveRefused
    <2>1. browser' = browser /\ warned' = warned /\ ~ browser.active
      BY <1>7 DEF SaveGood, SaveTorn, SaveRefused, ToMap, vars
    <2> QED BY <2>1 DEF BInv, IsList, KnowsOfUnsaved, ArmedAtItsRow
  <1>8. CASE \/ ItemModeKey \/ MobModeKey \/ ReviseItem \/ PressLeft \/ PressRight \/ Release
             \/ (\E b \in Brushes : PickBrush(b)) \/ (\E step \in {-1, 1} : Page(step))
             \/ UNCHANGED vars
    <2>1. browser' = browser /\ warned' = warned /\ dirty' = dirty
      BY <1>8 DEF ItemModeKey, MobModeKey, ReviseItem, PressLeft, PressRight, Release, PickBrush,
                  Page, vars
    <2> QED BY <2>1 DEF BInv, IsList, KnowsOfUnsaved, ArmedAtItsRow
  <1> QED BY <1>2, <1>3, <1>4, <1>5, <1>6, <1>7, <1>8, Zenon DEF Next

(* Whatever is pressed, choosing a map in the list replaces unsaved work   *)
(* only when the prompt stood at the row that is opened and the cursor has *)
(* not moved since (map_browser.cpp, handle_event and choose).             *)
THEOREM EditorAsksFirst == Spec => LossIsConfirmed
  <1>1. Init => BInv
    BY DEF Init, BInv, IsList, KnowsOfUnsaved, ArmedAtItsRow, Closed
  <1>2. BInv /\ [Next]_vars => BInv' /\ [dirty /\ OpenChosen => warned = path']_vars
    BY PromptStep
  <1> QED BY <1>1, <1>2, PTL DEF Spec, LossIsConfirmed

----------------------------------------------------------------------------
(* The maps an editor can have on its canvas. *)

Grids == UNION {[S -> Kinds] : S \in SUBSET Spots}

AllMaps == {m \in [width: Dims, height: Dims, floors: Dims, tiles: Grids] : IsMap(m)}

LEMMA MapsAre ==
    ASSUME NEW m
    PROVE  m \in AllMaps <=> IsMap(m)
  <1>1. ASSUME IsMap(m) PROVE m \in AllMaps
    <2>1. m.width \in Dims /\ m.height \in Dims /\ m.floors \in Dims
      BY <1>1 DEF IsMap
    <2>2. m.tiles \in [Cells(m.width, m.height, m.floors) -> Kinds]
      BY <1>1 DEF IsMap
    <2>3. m.tiles \in Grids
      <3>1. Cells(m.width, m.height, m.floors) \subseteq Spots
        BY DEF Cells, Spots
      <3>2. PICK S \in SUBSET Spots : S = Cells(m.width, m.height, m.floors)
        BY <3>1
      <3>3. m.tiles \in [S -> Kinds]
        BY <2>2, <3>2
      <3> QED BY <3>3 DEF Grids
    <2>4. m = [width |-> m.width, height |-> m.height, floors |-> m.floors, tiles |-> m.tiles]
      BY <1>1 DEF IsMap
    <2>5. m \in [width: Dims, height: Dims, floors: Dims, tiles: Grids]
      BY <2>1, <2>3, <2>4
    <2> QED BY <1>1, <2>5 DEF AllMaps
  <1>2. m \in AllMaps => IsMap(m)
    BY DEF AllMaps
  <1> QED BY <1>1, <1>2

LEMMA BlankIsMap == IsMap(BlankMap)
  <1>1. PICK n : n = NewMap(CanvasWidth, CanvasHeight, 1)
    OBVIOUS
  <1>2. CanvasWidth \in Dims /\ CanvasHeight \in Dims /\ 1 \in Dims /\ Stone \in TileIds
    BY MapEditorAssumption DEF Dims
  <1>3. IsMap(n)
    BY <1>1, <1>2, NewMapIs
  <1> DEFINE stone == [VoidTile EXCEPT !.ground = Stone]
             t == [c \in DOMAIN n.tiles |-> stone]
  <1>4. stone \in Kinds
    <2>1. VoidTile \in Kinds
      BY DEF VoidTile, Kinds, TileIds
    <2>2. PICK v \in Kinds : v = VoidTile
      BY <2>1
    <2>3. [v EXCEPT !.ground = Stone] \in Kinds
      BY <1>2 DEF Kinds
    <2> QED BY <2>2, <2>3
  <1>5. DOMAIN n.tiles = Cells(n.width, n.height, n.floors)
    BY <1>3 DEF IsMap
  <1>6. t \in [Cells(n.width, n.height, n.floors) -> Kinds]
    <2> HIDE DEF stone
    <2> QED BY <1>4, <1>5
  <1>7. BlankMap = [n EXCEPT !.tiles = t]
    <2>1. "tiles" \in DOMAIN n
      BY <1>3 DEF IsMap
    <2> QED BY <1>1, <2>1 DEF BlankMap
  <1> HIDE DEF t
  <1> QED BY <1>3, <1>6, <1>7, MapWith

LEMMA GrownIsMap ==
    ASSUME NEW m, IsMap(m)
    PROVE  IsMap(WithExtraFloor(m))
  <1>1. PICK n : n = NewMap(m.width, m.height, m.floors + 1)
    OBVIOUS
  <1>2. m.width \in Dims /\ m.height \in Dims /\ m.floors + 1 \in Dims
    BY DEF IsMap, Dims
  <1>3. IsMap(n)
    BY <1>1, <1>2, NewMapIs
  <1> DEFINE t == [c \in DOMAIN n.tiles |-> IF InBounds(m, c) THEN m.tiles[c] ELSE n.tiles[c]]
  <1>4. DOMAIN n.tiles = Cells(n.width, n.height, n.floors)
        /\ \A c \in DOMAIN n.tiles : n.tiles[c] \in Kinds
    BY <1>3 DEF IsMap
  <1>5. \A c : InBounds(m, c) => m.tiles[c] \in Kinds
    BY DEF IsMap, InBounds
  <1>6. t \in [Cells(n.width, n.height, n.floors) -> Kinds]
    BY <1>4, <1>5
  <1>7. WithExtraFloor(m) = [n EXCEPT !.tiles = t]
    <2>1. "tiles" \in DOMAIN n
      BY <1>3 DEF IsMap
    <2> QED BY <1>1, <2>1 DEF WithExtraFloor
  <1> HIDE DEF t
  <1> QED BY <1>3, <1>6, <1>7, MapWith

LEMMA SetIsMap ==
    ASSUME NEW m, IsMap(m), NEW c, NEW k \in Kinds
    PROVE  IsMap(Set(m, c, k))
  <1>1. CASE InBounds(m, c)
    <2> DEFINE t == [m.tiles EXCEPT ![c] = k]
    <2>1. t \in [Cells(m.width, m.height, m.floors) -> Kinds]
      BY DEF IsMap
    <2>2. Set(m, c, k) = [m EXCEPT !.tiles = t]
      <3>1. "tiles" \in DOMAIN m
        BY DEF IsMap
      <3> QED BY <1>1, <3>1 DEF Set
    <2> HIDE DEF t
    <2> QED BY <2>1, <2>2, MapWith
  <1>2. CASE ~InBounds(m, c)
    BY <1>2 DEF Set
  <1> QED BY <1>1, <1>2

LEMMA BrushedIsKind ==
    ASSUME NEW k \in Kinds, NEW b \in Brushes \cup {EraseBrush}
    PROVE  Brushed(k, b) \in Kinds
  <1>1. k.ground \in TileIds /\ k.object \in TileIds /\ 0 \in TileIds
    <2>1. 0 \in TileIds
      BY DEF TileIds
    <2> QED BY <2>1 DEF Kinds
  <1>2. b.id \in TileIds
    <2>1. CASE b \in Brushes
      <3>1. Brushes \subseteq [kind: {"ground", "object", "erase", "void"}, id: TileIds]
        BY MapEditorAssumption
      <3> QED BY <2>1, <3>1
    <2>2. CASE b = EraseBrush
      BY <1>1, <2>2 DEF EraseBrush
    <2> QED BY <2>1, <2>2
  <1>3. PICK g, o : /\ g = IF b.kind = "ground" THEN b.id
                           ELSE IF b.kind = "void" THEN 0 ELSE k.ground
                    /\ o = IF b.kind = "object" THEN b.id
                           ELSE IF b.kind \in {"erase", "void"} THEN 0 ELSE k.object
    OBVIOUS
  <1>4. g \in TileIds /\ o \in TileIds
    BY <1>1, <1>2, <1>3
  <1>5. Brushed(k, b) = Tile(g, o, registry)
    BY <1>3 DEF Brushed
  <1> QED BY <1>4, <1>5, TileIsKind

LEMMA LoadedIs ==
    ASSUME NEW lines \in Seq(Lines), NEW B, 0 \notin B, NEW d, d = Loaded(lines, B)
    PROVE  /\ IsMap(d.map) /\ IsAuthored(d)
           /\ d.ok \in BOOLEAN
           /\ d.ok => IsDoc(d) /\ d = Parse(lines, B)
  <1>1. CASE lines # <<>> /\ Parse(lines, B).ok
    <2>1. d = Parse(lines, B)
      BY <1>1 DEF Loaded
    <2>2. IsDoc(d)
      BY <1>1, <2>1, ParsedIsDoc
    <2>3. d.ok = TRUE
      BY <2>2 DEF IsDoc
    <2> QED BY <2>1, <2>2, <2>3 DEF IsDoc
  <1>2. CASE ~ (lines # <<>> /\ Parse(lines, B).ok)
    <2>1. d = [ok |-> FALSE, map |-> BlankMap, spawn |-> NoCell, monsters |-> <<>>,
               spawners |-> <<>>, portals |-> <<>>]
      BY <1>2 DEF Loaded
    <2>2. <<>> \in Seq(Mobs) /\ <<>> \in Seq(Nests) /\ <<>> \in Seq(Warps)
      OBVIOUS
    <2>3. IsAuthored(d) /\ d.map = BlankMap /\ d.ok = FALSE
      BY <2>1, <2>2 DEF IsAuthored
    <2> QED BY <2>3, BlankIsMap
  <1> QED BY <1>1, <1>2

(* A document is what its parts make of it. *)
DocOf(m, a) == [ok |-> TRUE, map |-> m, spawn |-> a.spawn, monsters |-> a.monsters,
                spawners |-> a.spawners, portals |-> a.portals]

LEMMA DocOfIs ==
    ASSUME NEW m, IsMap(m), NEW a, IsAuthored(a)
    PROVE  IsDoc(DocOf(m, a)) /\ DocOf(m, a).ok = TRUE
  <1>1. PICK d : d = DocOf(m, a)
    OBVIOUS
  <1>2. /\ d.map = m /\ d.spawn = a.spawn /\ d.monsters = a.monsters
        /\ d.spawners = a.spawners /\ d.portals = a.portals /\ d.ok = TRUE
    BY <1>1 DEF DocOf
  <1>3. d = [ok |-> TRUE, map |-> d.map, spawn |-> d.spawn, monsters |-> d.monsters,
             spawners |-> d.spawners, portals |-> d.portals]
    BY <1>1, <1>2 DEF DocOf
  <1>4. IsAuthored(d)
    BY <1>2 DEF IsAuthored
  <1> QED BY <1>1, <1>2, <1>3, <1>4 DEF IsDoc

LEMMA ReadDocOf ==
    ASSUME NEW d, IsDoc(d)
    PROVE  DocOf(d.map, AuthoredOf(d)) = d /\ IsAuthored(AuthoredOf(d))
  <1>1. PICK a : a = AuthoredOf(d)
    OBVIOUS
  <1>2. /\ a.spawn = d.spawn /\ a.monsters = d.monsters /\ a.spawners = d.spawners
        /\ a.portals = d.portals
    BY <1>1 DEF AuthoredOf
  <1>3. DocOf(d.map, a) = d
    BY <1>2 DEF DocOf, IsDoc
  <1>4. IsAuthored(a)
    BY <1>2 DEF IsDoc, IsAuthored
  <1> QED BY <1>1, <1>3, <1>4

LEMMA CutIsLines ==
    ASSUME NEW doc, IsDoc(doc), NEW k \in {0, 2, Len(Write(doc)) - doc.map.height - 1}
    PROVE  SubSeq(Write(doc), 1, k) \in Seq(Lines)
  <1>1. PICK text : text = Write(doc)
    OBVIOUS
  <1>2. text \in Seq(Lines) /\ Len(text) >= 2
    BY <1>1, HeadFirst
  <1>4. doc.map.height \in Nat /\ Len(text) \in Nat
    BY <1>2 DEF IsDoc, IsMap, Dims
  <1>5. k \in Int /\ k <= Len(text)
    BY <1>1, <1>2, <1>4
  <1>6. \A i \in 1..k : text[i] \in Lines
    BY <1>2, <1>4, <1>5, ElementOfSeq
  <1>7. SubSeq(text, 1, k) \in Seq(Lines)
    BY <1>2, <1>5, <1>6, SubSeqProperties
  <1> QED BY <1>1, <1>7

----------------------------------------------------------------------------
(* The invariant of the canvas and the files. *)

FilesAreText == disk \in [Paths -> Seq(Lines)] /\ files \subseteq Paths /\ path \in Paths

CanvasIsMap ==
    /\ IsMap(map) /\ IsAuthored(authored)
    /\ undo \in Seq(AllMaps) /\ redo \in Seq(AllMaps)

(* Nothing has no type, so no type of nothing blocks; and the list stands  *)
(* at a file whenever there is one.                                        *)
ToolsAreSound ==
    /\ brush \in Brushes
    /\ 0 \notin content /\ 0 \notin registry
    /\ IsList(browser)
    /\ browser.active /\ files # {} => browser.selected \in Paths

WrittenIsOnDisk ==
    /\ DOMAIN written = Paths
    /\ \A p \in Paths : written[p].ok => IsDoc(written[p]) /\ disk[p] = Write(written[p])

(* A clean canvas was read from its file, as items blocked then, or has    *)
(* been written to it.                                                     *)
CameFrom(lines, doc) ==
    lines = Write(doc) \/ \E B : 0 \notin B /\ Parse(lines, B) = doc

CleanIsThere == ~dirty /\ ~astray => CameFrom(disk[path], DocOf(map, authored))

EInv == FilesAreText /\ CanvasIsMap /\ ToolsAreSound /\ WrittenIsOnDisk /\ CleanIsThere

LEMMA DocIs == Doc = DocOf(map, authored)
  BY DEF Doc, DocOf

LEMMA ShownKeeps ==
    ASSUME FilesAreText, NEW p \in Paths, NEW B, 0 \notin B, Shown(p, B), disk' = disk
    PROVE  CanvasIsMap' /\ CleanIsThere' /\ path' \in Paths
  <1>1. PICK lines : lines = disk[p]
    OBVIOUS
  <1>2. PICK d : d = Loaded(lines, B)
    OBVIOUS
  <1>3. lines \in Seq(Lines)
    BY <1>1 DEF FilesAreText
  <1>4. IsMap(d.map) /\ IsAuthored(d) /\ d.ok \in BOOLEAN /\ (d.ok => IsDoc(d) /\ d = Parse(lines, B))
    BY <1>2, <1>3, LoadedIs
  <1>5. /\ path' = p /\ map' = d.map /\ authored' = AuthoredOf(d) /\ astray' = ~d.ok
        /\ undo' = <<>> /\ redo' = <<>>
    BY <1>1, <1>2 DEF Shown
  <1>6. PICK a : a = AuthoredOf(d)
    OBVIOUS
  <1>7. IsAuthored(a)
    BY <1>4, <1>6 DEF AuthoredOf, IsAuthored
  <1>8. CanvasIsMap'
    <2>1. <<>> \in Seq(AllMaps)
      OBVIOUS
    <2>2. IsMap(map') /\ IsAuthored(authored')
      BY <1>4, <1>5, <1>6, <1>7
    <2> QED BY <1>5, <2>1, <2>2 DEF CanvasIsMap
  <1>9. CASE d.ok
    <2>1. IsDoc(d) /\ d = Parse(lines, B)
      BY <1>4, <1>9
    <2>2. DocOf(d.map, a) = d
      BY <1>6, <2>1, ReadDocOf
    <2>3. CameFrom(lines, DocOf(d.map, a))
      BY <2>1, <2>2 DEF CameFrom
    <2>4. disk'[path'] = lines /\ map' = d.map /\ authored' = a
      BY <1>1, <1>5, <1>6
    <2>5. CameFrom(disk'[path'], DocOf(map', authored'))
      BY <2>3, <2>4
    <2> QED BY <1>5, <1>8, <2>5 DEF CleanIsThere
  <1>10. CASE ~d.ok
    <2>1. astray' = TRUE
      BY <1>5, <1>10
    <2> QED BY <1>5, <1>8, <2>1 DEF CleanIsThere
  <1> QED BY <1>9, <1>10

LEMMA ShownStep ==
    ASSUME EInv, OpenChosen \/ \E p \in Paths : Restart(p)
    PROVE  EInv'
  <1>1. FilesAreText /\ WrittenIsOnDisk /\ ToolsAreSound
    BY DEF EInv
  <1>2. PICK p \in Paths : \E B : 0 \notin B /\ Shown(p, B)
    <2>1. CASE OpenChosen
      <3>1. browser.selected \in Paths /\ 0 \notin registry /\ Shown(browser.selected, registry)
        BY <1>1, <2>1 DEF OpenChosen, ToolsAreSound
      <3> QED BY <3>1
    <2>2. CASE \E p \in Paths : Restart(p)
      <3>1. PICK p \in Paths : Restart(p)
        BY <2>2
      <3>2. 0 \notin content /\ Shown(p, content)
        BY <1>1, <3>1 DEF Restart, ToolsAreSound
      <3> QED BY <3>2
    <2> QED BY <2>1, <2>2
  <1>2b. PICK B : 0 \notin B /\ Shown(p, B)
    BY <1>2
  <1>3. /\ disk' = disk /\ files' = files /\ written' = written /\ brush' = brush
        /\ browser' = Closed /\ content' = content /\ registry' \in {registry, content}
    BY DEF OpenChosen, Restart, modeVars
  <1>4. CanvasIsMap' /\ CleanIsThere' /\ path' \in Paths
    BY <1>1, <1>2b, <1>3, ShownKeeps
  <1>5. FilesAreText'
    BY <1>1, <1>3, <1>4 DEF FilesAreText
  <1>6. WrittenIsOnDisk'
    BY <1>1, <1>3 DEF WrittenIsOnDisk
  <1>7. ToolsAreSound'
    <2>1. IsList(browser') /\ browser'.active = FALSE
      BY <1>3 DEF IsList, Closed
    <2> QED BY <1>1, <1>3, <2>1 DEF ToolsAreSound
  <1> QED BY <1>4, <1>5, <1>6, <1>7 DEF EInv

LEMMA SaveStep ==
    ASSUME EInv, SaveGood \/ SaveTorn
    PROVE  EInv'
  <1>1. FilesAreText /\ CanvasIsMap /\ ToolsAreSound /\ WrittenIsOnDisk
    BY DEF EInv
  <1>2. PICK doc : doc = Doc
    OBVIOUS
  <1>3. IsDoc(doc) /\ doc = DocOf(map, authored) /\ doc.map = map
    <2>1. doc = DocOf(map, authored)
      BY <1>2, DocIs
    <2> QED BY <1>1, <2>1, DocOfIs DEF CanvasIsMap, DocOf
  <1>4. PICK text : text = Write(doc)
    OBVIOUS
  <1>5. text \in Seq(Lines)
    BY <1>3, <1>4, WriteIsLines DEF IsDoc
  <1>6. /\ files' = files \cup {path} /\ path' = path /\ map' = map /\ authored' = authored
        /\ undo' = undo /\ redo' = redo /\ brush' = brush /\ browser' = browser
        /\ content' = content /\ registry' = registry /\ ~ browser.active
    BY DEF SaveGood, SaveTorn, mapVars, modeVars, ToMap
  <1>7. CanvasIsMap'
    BY <1>1, <1>6 DEF CanvasIsMap
  <1>8. ToolsAreSound'
    BY <1>1, <1>6 DEF ToolsAreSound
  <1>9. path \in Paths /\ DOMAIN disk = Paths /\ DOMAIN written = Paths
    BY <1>1 DEF FilesAreText, WrittenIsOnDisk
  <1>10. CASE SaveGood
    <2>1. /\ disk' = [disk EXCEPT ![path] = text] /\ written' = [written EXCEPT ![path] = doc]
      BY <1>2, <1>4, <1>10 DEF SaveGood
    <2>2. FilesAreText'
      BY <1>1, <1>5, <1>6, <2>1 DEF FilesAreText
    <2>3. disk'[path] = text /\ written'[path] = doc
          /\ \A p \in Paths : p # path => disk'[p] = disk[p] /\ written'[p] = written[p]
      BY <1>9, <2>1
    <2>4. WrittenIsOnDisk'
      <3>1. DOMAIN written' = Paths
        BY <1>9, <2>1
      <3>2. ASSUME NEW p \in Paths, written'[p].ok
            PROVE  IsDoc(written'[p]) /\ disk'[p] = Write(written'[p])
        <4>1. CASE p = path
          BY <1>3, <1>4, <2>3, <4>1
        <4>2. CASE p # path
          BY <1>1, <2>3, <3>2, <4>2 DEF WrittenIsOnDisk
        <4> QED BY <4>1, <4>2
      <3> QED BY <3>1, <3>2 DEF WrittenIsOnDisk
    <2>5. CleanIsThere'
      <3>1. disk'[path'] = Write(DocOf(map', authored'))
        BY <1>3, <1>4, <1>6, <2>3
      <3> QED BY <3>1 DEF CleanIsThere, CameFrom
    <2> QED BY <1>7, <1>8, <2>2, <2>4, <2>5 DEF EInv
  <1>11. CASE SaveTorn
    <2>1. PICK k \in Cuts(text) : disk' = [disk EXCEPT ![path] = SubSeq(text, 1, k)]
      BY <1>2, <1>4, <1>11 DEF SaveTorn
    <2>2. PICK part : part = SubSeq(text, 1, k)
      OBVIOUS
    <2>3. part \in Seq(Lines)
      <3>1. k \in {0, 2, Len(Write(doc)) - doc.map.height - 1}
        BY <1>3, <1>4, <2>1 DEF Cuts
      <3> QED BY <1>3, <1>4, <2>2, <3>1, CutIsLines
    <2>4. disk' = [disk EXCEPT ![path] = part] /\ written' = [written EXCEPT ![path] = Unreadable]
          /\ astray' = TRUE
      BY <1>11, <2>1, <2>2 DEF SaveTorn
    <2>5. FilesAreText'
      BY <1>1, <1>6, <2>3, <2>4 DEF FilesAreText
    <2>6. WrittenIsOnDisk'
      <3>1. DOMAIN written' = Paths /\ written'[path].ok = FALSE
        BY <1>9, <2>4 DEF Unreadable
      <3>2. \A p \in Paths : p # path => disk'[p] = disk[p] /\ written'[p] = written[p]
        BY <1>9, <2>4
      <3>3. ASSUME NEW p \in Paths, written'[p].ok
            PROVE  IsDoc(written'[p]) /\ disk'[p] = Write(written'[p])
        BY <1>1, <3>1, <3>2, <3>3 DEF WrittenIsOnDisk
      <3> QED BY <3>1, <3>3 DEF WrittenIsOnDisk
    <2>7. CleanIsThere'
      BY <2>4 DEF CleanIsThere
    <2> QED BY <1>7, <1>8, <2>5, <2>6, <2>7 DEF EInv
  <1> QED BY <1>10, <1>11

LEMMA PushKeepsMaps ==
    ASSUME CanvasIsMap, PushUndo
    PROVE  undo' \in Seq(AllMaps) /\ redo' \in Seq(AllMaps)
  <1>1. map \in AllMaps
    BY MapsAre DEF CanvasIsMap
  <1>2. PICK all : all = Append(undo, map)
    OBVIOUS
  <1>3. all \in Seq(AllMaps) /\ all # <<>>
    <2>1. undo \in Seq(AllMaps)
      BY DEF CanvasIsMap
    <2> QED BY <1>1, <1>2, <2>1
  <1>4. Tail(all) \in Seq(AllMaps)
    BY <1>3
  <1>5. undo' \in {Tail(all), all} /\ redo' = <<>>
    BY <1>2 DEF PushUndo
  <1> QED BY <1>3, <1>4, <1>5

LEMMA StrokeStep ==
    ASSUME EInv, PressLeft \/ PressRight
    PROVE  EInv'
  <1>1. FilesAreText /\ CanvasIsMap /\ ToolsAreSound /\ WrittenIsOnDisk /\ CleanIsThere
    BY DEF EInv
  <1>2. /\ PushUndo /\ map' = map /\ dirty' = dirty /\ brush' = brush /\ browser' = browser
        /\ disk' = disk /\ files' = files /\ path' = path /\ authored' = authored
        /\ written' = written /\ astray' = astray /\ content' = content /\ registry' = registry
    BY DEF PressLeft, PressRight, fileVars, modeVars
  <1>3. CanvasIsMap'
    <2>1. undo' \in Seq(AllMaps) /\ redo' \in Seq(AllMaps)
      BY <1>1, <1>2, PushKeepsMaps
    <2> QED BY <1>1, <1>2, <2>1 DEF CanvasIsMap
  <1>4. FilesAreText' /\ WrittenIsOnDisk' /\ CleanIsThere'
    BY <1>1, <1>2 DEF FilesAreText, WrittenIsOnDisk, CleanIsThere
  <1>5. ToolsAreSound'
    BY <1>1, <1>2 DEF ToolsAreSound
  <1> QED BY <1>3, <1>4, <1>5 DEF EInv

LEMMA ChangeStep ==
    ASSUME EInv, Undo \/ Redo \/ AddFloor \/ \E c \in DOMAIN map.tiles : Paint(c)
    PROVE  EInv'
  <1>1. FilesAreText /\ CanvasIsMap /\ ToolsAreSound /\ WrittenIsOnDisk
    BY DEF EInv
  <1>2. /\ dirty' = TRUE /\ brush' = brush /\ browser' = browser
        /\ disk' = disk /\ files' = files /\ path' = path /\ authored' = authored
        /\ written' = written /\ content' = content /\ registry' = registry
    BY DEF Undo, Redo, AddFloor, Paint, Marked, fileVars, modeVars
  <1>3. map \in AllMaps /\ undo \in Seq(AllMaps) /\ redo \in Seq(AllMaps)
    BY <1>1, MapsAre DEF CanvasIsMap
  <1>4. map' \in AllMaps /\ undo' \in Seq(AllMaps) /\ redo' \in Seq(AllMaps)
    <2>1. CASE Undo
      <3>1. undo # <<>> /\ map' = Last(undo) /\ undo' = Front(undo) /\ redo' = Append(redo, map)
        BY <2>1 DEF Undo
      <3>2. Last(undo) \in AllMaps /\ Front(undo) \in Seq(AllMaps)
        BY <1>3, <3>1, FrontIs
      <3> QED BY <1>3, <3>1, <3>2
    <2>2. CASE Redo
      <3>1. redo # <<>> /\ map' = Last(redo) /\ redo' = Front(redo) /\ undo' = Append(undo, map)
        BY <2>2 DEF Redo
      <3>2. Last(redo) \in AllMaps /\ Front(redo) \in Seq(AllMaps)
        BY <1>3, <3>1, FrontIs
      <3> QED BY <1>3, <3>1, <3>2
    <2>3. CASE AddFloor
      <3>1. PushUndo /\ map' = WithExtraFloor(map)
        BY <2>3 DEF AddFloor
      <3>2. WithExtraFloor(map) \in AllMaps
        BY <1>3, MapsAre, GrownIsMap
      <3> QED BY <1>1, <3>1, <3>2, PushKeepsMaps
    <2>4. CASE \E c \in DOMAIN map.tiles : Paint(c)
      <3>1. PICK c \in DOMAIN map.tiles : Paint(c)
        BY <2>4
      <3>2. PICK b : b = IF erasing THEN EraseBrush ELSE brush
        OBVIOUS
      <3>3. undo' = undo /\ redo' = redo /\ map' = Set(map, c, Brushed(map.tiles[c], b))
        BY <3>1, <3>2 DEF Paint
      <3>4. b \in Brushes \cup {EraseBrush}
        BY <1>1, <3>2 DEF ToolsAreSound
      <3>5. map.tiles[c] \in Kinds
        BY <1>1 DEF CanvasIsMap, IsMap
      <3>6. Brushed(map.tiles[c], b) \in Kinds
        BY <3>4, <3>5, BrushedIsKind
      <3>7. Set(map, c, Brushed(map.tiles[c], b)) \in AllMaps
        BY <1>3, <3>6, MapsAre, SetIsMap
      <3> QED BY <1>3, <3>3, <3>7
    <2> QED BY <2>1, <2>2, <2>3, <2>4
  <1>5. CanvasIsMap'
    <2>1. IsMap(map')
      BY <1>4, MapsAre
    <2> QED BY <1>1, <1>2, <1>4, <2>1 DEF CanvasIsMap
  <1>6. FilesAreText' /\ WrittenIsOnDisk' /\ CleanIsThere'
    BY <1>1, <1>2 DEF FilesAreText, WrittenIsOnDisk, CleanIsThere
  <1>7. ToolsAreSound'
    BY <1>1, <1>2 DEF ToolsAreSound
  <1> QED BY <1>5, <1>6, <1>7 DEF EInv

(* What leaves the canvas and the files alone. *)
Apart ==
    UNCHANGED <<disk, files, path, map, authored, undo, redo, dirty, written, astray>>

LEMMA ApartKeeps ==
    ASSUME EInv, Apart, ToolsAreSound'
    PROVE  EInv'
  BY DEF EInv, Apart, FilesAreText, CanvasIsMap, WrittenIsOnDisk, CleanIsThere

LEMMA ToolStep ==
    ASSUME EInv,
           \/ ItemModeKey \/ MobModeKey \/ OpenBrowser \/ CloseBrowser
           \/ (\E p \in Paths : MoveSelection(p)) \/ Arm \/ Release
           \/ (\E b \in Brushes : PickBrush(b)) \/ (\E step \in {-1, 1} : Page(step))
           \/ SaveRefused \/ ReviseItem \/ UNCHANGED vars
    PROVE  EInv'
  <1>1. Apart
    BY DEF Apart, ItemModeKey, MobModeKey, OpenBrowser, CloseBrowser, MoveSelection, Arm, Release,
           PickBrush, Page, SaveRefused, ReviseItem, vars, mapVars, fileVars, modeVars
  <1>2. FilesAreText /\ ToolsAreSound
    BY DEF EInv
  <1>3. CASE OpenBrowser
    <2>1. FirstRow \in Paths \/ files = {}
      BY <1>2 DEF FirstRow, FilesAreText
    <2>2. /\ browser' = [active |-> TRUE, unsaved |-> dirty, confirmed |-> FALSE,
                         selected |-> FirstRow]
          /\ files' = files /\ brush' = brush /\ content' = content /\ registry' = registry
      BY <1>3 DEF OpenBrowser, BrowserOpened, fileVars, modeVars
    <2>3. IsList(browser') /\ browser'.selected = FirstRow
      BY <2>2 DEF IsList
    <2> QED BY <1>1, <1>2, <2>1, <2>2, <2>3, ApartKeeps DEF ToolsAreSound
  <1>4. CASE CloseBrowser
    <2>1. browser' = Closed /\ brush' = brush /\ content' = content /\ registry' = registry
      BY <1>4 DEF CloseBrowser, modeVars
    <2>2. IsList(browser') /\ browser'.active = FALSE
      BY <2>1 DEF IsList, Closed
    <2> QED BY <1>1, <1>2, <2>1, <2>2, ApartKeeps DEF ToolsAreSound
  <1>5. CASE \E p \in Paths : MoveSelection(p)
    <2>1. PICK p \in Paths : MoveSelection(p)
      BY <1>5
    <2>2. /\ browser' = [active |-> browser.active, unsaved |-> browser.unsaved,
                         confirmed |-> FALSE, selected |-> p]
          /\ brush' = brush /\ content' = content /\ registry' = registry
      BY <1>2, <2>1 DEF MoveSelection, Moved, ToolsAreSound, IsList, modeVars
    <2>3. IsList(browser') /\ browser'.selected \in Paths
      BY <2>2 DEF IsList
    <2> QED BY <1>1, <1>2, <2>2, <2>3, ApartKeeps DEF ToolsAreSound
  <1>6. CASE Arm
    <2>1. /\ browser' = [active |-> browser.active, unsaved |-> browser.unsaved,
                         confirmed |-> TRUE, selected |-> browser.selected]
          /\ files' = files /\ brush' = brush /\ content' = content /\ registry' = registry
      BY <1>2, <1>6 DEF Arm, ToolsAreSound, IsList, fileVars, modeVars
    <2>2. /\ IsList(browser') /\ browser'.selected = browser.selected
          /\ browser'.active = browser.active
      BY <2>1 DEF IsList
    <2> QED BY <1>1, <1>2, <2>1, <2>2, ApartKeeps DEF ToolsAreSound
  <1>7. CASE \E b \in Brushes : PickBrush(b)
    <2>1. /\ brush' \in Brushes /\ browser' = browser /\ files' = files
          /\ content' = content /\ registry' = registry
      BY <1>7 DEF PickBrush, fileVars, modeVars
    <2> QED BY <1>1, <1>2, <2>1, ApartKeeps DEF ToolsAreSound
  <1>8. CASE ItemModeKey \/ ReviseItem
    <2>1. /\ brush' = brush /\ browser' = browser /\ files' = files
          /\ content' \in {content, content \cup {Revised}} /\ registry' \in {content, registry}
      BY <1>8 DEF ItemModeKey, ReviseItem, fileVars
    <2>2. 0 \notin content'
      BY <1>2, <2>1, MapEditorAssumption DEF ToolsAreSound
    <2> QED BY <1>1, <1>2, <2>1, <2>2, ApartKeeps DEF ToolsAreSound
  <1>9. CASE MobModeKey \/ Release \/ (\E step \in {-1, 1} : Page(step)) \/ SaveRefused
             \/ UNCHANGED vars
    <2>1. /\ brush' = brush /\ browser' = browser /\ files' = files
          /\ content' = content /\ registry' = registry
      BY <1>9 DEF MobModeKey, Release, Page, SaveRefused, vars, fileVars, modeVars
    <2> QED BY <1>1, <1>2, <2>1, ApartKeeps DEF ToolsAreSound
  <1> QED BY <1>3, <1>4, <1>5, <1>6, <1>7, <1>8, <1>9

LEMMA EditorStep ==
    ASSUME EInv, [Next]_vars
    PROVE  EInv'
  <1>1. CASE OpenChosen \/ \E p \in Paths : Restart(p)
    BY <1>1, ShownStep
  <1>2. CASE SaveGood \/ SaveTorn
    BY <1>2, SaveStep
  <1>3. CASE PressLeft \/ PressRight
    BY <1>3, StrokeStep
  <1>4. CASE Undo \/ Redo \/ AddFloor \/ \E c \in DOMAIN map.tiles : Paint(c)
    BY <1>4, ChangeStep
  <1>5. CASE \/ ItemModeKey \/ MobModeKey \/ OpenBrowser \/ CloseBrowser
             \/ (\E p \in Paths : MoveSelection(p)) \/ Arm \/ Release
             \/ (\E b \in Brushes : PickBrush(b)) \/ (\E step \in {-1, 1} : Page(step))
             \/ SaveRefused \/ ReviseItem \/ UNCHANGED vars
    BY <1>5, ToolStep
  <1> QED BY <1>1, <1>2, <1>3, <1>4, <1>5, Zenon DEF Next

LEMMA EditorInit ==
    ASSUME Init
    PROVE  EInv
  <1>1. disk = Disk /\ files \subseteq Paths /\ path = FirstPath
    BY DEF Init
  <1>2. FilesAreText
    BY <1>1, MapEditorAssumption DEF FilesAreText
  <1>3. PICK lines : lines = Disk[FirstPath]
    OBVIOUS
  <1>4. PICK d : d = Loaded(lines, Blockers)
    OBVIOUS
  <1>5. lines \in Seq(Lines) /\ 0 \notin Blockers
    BY <1>3, MapEditorAssumption
  <1>6. IsMap(d.map) /\ IsAuthored(d) /\ d.ok \in BOOLEAN
        /\ (d.ok => IsDoc(d) /\ d = Parse(lines, Blockers))
    BY <1>4, <1>5, LoadedIs
  <1>7. map = d.map /\ authored = AuthoredOf(d) /\ astray = ~d.ok /\ undo = <<>> /\ redo = <<>>
    BY <1>3, <1>4 DEF Init
  <1>8. PICK a : a = AuthoredOf(d)
    OBVIOUS
  <1>9. IsAuthored(a)
    BY <1>6, <1>8 DEF AuthoredOf, IsAuthored
  <1>10. CanvasIsMap
    <2>1. <<>> \in Seq(AllMaps)
      OBVIOUS
    <2> QED BY <1>6, <1>7, <1>8, <1>9, <2>1 DEF CanvasIsMap
  <1>11. CleanIsThere
    <2>1. CASE d.ok
      <3>1. IsDoc(d) /\ d = Parse(lines, Blockers)
        BY <1>6, <2>1
      <3>2. DocOf(d.map, a) = d
        BY <1>8, <3>1, ReadDocOf
      <3>3. CameFrom(lines, DocOf(d.map, a))
        BY <1>5, <3>1, <3>2 DEF CameFrom
      <3>4. disk[path] = lines /\ map = d.map /\ authored = a
        BY <1>1, <1>3, <1>7, <1>8
      <3> QED BY <3>3, <3>4 DEF CleanIsThere
    <2>2. CASE ~d.ok
      BY <1>7, <2>2 DEF CleanIsThere
    <2> QED BY <2>1, <2>2
  <1>12. WrittenIsOnDisk
    <2>1. written = [p \in Paths |-> Unreadable] /\ Unreadable.ok = FALSE
      BY DEF Init, Unreadable
    <2> QED BY <2>1 DEF WrittenIsOnDisk
  <1>13. ToolsAreSound
    <2>1. IsList(browser) /\ browser.active = FALSE
      BY DEF Init, IsList, Closed
    <2>2. brush \in Brushes /\ content = Blockers /\ registry = Blockers
      BY DEF Init
    <2> QED BY <1>5, <2>1, <2>2 DEF ToolsAreSound
  <1> QED BY <1>2, <1>10, <1>11, <1>12, <1>13 DEF EInv

LEMMA EInvHolds == Spec => []EInv
  <1>1. Init => EInv
    BY EditorInit
  <1>2. EInv /\ [Next]_vars => EInv'
    BY EditorStep
  <1> QED BY <1>1, <1>2, PTL DEF Spec

----------------------------------------------------------------------------

(* Whatever the last good save wrote into a file, and however items have   *)
(* come to block since, opening the file shows it again: its grounds and   *)
(* objects, derived as they now block, its spawn, mobs, nests and portals  *)
(* (write_text_map and parse_text_map, map_io.cpp), for any map that the   *)
(* format can carry and anything done to it before.                        *)
THEOREM EditorReopensAsSaved == Spec => []ReopensAsSaved
  <1>1. ASSUME EInv PROVE ReopensAsSaved
    <2>1. SUFFICES ASSUME NEW p \in Paths, written[p].ok, Legible(written[p], registry)
                   PROVE  LET parsed == Parse(disk[p], registry)
                          IN  /\ Shows(parsed, written[p], registry)
                              /\ parsed.map = Redrawn(parsed.map, registry)
      BY DEF ReopensAsSaved
    <2>2. PICK doc : doc = written[p]
      OBVIOUS
    <2>3. PICK R : R = registry
      OBVIOUS
    <2>4. IsDoc(doc) /\ disk[p] = Write(doc) /\ 0 \notin R /\ Legible(doc, R)
      BY <1>1, <2>1, <2>2, <2>3 DEF EInv, WrittenIsOnDisk, ToolsAreSound
    <2>5. PICK e : e = Parse(Write(doc), R)
      OBVIOUS
    <2>6. /\ e.ok = TRUE /\ e.map = Redrawn(doc.map, R) /\ e.spawn = doc.spawn
          /\ e.monsters = doc.monsters /\ e.spawners = doc.spawners /\ e.portals = doc.portals
      <3>1. Reproduces(Parse(Write(doc), R), doc, R)
        BY <2>4, RoundTrip
      <3> QED BY <2>5, <3>1 DEF Reproduces
    <2>7. Redrawn(e.map, R) = Redrawn(doc.map, R)
      BY <2>4, <2>6, RedrawnTwice DEF IsDoc
    <2>8. Shows(e, doc, R) /\ e.map = Redrawn(e.map, R)
      BY <2>6, <2>7 DEF Shows, AuthoredOf
    <2> QED BY <2>2, <2>3, <2>4, <2>5, <2>8
  <1> QED BY <1>1, EInvHolds, PTL

(* A title without a star means that opening the file shows what is on the *)
(* canvas, whatever was drawn, undone, grown, saved or opened since, unless *)
(* a torn save or an unreadable file has put it astray (the editor's dirty *)
(* flag, main.cpp).                                                        *)
THEOREM EditorCleanIsStored == Spec => []CleanMeansStored
  <1>1. ASSUME EInv PROVE CleanMeansStored
    <2>1. SUFFICES ASSUME ~dirty, ~astray, Legible(Doc, registry)
                   PROVE  Shows(Parse(disk[path], registry), Doc, registry)
      BY DEF CleanMeansStored
    <2>2. PICK doc : doc = Doc
      OBVIOUS
    <2>3. PICK R : R = registry
      OBVIOUS
    <2>4. PICK lines : lines = disk[path]
      OBVIOUS
    <2>5. PICK e : e = Parse(lines, R)
      OBVIOUS
    <2>6. doc = DocOf(map, authored)
      BY <2>2, DocIs
    <2>7. IsDoc(doc) /\ doc.ok = TRUE /\ 0 \notin R /\ Legible(doc, R) /\ CameFrom(lines, doc)
      BY <1>1, <2>1, <2>2, <2>3, <2>4, <2>6, DocOfIs
         DEF EInv, CanvasIsMap, ToolsAreSound, CleanIsThere
    <2>8. lines \in Seq(Lines)
      BY <1>1, <2>4 DEF EInv, FilesAreText
    <2>9. /\ e.ok = TRUE /\ e.map = Redrawn(doc.map, R) /\ e.spawn = doc.spawn
          /\ e.monsters = doc.monsters /\ e.spawners = doc.spawners /\ e.portals = doc.portals
      <3>1. CASE lines = Write(doc)
        <4>1. Reproduces(Parse(Write(doc), R), doc, R)
          BY <2>7, RoundTrip
        <4> QED BY <2>5, <3>1, <4>1 DEF Reproduces
      <3>2. CASE \E B : 0 \notin B /\ Parse(lines, B) = doc
        <4>1. PICK B : 0 \notin B /\ doc = Parse(lines, B)
          BY <3>2
        <4>2. PortalsStand([doc EXCEPT !.map = Redrawn(doc.map, R)])
          BY <2>7 DEF Legible
        <4>3. /\ e.ok /\ e.map = Redrawn(doc.map, R) /\ e.spawn = doc.spawn
              /\ e.monsters = doc.monsters /\ e.spawners = doc.spawners /\ e.portals = doc.portals
          BY <2>5, <2>7, <2>8, <4>1, <4>2, ReadUnderOthers
        <4>4. e.ok = TRUE
          BY <2>5, <2>8, <2>7, <4>3, ParsedIsDoc DEF IsDoc
        <4> QED BY <4>3, <4>4
      <3> QED BY <2>7, <3>1, <3>2 DEF CameFrom
    <2>10. Redrawn(e.map, R) = Redrawn(doc.map, R)
      BY <2>7, <2>9, RedrawnTwice DEF IsDoc
    <2>11. Shows(e, doc, R)
      BY <2>9, <2>10 DEF Shows, AuthoredOf
    <2> QED BY <2>2, <2>3, <2>4, <2>5, <2>11
  <1> QED BY <1>1, EInvHolds, PTL
=============================================================================
