---------------------------- MODULE ClientProofs ----------------------------
(***************************************************************************)
(* The two sessions of a client, for any map, crowd, limits, items, kits,  *)
(* loot tables and powers.                                                 *)
(*                                                                         *)
(* RemoteView: a client that is turned away is told why before its link is *)
(* closed, and every chunk the server marks as sent reaches the map of its *)
(* client.                                                                 *)
(*                                                                         *)
(* Hunt: a fallen player stays down until it respawns, no item is lost or  *)
(* doubled, and what is looted is what was clicked.                        *)
(***************************************************************************)
EXTENDS Hunt, RemoteView, SequenceTheorems, FiniteSetTheorems, WellFoundedInduction, TLAPS

-----------------------------------------------------------------------------
(* Induction, least numbers and loops over a sequence.                     *)

(* A set that holds zero and with a number the next one holds them all.    *)
LEMMA Induction ==
    ASSUME NEW S, 0 \in S, \A n \in Nat : n \in S => n + 1 \in S
    PROVE  \A n \in Nat : n \in S
  <1> DEFINE Rest == Nat \ S
             Less == OpToRel(<, Nat)
  <1>1. SUFFICES ASSUME Rest # {} PROVE FALSE
    OBVIOUS
  <1>2. \E n \in Rest : \A m \in Rest : ~ (<<m, n>> \in Less)
    <2>1. IsWellFoundedOn(Less, Nat)
      BY NatLessThanWellFounded
    <2>2. Rest \subseteq Nat
      OBVIOUS
    <2> HIDE DEF Rest, Less
    <2> QED BY <1>1, <2>1, <2>2, WFMin
  <1> HIDE DEF Less
  <1>3. PICK n \in Rest : \A m \in Rest : ~ (<<m, n>> \in Less)
    BY <1>2
  <1>4. n \in Nat \ {0} /\ n - 1 \in Nat /\ n - 1 < n
    BY <1>3
  <1>5. <<n - 1, n>> \in Less
    BY <1>4 DEF Less, OpToRel
  <1>6. n - 1 \in S
    BY <1>3, <1>4, <1>5
  <1>7. (n - 1) + 1 \in S
    BY <1>4, <1>6
  <1> QED BY <1>3, <1>4, <1>7

(* A set of numbers that is not empty has a least one.                     *)
LEMMA LeastOf ==
    ASSUME NEW S \in SUBSET Nat, S # {}
    PROVE  Min(S) \in S /\ \A x \in S : Min(S) <= x
  <1> DEFINE Less == OpToRel(<, Nat)
  <1>1. PICK n \in S : \A m \in S : ~ (<<m, n>> \in Less)
    <2>1. IsWellFoundedOn(Less, Nat)
      BY NatLessThanWellFounded
    <2> HIDE DEF Less
    <2> QED BY <2>1, WFMin
  <1>2. \A m \in S : n =< m
    <2>1. \A m \in S : ~ (m < n) /\ m \in Nat /\ n \in Nat
      BY <1>1 DEF OpToRel
    <2> QED BY <2>1
  <1>3. \E x \in S : \A y \in S : x =< y
    BY <1>2
  <1> QED BY <1>3 DEF Min

(* A loop over 1..n with a value of S exists.                              *)
Loops(q, a, step, n) == q[0] = a /\ \A k \in 1..n : q[k] = step[k][q[k - 1]]

LEMMA LoopExists ==
    ASSUME NEW S, NEW a \in S, NEW n \in Nat, NEW step \in [1..n -> [S -> S]]
    PROVE  \E q \in [0..n -> S] : Loops(q, a, step, n)
  <1> DEFINE Run(q, m) == q[0] = a /\ \A k \in 1..m : q[k] = step[k][q[k - 1]]
             All == {m \in Nat : m <= n => \E q \in [0..m -> S] : Run(q, m)}
  <1>1. 0 \in All
    <2> DEFINE z == [k \in 0..0 |-> a]
    <2>1. z \in [0..0 -> S] /\ Run(z, 0)
      OBVIOUS
    <2> HIDE DEF z, Run
    <2> QED BY <2>1
  <1>2. ASSUME NEW m \in Nat, m \in All PROVE m + 1 \in All
    <2>1. SUFFICES ASSUME m + 1 <= n PROVE \E q \in [0..(m + 1) -> S] : Run(q, m + 1)
      OBVIOUS
    <2>2. PICK s \in [0..m -> S] : Run(s, m)
      BY <1>2, <2>1
    <2>3. m + 1 \in 1..n /\ m \in 0..m
      BY <2>1
    <2> DEFINE next == step[m + 1][s[m]]
               t == [k \in 0..(m + 1) |-> IF k = m + 1 THEN next ELSE s[k]]
    <2>4. next \in S
      BY <2>2, <2>3
    <2> HIDE DEF next
    <2>5. t \in [0..(m + 1) -> S]
      BY <2>4
    <2>6. ASSUME NEW k \in 1..(m + 1) PROVE t[k] = step[k][t[k - 1]]
      <3>1. CASE k = m + 1
        <4>1. t[k] = next /\ t[k - 1] = s[m]
          BY <3>1
        <4> HIDE DEF t
        <4> QED BY <3>1, <4>1 DEF next
      <3>2. CASE k # m + 1
        <4>1. k \in 1..m /\ t[k] = s[k] /\ t[k - 1] = s[k - 1]
          BY <3>2
        <4> HIDE DEF t
        <4> QED BY <2>2, <4>1
      <3> QED BY <3>1, <3>2
    <2>7. t[0] = a
      BY <2>2
    <2> HIDE DEF t
    <2> QED BY <2>5, <2>6, <2>7
  <1> HIDE DEF All
  <1>3. n \in All
    BY <1>1, <1>2, Induction
  <1> QED BY <1>3 DEF All, Loops

-----------------------------------------------------------------------------
(* Sums of sequences. *)
LEMMA TotalSums ==
    ASSUME NEW f \in Seq(Int)
    PROVE  \E p : /\ p[0] = 0 /\ Total(f) = p[Len(f)]
                  /\ \A k \in 1..Len(f) : p[k] = p[k - 1] + f[k]
                  /\ \A k \in 0..Len(f) : p[k] \in Int
  <1> DEFINE n == Len(f)
             Running(q) == q = [k \in 0..n |-> IF k = 0 THEN 0 ELSE q[k - 1] + f[k]]
             step == [k \in 1..n |-> [x \in Int |-> x + f[k]]]
             p == CHOOSE q : Running(q)
  <1>1. n \in Nat /\ \A k \in 1..n : f[k] \in Int
    OBVIOUS
  <1>3. Total(f) = p[n]
    BY DEF Total
  <1> HIDE DEF n
  <1>2. Running(p)
    <2>1. step \in [1..n -> [Int -> Int]]
      BY <1>1
    <2>5. \A k \in 1..n : \A x \in Int : step[k][x] = x + f[k]
      OBVIOUS
    <2> HIDE DEF step
    <2>2. PICK q \in [0..n -> Int] : Loops(q, 0, step, n)
      <3>1. 0 \in Int /\ n \in Nat
        BY <1>1
      <3> QED BY <2>1, <3>1, LoopExists
    <2>3. \A k \in 0..n : q[k] = IF k = 0 THEN 0 ELSE q[k - 1] + f[k]
      <3>1. ASSUME NEW k \in 1..n PROVE q[k] = q[k - 1] + f[k]
        <4>1. q[k - 1] \in Int
          BY <1>1
        <4> QED BY <2>2, <2>5, <4>1 DEF Loops
      <3>2. q[0] = 0
        BY <2>2 DEF Loops
      <3>3. \A k \in 0..n : k = 0 \/ k \in 1..n
        BY <1>1
      <3> QED BY <3>1, <3>2, <3>3
    <2>4. Running(q)
      BY <2>3
    <2> HIDE DEF Running
    <2> QED BY <2>4
  <1> HIDE DEF p
  <1>4. \A k \in 0..n : p[k] = IF k = 0 THEN 0 ELSE p[k - 1] + f[k]
    BY <1>2
  <1>5. p[0] = 0 /\ \A k \in 1..n : p[k] = p[k - 1] + f[k]
    <2>1. 0 \in 0..n /\ \A k \in 1..n : k \in 0..n /\ k # 0
      BY <1>1
    <2> QED BY <1>4, <2>1
  <1> DEFINE Fine == {k \in Nat : k <= n => p[k] \in Int}
  <1>6. 0 \in Fine
    BY <1>5
  <1>7. ASSUME NEW k \in Nat, k \in Fine PROVE k + 1 \in Fine
    <2>1. SUFFICES ASSUME k + 1 <= n PROVE p[k + 1] \in Int
      OBVIOUS
    <2>2. k + 1 \in 1..n /\ (k + 1) - 1 = k /\ k <= n
      BY <1>1, <2>1
    <2> QED BY <1>1, <1>5, <1>7, <2>2
  <1>8. \A k \in Nat : k \in Fine
    <2> HIDE DEF Fine
    <2> QED BY <1>6, <1>7, Induction
  <1>9. \A k \in 0..n : p[k] \in Int
    BY <1>8
  <1> QED BY <1>3, <1>5, <1>9 DEF n

(* Sums of integers are integers.                                          *)
LEMMA TotalInt ==
    ASSUME NEW f \in Seq(Int)
    PROVE  Total(f) \in Int
  <1>1. Len(f) \in 0..Len(f)
    OBVIOUS
  <1> QED BY <1>1, TotalSums

(* The sum of no numbers is zero.                                          *)
LEMMA TotalEmpty ==
    ASSUME NEW f \in Seq(Int), Len(f) = 0
    PROVE  Total(f) = 0
  BY TotalSums

(* Sequences that agree up to some place have the same sums up to there.   *)
Sums(p, f, n) == p[0] = 0 /\ \A k \in 1..n : p[k] = p[k - 1] + f[k]

Alike(f, g, n) == \A k \in 1..n : f[k] = g[k]

LEMMA SumsAgree ==
    ASSUME NEW m \in Nat, NEW p, NEW q, NEW f, NEW g,
           Sums(p, f, m), Sums(q, g, m), Alike(f, g, m)
    PROVE  p[m] = q[m]
  <1> DEFINE Same == {k \in Nat : k <= m => p[k] = q[k]}
  <1>1. 0 \in Same
    BY DEF Sums
  <1>2. ASSUME NEW k \in Nat, k \in Same PROVE k + 1 \in Same
    <2>1. SUFFICES ASSUME k + 1 <= m PROVE p[k + 1] = q[k + 1]
      OBVIOUS
    <2>2. k + 1 \in 1..m /\ (k + 1) - 1 = k /\ k <= m
      BY <2>1
    <2> QED BY <1>2, <2>2 DEF Sums, Alike
  <1>3. \A k \in Nat : k \in Same
    <2> HIDE DEF Same
    <2> QED BY <1>1, <1>2, Induction
  <1> QED BY <1>3

(* One number more at the end.                                             *)
LEMMA TotalAppend ==
    ASSUME NEW f \in Seq(Int), NEW g \in Seq(Int), Len(g) = Len(f) + 1,
           \A k \in 1..Len(f) : g[k] = f[k]
    PROVE  Total(g) = Total(f) + g[Len(g)]
  <1> DEFINE n == Len(f)
  <1>1. n \in Nat /\ Len(g) = n + 1
    OBVIOUS
  <1>2. PICK p : /\ p[0] = 0 /\ Total(f) = p[n]
                 /\ \A k \in 1..n : p[k] = p[k - 1] + f[k]
    BY TotalSums
  <1>3. PICK q : /\ q[0] = 0 /\ Total(g) = q[n + 1]
                 /\ \A k \in 1..(n + 1) : q[k] = q[k - 1] + g[k]
    BY <1>1, TotalSums
  <1>4. \A k \in 1..n : g[k] = f[k]
    OBVIOUS
  <1> HIDE DEF n
  <1>5. \A k \in 1..n : q[k] = q[k - 1] + g[k]
    BY <1>1, <1>3
  <1>6. p[n] = q[n]
    <2>1. Sums(p, f, n) /\ Sums(q, g, n) /\ Alike(f, g, n)
      BY <1>2, <1>3, <1>4, <1>5 DEF Sums, Alike
    <2> QED BY <1>1, <2>1, SumsAgree
  <1>7. n + 1 \in 1..(n + 1) /\ (n + 1) - 1 = n
    BY <1>1
  <1>8. q[n + 1] = q[n] + g[n + 1]
    BY <1>3, <1>7
  <1> QED BY <1>1, <1>2, <1>3, <1>6, <1>8

(* One number replaced. *)
LEMMA TotalChanged ==
    ASSUME NEW f \in Seq(Int), NEW g \in Seq(Int), Len(g) = Len(f), NEW m \in 1..Len(f),
           \A k \in 1..Len(f) : k # m => g[k] = f[k]
    PROVE  Total(g) = Total(f) - f[m] + g[m]
  <1> DEFINE n == Len(f)
  <1>1. n \in Nat /\ Len(g) = n /\ m \in 1..n /\ \A k \in 1..n : f[k] \in Int /\ g[k] \in Int
    OBVIOUS
  <1>2. PICK p : /\ p[0] = 0 /\ Total(f) = p[n]
                 /\ \A k \in 1..n : p[k] = p[k - 1] + f[k]
                 /\ \A k \in 0..n : p[k] \in Int
    BY TotalSums
  <1>3. PICK q : /\ q[0] = 0 /\ Total(g) = q[n]
                 /\ \A k \in 1..n : q[k] = q[k - 1] + g[k]
                 /\ \A k \in 0..n : q[k] \in Int
    BY <1>1, TotalSums
  <1>4. \A k \in 1..n : k # m => g[k] = f[k]
    OBVIOUS
  <1> HIDE DEF n
  <1>5. p[m - 1] = q[m - 1]
    <2>1. m - 1 \in Nat /\ \A k \in 1..(m - 1) : k \in 1..n /\ k # m
      BY <1>1
    <2>2. /\ \A k \in 1..(m - 1) : p[k] = p[k - 1] + f[k]
          /\ \A k \in 1..(m - 1) : q[k] = q[k - 1] + g[k]
          /\ \A k \in 1..(m - 1) : f[k] = g[k]
      BY <1>2, <1>3, <1>4, <2>1
    <2>3. p[0] = q[0]
      BY <1>2, <1>3
    <2> DEFINE j == m - 1
    <2>4. j \in Nat
      BY <2>1
    <2>5. \A k \in 1..j : p[k] = p[k - 1] + f[k]
      BY <2>2
    <2>6. \A k \in 1..j : q[k] = q[k - 1] + g[k]
      BY <2>2
    <2>7. \A k \in 1..j : f[k] = g[k]
      BY <2>2
    <2>8. Sums(p, f, j) /\ Sums(q, g, j) /\ Alike(f, g, j)
      BY <1>2, <1>3, <2>5, <2>6, <2>7 DEF Sums, Alike
    <2> HIDE DEF j
    <2>9. p[j] = q[j]
      BY <2>4, <2>8, SumsAgree
    <2> QED BY <2>9 DEF j
  <1> DEFINE d == g[m] - f[m]
             Apart == {j \in Nat : m + j <= n => q[m + j] = p[m + j] + d}
  <1>6. 0 \in Apart
    <2>1. m - 1 \in 0..n /\ m \in 0..n /\ m + 0 = m
      BY <1>1
    <2>2. p[m] = p[m - 1] + f[m] /\ q[m] = p[m - 1] + g[m]
      BY <1>1, <1>2, <1>3, <1>5
    <2> QED BY <1>1, <1>2, <1>3, <2>1, <2>2
  <1>7. ASSUME NEW j \in Nat, j \in Apart PROVE j + 1 \in Apart
    <2>1. SUFFICES ASSUME m + (j + 1) <= n PROVE q[m + (j + 1)] = p[m + (j + 1)] + d
      OBVIOUS
    <2> DEFINE k == m + (j + 1)
    <2>2. k \in 1..n /\ k - 1 = m + j /\ k # m /\ m + j <= n /\ m + j \in 0..n
      BY <1>1, <2>1
    <2> HIDE DEF k
    <2>3. q[k] = q[k - 1] + g[k] /\ p[k] = p[k - 1] + f[k] /\ g[k] = f[k]
      BY <1>2, <1>3, <1>4, <2>2
    <2>4. q[k - 1] = p[k - 1] + d
      BY <1>7, <2>2
    <2>5. f[k] \in Int /\ p[k - 1] \in Int /\ d \in Int
      BY <1>1, <1>2, <2>2
    <2> HIDE DEF d
    <2>6. q[k] = p[k] + d
      BY <2>3, <2>4, <2>5
    <2> QED BY <2>6 DEF k
  <1>8. \A j \in Nat : j \in Apart
    <2> HIDE DEF Apart
    <2> QED BY <1>6, <1>7, Induction
  <1>9. n - m \in Nat /\ m + (n - m) = n
    BY <1>1
  <1>10. q[n] = p[n] + d
    <2>1. n - m \in Apart
      <3> HIDE DEF Apart
      <3> QED BY <1>8, <1>9
    <2>2. n <= n
      BY <1>1
    <2> HIDE DEF d
    <2> QED BY <1>9, <2>1, <2>2
  <1>11. n \in 0..n
    BY <1>1
  <1> QED BY <1>1, <1>2, <1>3, <1>10, <1>11

(* One number left out. *)
LEMMA TotalWithout ==
    ASSUME NEW f \in Seq(Int), NEW g \in Seq(Int), NEW m \in 1..Len(f), Len(g) = Len(f) - 1,
           \A k \in 1..Len(g) : g[k] = IF k < m THEN f[k] ELSE f[k + 1]
    PROVE  Total(g) = Total(f) - f[m]
  <1> DEFINE n == Len(f)
  <1>1. n \in Nat /\ Len(g) = n - 1 /\ m \in 1..n /\ \A k \in 1..n : f[k] \in Int
    OBVIOUS
  <1>2. PICK p : /\ p[0] = 0 /\ Total(f) = p[n]
                 /\ \A k \in 1..n : p[k] = p[k - 1] + f[k]
                 /\ \A k \in 0..n : p[k] \in Int
    BY TotalSums
  <1>3. PICK q : /\ q[0] = 0 /\ Total(g) = q[n - 1]
                 /\ \A k \in 1..(n - 1) : q[k] = q[k - 1] + g[k]
                 /\ \A k \in 0..(n - 1) : q[k] \in Int
    BY <1>1, TotalSums
  <1>4. \A k \in 1..(n - 1) : g[k] = IF k < m THEN f[k] ELSE f[k + 1]
    BY <1>1
  <1> HIDE DEF n
  <1>5. p[m - 1] = q[m - 1]
    <2>1. m - 1 \in Nat /\ \A k \in 1..(m - 1) : k \in 1..n /\ k < m /\ k \in 1..(n - 1)
      BY <1>1
    <2>2. /\ \A k \in 1..(m - 1) : p[k] = p[k - 1] + f[k]
          /\ \A k \in 1..(m - 1) : q[k] = q[k - 1] + g[k]
          /\ \A k \in 1..(m - 1) : f[k] = g[k]
      BY <1>2, <1>3, <1>4, <2>1
    <2>3. p[0] = q[0]
      BY <1>2, <1>3
    <2> DEFINE j == m - 1
    <2>4. j \in Nat
      BY <2>1
    <2>5. \A k \in 1..j : p[k] = p[k - 1] + f[k]
      BY <2>2
    <2>6. \A k \in 1..j : q[k] = q[k - 1] + g[k]
      BY <2>2
    <2>7. \A k \in 1..j : f[k] = g[k]
      BY <2>2
    <2>8. Sums(p, f, j) /\ Sums(q, g, j) /\ Alike(f, g, j)
      BY <1>2, <1>3, <2>5, <2>6, <2>7 DEF Sums, Alike
    <2> HIDE DEF j
    <2>9. p[j] = q[j]
      BY <2>4, <2>8, SumsAgree
    <2> QED BY <2>9 DEF j
  <1> DEFINE d == f[m]
             Apart == {j \in Nat : m + j <= n => q[m + j - 1] = p[m + j] - d}
  <1>6. 0 \in Apart
    <2>1. m - 1 \in 0..n /\ m \in 0..n /\ m + 0 = m /\ m + 0 - 1 = m - 1
      BY <1>1
    <2>2. p[m] = p[m - 1] + f[m]
      BY <1>1, <1>2
    <2> QED BY <1>1, <1>2, <1>5, <2>1, <2>2
  <1>7. ASSUME NEW j \in Nat, j \in Apart PROVE j + 1 \in Apart
    <2>1. SUFFICES ASSUME m + (j + 1) <= n PROVE q[m + (j + 1) - 1] = p[m + (j + 1)] - d
      OBVIOUS
    <2> DEFINE k == m + j
    <2>2. /\ k \in 1..(n - 1) /\ k + 1 \in 1..n /\ ~(k < m) /\ k <= n /\ k \in 0..n
          /\ m + (j + 1) - 1 = k /\ m + (j + 1) = k + 1 /\ (k + 1) - 1 = k /\ m + j - 1 = k - 1
      BY <1>1, <2>1
    <2>3. q[k - 1] = p[k] - d
      BY <1>7, <2>2
    <2> HIDE DEF k
    <2>4. q[k] = q[k - 1] + f[k + 1] /\ p[k + 1] = p[k] + f[k + 1]
      BY <1>2, <1>3, <1>4, <2>2
    <2>5. f[k + 1] \in Int /\ p[k] \in Int /\ d \in Int
      BY <1>1, <1>2, <2>2
    <2> HIDE DEF d
    <2>6. q[k] = p[k + 1] - d
      BY <2>3, <2>4, <2>5
    <2> QED BY <2>2, <2>6
  <1>8. \A j \in Nat : j \in Apart
    <2> HIDE DEF Apart
    <2> QED BY <1>6, <1>7, Induction
  <1>9. n - m \in Nat /\ m + (n - m) = n /\ m + (n - m) - 1 = n - 1
    BY <1>1
  <1>10. q[n - 1] = p[n] - d
    <2>1. n - m \in Apart
      <3> HIDE DEF Apart
      <3> QED BY <1>8, <1>9
    <2>2. n <= n
      BY <1>1
    <2> HIDE DEF d
    <2> QED BY <1>9, <2>1, <2>2
  <1> QED BY <1>2, <1>3, <1>10

-----------------------------------------------------------------------------
(* The reason is under way from the moment of the refusal until it is      *)
(* heard; and there is one hello in a connection, its first message.       *)

OneHello ==
    link = "up" =>
        IF server = "fresh"
        THEN /\ \E good \in BOOLEAN : up = <<Hello(good)>>
             /\ down = <<>> /\ client = "handshaking" /\ ~ready
        ELSE up \in Seq({Command})

ReasonUnderWay ==
    link = "up" /\ server = "refused" =>
        \/ down = <<Reject>> /\ client = "handshaking"
        \/ down = <<>> /\ client = "rejected"

HeardInv ==
    /\ ready \in BOOLEAN /\ (client = "connecting" => ~ready)
    /\ link # "up" => down = <<>>
    /\ OneHello
    /\ ReasonUnderWay
    /\ ReasonIsHeard

(* A command at the head of the channel is no hello, and leaves commands.  *)
LEMMA CommandIsNoHello ==
    ASSUME up \in Seq({Command}), up # <<>>
    PROVE  Head(up).kind = "command" /\ Tail(up) \in Seq({Command})
  <1>1. Head(up) = Command /\ Tail(up) \in Seq({Command})
    OBVIOUS
  <1> QED BY <1>1 DEF Command

(* A command queued behind commands.                                       *)
LEMMA MoreCommands ==
    ASSUME up \in Seq({Command})
    PROVE  Queue(up, <<Command>>) \in Seq({Command})
  <1>1. <<Command>> \in Seq({Command})
    OBVIOUS
  <1>2. up \o <<Command>> \in Seq({Command})
    BY <1>1
  <1> QED BY <1>2 DEF Queue

(* An answered hello keeps the reason of a refusal under way.              *)
LEMMA HelloHandled ==
    ASSUME HeardInv, HandleHello
    PROVE  HeardInv'
  <1>1. link = "up" /\ up # <<>> /\ Head(up).kind = "hello"
    BY DEF HandleHello
  <1>2. server = "fresh"
    BY <1>1, CommandIsNoHello DEF HeardInv, OneHello
  <1>3. PICK good \in BOOLEAN : up = <<Hello(good)>>
    BY <1>1, <1>2 DEF HeardInv, OneHello
  <1>4. down = <<>> /\ client = "handshaking" /\ ~ready
    BY <1>1, <1>2 DEF HeardInv, OneHello
  <1>5. /\ link' = link /\ client' = client /\ ready' = ready
        /\ up' = Tail(up)
        /\ \/ server' = "in"
           \/ server' = "refused" /\ down' = Append(down, Reject)
    BY DEF HandleHello, clientVars
  <1>6. up' \in Seq({Command})
    <2>1. PICK hello : hello = Hello(good)
      OBVIOUS
    <2>2. Tail(<<hello>>) = <<>>
      OBVIOUS
    <2>3. up' = <<>>
      BY <1>3, <1>5, <2>1, <2>2
    <2>4. <<>> \in Seq({Command})
      OBVIOUS
    <2> QED BY <2>3, <2>4, Zenon
  <1>7. server' = "refused" => down' = <<Reject>>
    BY <1>4, <1>5
  <1> QED
    BY <1>1, <1>4, <1>5, <1>6, <1>7 DEF HeardInv, OneHello, ReasonUnderWay, ReasonIsHeard

(* A message received keeps the reason under way, or has told it.          *)
LEMMA ReliableReceived ==
    ASSUME HeardInv, ReceiveReliable
    PROVE  HeardInv'
  <1>1. /\ link = "up" /\ down # <<>> /\ Alive
        /\ down' = Tail(down)
        /\ link' = link /\ server' = server /\ up' = up
    BY DEF ReceiveReliable, serverVars
  <1>2. server # "fresh" /\ up \in Seq({Command})
    BY <1>1 DEF HeardInv, OneHello
  <1>3. /\ ready' \in BOOLEAN
        /\ client' = "connecting" => ready' = ready /\ client = "connecting"
    BY DEF ReceiveReliable, ApplyWelcome, ApplyChunk, ApplyReject, HeardInv
  <1>4. server = "refused" => down' = <<>> /\ client' = "rejected"
    <2>1. SUFFICES ASSUME server = "refused"
                   PROVE  down' = <<>> /\ client' = "rejected"
      OBVIOUS
    <2>2. down = <<Reject>>
      BY <1>1, <2>1 DEF HeardInv, ReasonUnderWay
    <2>3. Tail(down) = <<>> /\ Head(down) = Reject
      BY <2>2
    <2>4. Head(down).kind = "reject"
      BY <2>3 DEF Reject
    <2>5. client' = "rejected"
      BY <2>4 DEF ReceiveReliable, ApplyReject
    <2> QED BY <1>1, <2>3, <2>5
  <1> QED
    BY <1>1, <1>2, <1>3, <1>4 DEF HeardInv, OneHello, ReasonUnderWay, ReasonIsHeard

(* HeardInv is inductive.                                                  *)
LEMMA StepHeard == HeardInv /\ [Next]_vars => HeardInv'
  <1> SUFFICES ASSUME HeardInv, [Next]_vars PROVE HeardInv'
    OBVIOUS
  <1> USE DEF HeardInv, OneHello, ReasonUnderWay, ReasonIsHeard
  <1>1. ASSUME NEW good \in BOOLEAN, Connect(good) PROVE HeardInv'
    <2>1. /\ link' = "up" /\ server' = "fresh" /\ client' = "handshaking"
          /\ up' = <<Hello(good)>> /\ ready' = ready /\ down' = down
          /\ link = "none" /\ client = "connecting"
      BY <1>1 DEF Connect
    <2> QED BY <2>1
  <1>2. CASE Fail
    BY <1>2 DEF Fail, Cut, serverVars, clientVars
  <1>3. CASE DisconnectLater
    BY <1>3 DEF DisconnectLater, Cut, serverVars, clientVars
  <1>4. CASE PeerGone
    BY <1>4 DEF PeerGone, clientVars
  <1>5. CASE ServerGone
    BY <1>5 DEF ServerGone, serverVars, Alive
  <1>6. CASE Redial
    BY <1>6 DEF Redial, NewSession, serverVars
  <1>7. CASE HandleHello
    BY <1>7, HelloHandled
  <1>8. CASE HandleCommand
    <2>1. /\ Head(up).kind = "command" /\ up # <<>> /\ up' = Tail(up)
          /\ link' = link /\ server' = server /\ client' = client /\ ready' = ready /\ down' = down
      BY <1>8 DEF HandleCommand, serverVars, clientVars
    <2>2. \A good \in BOOLEAN : up # <<Hello(good)>>
      BY <2>1 DEF Hello
    <2> QED BY <2>1, <2>2, CommandIsNoHello
  <1>9. ASSUME NEW q \in Places, Move(q) PROVE HeardInv'
    BY <1>9 DEF Move, clientVars
  <1>10. CASE SnapshotTick
    <2>1. /\ link' = link /\ server' = server /\ up' = up /\ client' = client /\ ready' = ready
          /\ down' # down => server = "in" /\ down' = Queue(down, Streamed.out)
      BY <1>10 DEF SnapshotTick, clientVars
    <2>2. link # "up" => down' = down
      BY <2>1 DEF Queue
    <2>3. server # "in" => down' = down
      BY <2>1
    <2> QED BY <2>1, <2>2, <2>3
  <1>11. CASE Request
    <2>1. /\ ready /\ up' = Queue(up, <<Command>>)
          /\ link' = link /\ server' = server /\ client' = client /\ ready' = ready /\ down' = down
      BY <1>11 DEF Request, serverVars, clientVars
    <2> QED BY <2>1, MoreCommands
  <1>12. CASE ReceiveReliable
    BY <1>12, ReliableReceived
  <1>13. CASE ReceiveSnapshot \/ LoseSnapshot \/ UNCHANGED vars
    BY <1>13 DEF ReceiveSnapshot, LoseSnapshot, vars, serverVars, clientVars
  <1> QED
    BY <1>1, <1>2, <1>3, <1>4, <1>5, <1>6, <1>7, <1>8, <1>9, <1>10, <1>11, <1>12, <1>13 DEF Next

(* A client that sees its link closed by the server, and not by a failure  *)
(* of the network, has been given the reason: the rejection is queued      *)
(* before disconnect_later and nothing else can come in its place          *)
(* (handle_hello, ITransport::disconnect).                                 *)
THEOREM RejectedAreTold == Spec => []ReasonIsHeard
  <1>1. Init => HeardInv
    BY DEF Init, HeardInv, OneHello, ReasonUnderWay, ReasonIsHeard
  <1>2. HeardInv => ReasonIsHeard
    BY DEF HeardInv
  <1> QED BY <1>1, <1>2, StepHeard, PTL DEF Spec

-----------------------------------------------------------------------------
(* What stream_chunks has done after the first k chunks. *)
AfterChunks(around, s0, after, n) ==
    after = [k \in 0..n |-> IF k = 0 THEN s0 ELSE StreamChunk(after[k - 1], around[k])]

(* The loop of stream_chunks over the chunks around a place exists.        *)
LEMMA StreamingExists ==
    ASSUME NEW around, NEW s0, NEW n \in Nat
    PROVE  \E after : AfterChunks(around, s0, after, n)
  <1> DEFINE All == {m \in Nat : \E after : AfterChunks(around, s0, after, m)}
  <1>1. 0 \in All
    <2> DEFINE z == [k \in 0..0 |-> s0]
    <2>1. AfterChunks(around, s0, z, 0)
      BY DEF AfterChunks
    <2> QED BY <2>1
  <1>2. ASSUME NEW m \in Nat, m \in All PROVE m + 1 \in All
    <2>1. PICK s : AfterChunks(around, s0, s, m)
      BY <1>2
    <2> DEFINE t == [k \in 0..(m + 1) |->
                        IF k = m + 1 THEN StreamChunk(s[m], around[m + 1]) ELSE s[k]]
    <2>2. ASSUME NEW k \in 0..(m + 1)
          PROVE  t[k] = IF k = 0 THEN s0 ELSE StreamChunk(t[k - 1], around[k])
      <3>1. CASE k = m + 1
        BY <3>1
      <3>2. CASE k # m + 1
        <4>1. k \in 0..m /\ t[k] = s[k]
          BY <3>2
        <4>2. s[k] = IF k = 0 THEN s0 ELSE StreamChunk(s[k - 1], around[k])
          BY <2>1, <4>1 DEF AfterChunks
        <4> QED BY <4>1, <4>2
      <3> QED BY <3>1, <3>2
    <2>3. AfterChunks(around, s0, t, m + 1)
      <3>1. t = [k \in 0..(m + 1) |-> t[k]]
        OBVIOUS
      <3> HIDE DEF t
      <3> QED BY <2>2, <3>1 DEF AfterChunks
    <2> QED BY <2>3
  <1> HIDE DEF All
  <1>3. n \in All
    BY <1>1, <1>2, Induction
  <1> QED BY <1>3 DEF All

Messages ==
    {Reject} \cup {Chunk(c) : c \in Chunks} \cup {[kind |-> "welcome", tick |-> t] : t \in Nat}

(* What one run of stream_chunks adds to sent it also puts on its way,     *)
(* ground permitting. *)
Covered(s) ==
    /\ s = [sent |-> s.sent, out |-> s.out]
    /\ s.out \in Seq(Messages)
    /\ \A k \in DOMAIN s.out : s.out[k].kind = "chunk"
    /\ \A c \in s.sent \cap Content : c \in sent \/ \E k \in DOMAIN s.out : s.out[k] = Chunk(c)

(* One turn of that loop marks no chunk with content that it does not put  *)
(* out.                                                                    *)
LEMMA ChunkCovered ==
    ASSUME NEW s, Covered(s), NEW c \in Chunks
    PROVE  Covered(StreamChunk(s, c))
  <1>1. CASE Len(s.out) >= MaxChunks \/ c \in s.sent
    BY <1>1 DEF StreamChunk
  <1>2. CASE ~ (Len(s.out) >= MaxChunks \/ c \in s.sent) /\ c \notin Content
    <2>1. StreamChunk(s, c) = [sent |-> s.sent \cup {c}, out |-> s.out]
      BY <1>2 DEF StreamChunk
    <2> QED BY <1>2, <2>1 DEF Covered
  <1>3. CASE ~ (Len(s.out) >= MaxChunks \/ c \in s.sent) /\ c \in Content
    <2> DEFINE msg == Chunk(c)
               out == Append(s.out, msg)
    <2>1. StreamChunk(s, c) = [sent |-> s.sent \cup {c}, out |-> out]
      BY <1>3 DEF StreamChunk
    <2>2. msg \in Messages /\ msg.kind = "chunk"
      BY DEF Messages, Chunk
    <2>3. s.out \in Seq(Messages) /\ \A k \in DOMAIN s.out : s.out[k].kind = "chunk"
      BY DEF Covered
    <2> HIDE DEF msg
    <2>4. /\ out \in Seq(Messages) /\ DOMAIN out = 1..(Len(s.out) + 1)
          /\ DOMAIN s.out = 1..Len(s.out) /\ Len(s.out) \in Nat
          /\ out[Len(s.out) + 1] = msg
          /\ \A k \in 1..Len(s.out) : out[k] = s.out[k]
      BY <2>2, <2>3
    <2> HIDE DEF out
    <2>5. \A k \in DOMAIN out : out[k].kind = "chunk"
      <3> SUFFICES ASSUME NEW k \in 1..(Len(s.out) + 1) PROVE out[k].kind = "chunk"
        BY <2>4
      <3>1. CASE k = Len(s.out) + 1
        BY <2>2, <2>4, <3>1
      <3>2. CASE k # Len(s.out) + 1
        <4>1. k \in 1..Len(s.out)
          BY <2>4, <3>2
        <4> QED BY <2>3, <2>4, <4>1
      <3> QED BY <3>1, <3>2
    <2>6. ASSUME NEW d \in (s.sent \cup {c}) \cap Content
          PROVE  d \in sent \/ \E k \in DOMAIN out : out[k] = Chunk(d)
      <3>1. CASE d = c
        <4>1. Len(s.out) + 1 \in DOMAIN out /\ out[Len(s.out) + 1] = Chunk(d)
          BY <2>4, <3>1 DEF msg
        <4> QED BY <4>1
      <3>2. CASE d # c
        <4>1. d \in sent \/ \E k \in DOMAIN s.out : s.out[k] = Chunk(d)
          BY <2>6, <3>2 DEF Covered
        <4>2. \A k \in DOMAIN s.out : k \in DOMAIN out /\ out[k] = s.out[k]
          BY <2>4
        <4> QED BY <4>1, <4>2
      <3> QED BY <3>1, <3>2
    <2> QED BY <2>1, <2>4, <2>5, <2>6 DEF Covered
  <1> QED BY <1>1, <1>2, <1>3

(* So the whole of stream_chunks does not.                                 *)
LEMMA StreamedCovered ==
    ASSUME place \in Places
    PROVE  Covered(Streamed)
  <1> DEFINE around == Near[place]
             n == Len(around)
             s0 == [sent |-> sent, out |-> <<>>]
  <1>1. around \in Seq(Chunks) /\ n \in Nat /\ \A k \in 1..n : around[k] \in Chunks
    BY RemoteViewAssumption
  <1>2. Covered(s0)
    BY DEF Covered
  <1> HIDE DEF around, s0
  <1>3. \E after : AfterChunks(around, s0, after, n)
    <2> HIDE DEF n
    <2> QED BY <1>1, StreamingExists
  <1> DEFINE run == CHOOSE after : AfterChunks(around, s0, after, n)
  <1>4. AfterChunks(around, s0, run, n)
    <2> HIDE DEF n
    <2> QED BY <1>3
  <1>5. Streamed = run[n]
    BY DEF Streamed, AfterChunks, around, s0
  <1> HIDE DEF run, n
  <1> DEFINE Good == {k \in Nat : k <= n => Covered(run[k])}
  <1>6. 0 \in Good
    <2>1. run[0] = s0
      BY <1>1, <1>4 DEF AfterChunks
    <2> QED BY <1>2, <2>1
  <1>7. ASSUME NEW k \in Nat, k \in Good PROVE k + 1 \in Good
    <2>1. SUFFICES ASSUME k + 1 <= n PROVE Covered(run[k + 1])
      OBVIOUS
    <2>2. k + 1 \in 0..n /\ k + 1 # 0 /\ (k + 1) - 1 = k /\ k + 1 \in 1..n /\ k <= n
      BY <1>1, <2>1
    <2>3. run[k + 1] = StreamChunk(run[k], around[k + 1])
      BY <1>4, <2>2 DEF AfterChunks
    <2> QED BY <1>1, <1>7, <2>2, <2>3, ChunkCovered
  <1>8. n \in Good
    <2> HIDE DEF Good
    <2> QED BY <1>1, <1>6, <1>7, Induction
  <1> QED BY <1>1, <1>5, <1>8

IsWelcome(k) == down[k].kind = "welcome"

(* Before the hello is answered nothing has been sent; after a welcome the *)
(* client has its map or will get it with the message. *)
WelcomeFirst ==
    link = "up" =>
        /\ server # "in" => sent = {}
        /\ server = "in" => ready \/ \E k \in DOMAIN down : IsWelcome(k)

ComingInv ==
    /\ place \in Places /\ tick \in Nat
    /\ down \in Seq(Messages)
    /\ WelcomeFirst
    /\ SentMeansComing

(* What the messages of the server are.                                    *)
LEMMA MessageKinds ==
    /\ Reject \in Messages /\ Reject.kind = "reject"
    /\ \A c \in Chunks : Chunk(c) \in Messages
    /\ \A c : Chunk(c).kind = "chunk" /\ Chunk(c).chunk = c
    /\ tick \in Nat => WelcomeMsg \in Messages
    /\ WelcomeMsg.kind = "welcome"
  BY DEF Reject, Chunk, WelcomeMsg, Messages

(* An answered hello finds nothing sent; a welcome is then on its way.     *)
LEMMA HelloComing ==
    ASSUME HeardInv, ComingInv, HandleHello
    PROVE  ComingInv'
  <1>1. link = "up" /\ up # <<>> /\ Head(up).kind = "hello"
    BY DEF HandleHello
  <1>2. server = "fresh"
    BY <1>1, CommandIsNoHello DEF HeardInv, OneHello
  <1>3. down = <<>> /\ sent = {}
    BY <1>1, <1>2 DEF HeardInv, OneHello, ComingInv, WelcomeFirst
  <1>4. /\ link' = link /\ sent' = sent /\ place' = place /\ tick' = tick
        /\ \/ server' = "in" /\ down' = Append(down, WelcomeMsg)
           \/ server' = "refused" /\ down' = Append(down, Reject)
    BY DEF HandleHello
  <1>5. down' \in Seq(Messages)
    <2>1. WelcomeMsg \in Messages /\ Reject \in Messages
      BY MessageKinds DEF ComingInv
    <2> HIDE DEF Messages
    <2> QED BY <1>4, <2>1 DEF ComingInv
  <1>6. server' = "in" => \E k \in DOMAIN down' : IsWelcome(k)'
    <2>1. SUFFICES ASSUME server' = "in" PROVE \E k \in DOMAIN down' : IsWelcome(k)'
      OBVIOUS
    <2> DEFINE msg == WelcomeMsg
    <2>2. msg.kind = "welcome"
      BY MessageKinds
    <2> HIDE DEF msg
    <2>3. down' = <<msg>>
      BY <1>3, <1>4, <2>1 DEF msg
    <2>4. 1 \in DOMAIN down' /\ down'[1].kind = "welcome"
      BY <2>2, <2>3
    <2> QED BY <2>4 DEF IsWelcome
  <1> QED BY <1>3, <1>4, <1>5, <1>6 DEF ComingInv, WelcomeFirst, SentMeansComing

(* A tick puts the chunks it marks behind the welcome, and leaves those    *)
(* before it.                                                              *)
LEMMA TickComing ==
    ASSUME HeardInv, ComingInv, SnapshotTick
    PROVE  ComingInv'
  <1>1. /\ link' = link /\ server' = server /\ place' = place /\ known' = known /\ ready' = ready
        /\ tick' \in Nat
    BY RemoteViewAssumption DEF SnapshotTick, clientVars, ComingInv, Least
  <1>2. CASE server # "in"
    <2>1. sent' = sent /\ down' = down
      BY <1>2 DEF SnapshotTick
    <2> QED BY <1>1, <2>1 DEF ComingInv, WelcomeFirst, SentMeansComing, IsWelcome
  <1>3. CASE server = "in" /\ link # "up"
    <2>1. down' = down
      BY <1>3 DEF SnapshotTick, Queue
    <2> QED BY <1>1, <1>3, <2>1 DEF ComingInv, WelcomeFirst, SentMeansComing
  <1>4. CASE server = "in" /\ link = "up"
    <2> DEFINE out == Streamed.out
               n == Len(down)
    <2>1. sent' = Streamed.sent /\ down' = down \o out
      BY <1>4 DEF SnapshotTick, Queue
    <2>2. Covered(Streamed)
      BY StreamedCovered DEF ComingInv
    <2>3. /\ down \in Seq(Messages) /\ out \in Seq(Messages)
          /\ \A k \in DOMAIN out : out[k].kind = "chunk"
          /\ \A c \in sent' \cap Content : c \in sent \/ \E k \in DOMAIN out : out[k] = Chunk(c)
      BY <2>1, <2>2 DEF ComingInv, Covered
    <2> HIDE DEF out
    <2>4. /\ down' \in Seq(Messages) /\ DOMAIN down' = 1..(n + Len(out))
          /\ n \in Nat /\ Len(out) \in Nat
          /\ DOMAIN down = 1..n /\ DOMAIN out = 1..Len(out)
          /\ \A k \in 1..n : down'[k] = down[k]
          /\ \A k \in 1..Len(out) : down'[n + k] = out[k]
      BY <2>1, <2>3
    <2> HIDE DEF n
    <2>5. \A k \in DOMAIN down' : down'[k].kind = "welcome" =>
              k \in DOMAIN down /\ down[k].kind = "welcome"
      <3> SUFFICES ASSUME NEW k \in DOMAIN down', down'[k].kind = "welcome"
                   PROVE  k \in DOMAIN down /\ down[k].kind = "welcome"
        OBVIOUS
      <3>1. CASE k <= n
        <4>1. k \in 1..n
          BY <2>4, <3>1
        <4> QED BY <2>4, <4>1
      <3>2. CASE k > n
        <4>1. k - n \in 1..Len(out) /\ n + (k - n) = k
          BY <2>4, <3>2
        <4> QED BY <2>3, <2>4, <4>1
      <3> QED BY <2>4, <3>1, <3>2
    <2>6. \A k \in DOMAIN down : k \in DOMAIN down' /\ down'[k] = down[k]
      BY <2>4
    <2>7. WelcomeFirst'
      BY <1>1, <1>4, <2>6 DEF ComingInv, WelcomeFirst, IsWelcome
    <2>8. ASSUME NEW c \in sent' \cap Content
          PROVE  \/ c \in known /\ \A k \in DOMAIN down' : down'[k].kind # "welcome"
                 \/ \E k \in DOMAIN down' :
                       /\ down'[k] = Chunk(c)
                       /\ \A j \in DOMAIN down' : down'[j].kind = "welcome" => j < k
                       /\ ready \/ \E j \in 1..k : down'[j].kind = "welcome"
      <3>1. CASE c \in sent
        <4>1. CASE c \in known /\ \A k \in DOMAIN down : down[k].kind # "welcome"
          BY <2>5, <4>1
        <4>2. ASSUME NEW k \in DOMAIN down,
                     /\ down[k] = Chunk(c)
                     /\ \A j \in DOMAIN down : down[j].kind = "welcome" => j < k
                     /\ ready \/ \E j \in 1..k : down[j].kind = "welcome"
              PROVE  /\ k \in DOMAIN down' /\ down'[k] = Chunk(c)
                     /\ \A j \in DOMAIN down' : down'[j].kind = "welcome" => j < k
                     /\ ready \/ \E j \in 1..k : down'[j].kind = "welcome"
          <5>1. \A j \in 1..k : j \in DOMAIN down
            BY <2>4, <4>2
          <5> QED BY <2>5, <2>6, <4>2, <5>1
        <4> QED BY <1>4, <2>8, <3>1, <4>1, <4>2 DEF ComingInv, SentMeansComing
      <3>2. CASE c \notin sent
        <4>1. PICK k \in DOMAIN out : out[k] = Chunk(c)
          BY <2>3, <2>8, <3>2
        <4>2. n + k \in DOMAIN down' /\ down'[n + k] = Chunk(c)
          BY <2>4, <4>1
        <4>3. \A j \in DOMAIN down' : down'[j].kind = "welcome" => j < n + k
          BY <2>4, <2>5, <4>1
        <4>4. ready \/ \E j \in 1..(n + k) : down'[j].kind = "welcome"
          <5>1. ready \/ \E j \in DOMAIN down : down[j].kind = "welcome"
            BY <1>4 DEF ComingInv, WelcomeFirst, IsWelcome
          <5>2. \A j \in DOMAIN down : j \in 1..(n + k) /\ down'[j] = down[j]
            BY <2>4, <4>1
          <5> QED BY <5>1, <5>2
        <4> QED BY <4>2, <4>3, <4>4
      <3> QED BY <3>1, <3>2
    <2>9. SentMeansComing'
      BY <1>1, <2>8 DEF SentMeansComing
    <2> QED BY <1>1, <2>4, <2>7, <2>9 DEF ComingInv
  <1> QED BY <1>2, <1>3, <1>4

(* A message received brings the rest one place nearer, a chunk into the   *)
(* map.                                                                    *)
LEMMA ReliableComing ==
    ASSUME HeardInv, ComingInv, ReceiveReliable
    PROVE  ComingInv'
  <1> DEFINE n == Len(down)
             msg == Head(down)
  <1>1. /\ link = "up" /\ down # <<>>
        /\ down' = Tail(down)
        /\ link' = link /\ server' = server /\ sent' = sent /\ place' = place /\ tick' = tick
        /\ \/ msg.kind = "welcome" /\ ready' = TRUE /\ known' = {}
           \/ /\ msg.kind = "chunk" /\ ready' = ready
              /\ known' = IF ready THEN known \cup {msg.chunk} ELSE known
           \/ msg.kind = "reject" /\ ready' = ready /\ known' = known
    BY DEF ReceiveReliable, serverVars, ApplyWelcome, ApplyChunk, ApplyReject
  <1>2. /\ down' \in Seq(Messages) /\ n \in Nat \ {0}
        /\ DOMAIN down = 1..n /\ DOMAIN down' = 1..(n - 1)
        /\ msg = down[1]
        /\ \A k \in 1..(n - 1) : down'[k] = down[k + 1]
    <2>1. down \in Seq(Messages)
      BY DEF ComingInv
    <2> QED BY <1>1, <2>1
  <1> HIDE DEF msg, n
  <1>3. WelcomeFirst'
    <2>1. SUFFICES ASSUME server = "in" PROVE ready' \/ \E k \in DOMAIN down' : IsWelcome(k)'
      BY <1>1 DEF ComingInv, WelcomeFirst
    <2>2. CASE ready
      BY <1>1, <2>2
    <2>3. CASE ~ready
      <3>1. PICK k \in DOMAIN down : down[k].kind = "welcome"
        BY <1>1, <2>1, <2>3 DEF ComingInv, WelcomeFirst, IsWelcome
      <3>2. CASE k = 1
        BY <1>1, <1>2, <3>1, <3>2
      <3>3. CASE k # 1
        <4>1. k - 1 \in 1..(n - 1) /\ (k - 1) + 1 = k
          BY <1>2, <3>3
        <4>2. down'[k - 1].kind = "welcome"
          BY <1>2, <3>1, <4>1
        <4> QED BY <1>2, <4>1, <4>2 DEF IsWelcome
      <3> QED BY <3>2, <3>3
    <2> QED BY <2>2, <2>3
  <1>4. ASSUME NEW c \in sent \cap Content
        PROVE  \/ c \in known' /\ \A k \in DOMAIN down' : down'[k].kind # "welcome"
               \/ \E k \in DOMAIN down' :
                     /\ down'[k] = Chunk(c)
                     /\ \A j \in DOMAIN down' : down'[j].kind = "welcome" => j < k
                     /\ ready' \/ \E j \in 1..k : down'[j].kind = "welcome"
    <2>1. CASE c \in known /\ \A k \in DOMAIN down : down[k].kind # "welcome"
      <3>1. msg.kind # "welcome"
        BY <1>2, <2>1
      <3>2. c \in known'
        BY <1>1, <2>1, <3>1
      <3>3. \A k \in DOMAIN down' : k + 1 \in DOMAIN down /\ down'[k] = down[k + 1]
        BY <1>2
      <3> QED BY <2>1, <3>2, <3>3
    <2>2. ASSUME NEW k \in DOMAIN down,
                 /\ down[k] = Chunk(c)
                 /\ \A j \in DOMAIN down : down[j].kind = "welcome" => j < k
                 /\ ready \/ \E j \in 1..k : down[j].kind = "welcome"
          PROVE  \/ c \in known' /\ \A i \in DOMAIN down' : down'[i].kind # "welcome"
                 \/ \E i \in DOMAIN down' :
                       /\ down'[i] = Chunk(c)
                       /\ \A j \in DOMAIN down' : down'[j].kind = "welcome" => j < i
                       /\ ready' \/ \E j \in 1..i : down'[j].kind = "welcome"
      <3>1. CASE k = 1
        <4>1. msg = Chunk(c) /\ msg.kind = "chunk" /\ msg.chunk = c
          BY <1>2, <2>2, <3>1, MessageKinds
        <4>2. ready
          <5>1. ASSUME NEW j \in 1..k, down[j].kind = "welcome" PROVE FALSE
            <6>1. j = 1
              BY <3>1, <5>1
            <6> QED BY <1>2, <4>1, <5>1, <6>1
          <5> QED BY <2>2, <5>1
        <4>3. c \in known'
          BY <1>1, <4>1, <4>2
        <4>4. \A i \in DOMAIN down' : down'[i].kind # "welcome"
          <5> SUFFICES ASSUME NEW i \in DOMAIN down', down'[i].kind = "welcome" PROVE FALSE
            OBVIOUS
          <5>1. i + 1 \in DOMAIN down /\ down[i + 1].kind = "welcome" /\ i \in Nat \ {0}
            BY <1>2
          <5> QED BY <2>2, <3>1, <5>1
        <4> QED BY <4>3, <4>4
      <3>2. CASE k # 1
        <4> DEFINE i == k - 1
        <4>1. i \in 1..(n - 1) /\ i + 1 = k /\ i \in DOMAIN down' /\ down'[i] = Chunk(c)
          BY <1>2, <2>2, <3>2
        <4>2. \A j \in DOMAIN down' : down'[j].kind = "welcome" => j < i
          <5> SUFFICES ASSUME NEW j \in DOMAIN down', down'[j].kind = "welcome" PROVE j < i
            OBVIOUS
          <5>1. j + 1 \in DOMAIN down /\ down[j + 1].kind = "welcome" /\ j \in Nat
            BY <1>2
          <5>2. j + 1 < k
            BY <2>2, <5>1
          <5> QED BY <1>2, <5>1, <5>2
        <4>3. ready' \/ \E j \in 1..i : down'[j].kind = "welcome"
          <5>1. CASE ready
            BY <1>1, <5>1
          <5>2. ASSUME NEW j \in 1..k, down[j].kind = "welcome"
                PROVE  ready' \/ \E l \in 1..i : down'[l].kind = "welcome"
            <6>1. CASE j = 1
              BY <1>1, <1>2, <5>2, <6>1
            <6>2. CASE j # 1
              <7>1. j \in DOMAIN down
                BY <1>2, <5>2
              <7>2. j - 1 \in 1..(n - 1) /\ (j - 1) + 1 = j /\ j - 1 \in 1..i
                BY <1>2, <4>1, <5>2, <6>2, <7>1
              <7>3. down'[j - 1].kind = "welcome"
                BY <1>2, <5>2, <7>2
              <7> QED BY <7>2, <7>3
            <6> QED BY <6>1, <6>2
          <5> QED BY <2>2, <5>1, <5>2
        <4> HIDE DEF i
        <4> QED BY <4>1, <4>2, <4>3
      <3> QED BY <3>1, <3>2
    <2> QED BY <1>1, <1>4, <2>1, <2>2 DEF ComingInv, SentMeansComing
  <1>5. SentMeansComing'
    BY <1>1, <1>4 DEF SentMeansComing
  <1> QED BY <1>1, <1>2, <1>3, <1>5 DEF ComingInv

(* ComingInv is inductive, given HeardInv.                                 *)
LEMMA StepComing == HeardInv /\ ComingInv /\ [Next]_vars => ComingInv'
  <1> SUFFICES ASSUME HeardInv, ComingInv, [Next]_vars PROVE ComingInv'
    OBVIOUS
  <1>1. ASSUME NEW good \in BOOLEAN, Connect(good) PROVE ComingInv'
    <2>1. /\ link = "none" /\ down = <<>>
          /\ server' = "fresh" /\ sent' = {} /\ place' = place /\ tick' = tick /\ down' = down
      BY <1>1 DEF Connect, HeardInv
    <2> QED BY <2>1 DEF ComingInv, WelcomeFirst, SentMeansComing
  <1>2. CASE Fail \/ DisconnectLater
    <2>1. link' # "up" /\ down' = <<>> /\ place' = place /\ tick' = tick
      BY <1>2 DEF Fail, DisconnectLater, Cut, serverVars
    <2>2. down' \in Seq(Messages)
      BY <2>1
    <2> QED BY <2>1, <2>2 DEF ComingInv, WelcomeFirst, SentMeansComing
  <1>3. CASE PeerGone \/ ServerGone
    <2>1. link' # "up" /\ down' = down /\ place' = place /\ tick' = tick
      BY <1>3 DEF PeerGone, ServerGone, serverVars
    <2> QED BY <2>1 DEF ComingInv, WelcomeFirst, SentMeansComing
  <1>4. CASE Redial
    <2>1. link' = "none" /\ down' = down /\ place' = place /\ tick' = tick
      BY <1>4 DEF Redial, serverVars
    <2> QED BY <2>1 DEF ComingInv, WelcomeFirst, SentMeansComing
  <1>5. CASE HandleHello
    BY <1>5, HelloComing
  <1>6. CASE HandleCommand \/ Request \/ ReceiveSnapshot \/ LoseSnapshot \/ UNCHANGED vars
    <2>1. /\ link' = link /\ server' = server /\ sent' = sent /\ place' = place /\ tick' = tick
          /\ ready' = ready /\ known' = known /\ down' = down
      BY <1>6 DEF HandleCommand, Request, ReceiveSnapshot, LoseSnapshot, vars, serverVars,
                    clientVars
    <2> QED BY <2>1 DEF ComingInv, WelcomeFirst, SentMeansComing, IsWelcome
  <1>7. ASSUME NEW q \in Places, Move(q) PROVE ComingInv'
    <2>1. /\ link' = link /\ server' = server /\ sent' = sent /\ place' = q /\ tick' = tick
          /\ ready' = ready /\ known' = known /\ down' = down
      BY <1>7 DEF Move, clientVars
    <2> QED BY <2>1 DEF ComingInv, WelcomeFirst, SentMeansComing, IsWelcome
  <1>8. CASE SnapshotTick
    BY <1>8, TickComing
  <1>9. CASE ReceiveReliable
    BY <1>9, ReliableComing
  <1> QED
    BY <1>1, <1>2, <1>3, <1>4, <1>5, <1>6, <1>7, <1>8, <1>9 DEF Next

(* Every chunk with content that the server has marked as sent is on its   *)
(* way behind the welcome, or in the map of its client (stream_chunks,     *)
(* apply_welcome, apply_chunk).                                            *)
THEOREM SentChunksArrive == Spec => []SentMeansComing
  <1>1. Init => HeardInv
    BY DEF Init, HeardInv, OneHello, ReasonUnderWay, ReasonIsHeard
  <1>2. Init => ComingInv
    BY DEF Init, ComingInv, WelcomeFirst, SentMeansComing
  <1>3. ComingInv => SentMeansComing
    BY DEF ComingInv
  <1> QED BY <1>1, <1>2, <1>3, StepHeard, StepComing, PTL DEF Spec

-----------------------------------------------------------------------------
(* A hunt. *)

Fields ==
    {"vocation", "at", "hp", "mana", "cool", "down", "target", "bag", "worn", "corpses", "made"}

(* A world between two ticks or within one. *)
Sound(w) ==
    /\ Fields \subseteq DOMAIN w
    /\ w.vocation \in Range(Vocations)
    /\ Player \in DOMAIN w.hp /\ w.hp[Player] \in Nat
    /\ w.down \in Nat \cup {None}
    /\ w.hp[Player] = 0 <=> w.down # None

Settled(w) == Sound(w) /\ w.down # 0

(* What an operation leaves alone: then the player is as it was. *)
SameLife(w, v) ==
    /\ Fields \subseteq DOMAIN v
    /\ v.vocation = w.vocation /\ v.hp = w.hp /\ v.down = w.down

(* What leaves the player as it was keeps both.                            *)
LEMMA LifeGoesOn ==
    ASSUME NEW w, NEW v, SameLife(w, v)
    PROVE  /\ Sound(w) => Sound(v)
           /\ Settled(w) => Settled(v)
  BY DEF SameLife, Sound, Settled

(* Damage fells a player exactly when it leaves it without health.         *)
LEMMA DamagedSound ==
    ASSUME NEW w, Sound(w), NEW a, NEW amount \in Nat \ {0}, NEW v \in Damaged(w, a, amount)
    PROVE  Sound(v) /\ (w.down # 0 => v.down # 0)
  <1> USE DEF Fields
  <1>1. CASE a \notin DOMAIN w.hp
    BY <1>1 DEF Damaged
  <1>2. CASE a \in DOMAIN w.hp /\ w.hp[a] > amount
    <2>1. v = [w EXCEPT !.hp[a] = w.hp[a] - amount]
      BY <1>2 DEF Damaged
    <2>2. /\ Fields \subseteq DOMAIN v /\ v.vocation = w.vocation /\ v.down = w.down
          /\ v.hp = [w.hp EXCEPT ![a] = w.hp[a] - amount]
      BY <2>1 DEF Sound
    <2>3. CASE a = Player
      BY <1>2, <2>2, <2>3 DEF Sound
    <2>4. CASE a # Player
      BY <1>2, <2>2, <2>4 DEF Sound
    <2> QED BY <2>3, <2>4
  <1>3. CASE a \in DOMAIN w.hp /\ ~ (w.hp[a] > amount) /\ a = Player
    <2>1. v = [w EXCEPT !.hp[Player] = 0, !.target = None, !.down = RespawnTicks]
      BY <1>3 DEF Damaged
    <2>2. /\ Fields \subseteq DOMAIN v /\ v.vocation = w.vocation /\ v.down = RespawnTicks
          /\ v.hp = [w.hp EXCEPT ![Player] = 0]
      BY <2>1 DEF Sound
    <2> QED BY <2>2, HuntAssumption DEF Sound, None
  <1>4. CASE a \in DOMAIN w.hp /\ ~ (w.hp[a] > amount) /\ a # Player
    <2>1. PICK loot \in Rolls :
            v = [w EXCEPT !.hp = [b \in DOMAIN @ \ {a} |-> @[b]],
                          !.at = [b \in DOMAIN @ \ {a} |-> @[b]],
                          !.corpses = IF loot = <<>> THEN @
                                      ELSE Append(@, [tile |-> w.at[a], items |-> loot]),
                          !.made = [i \in Items |-> @[i] + Count(loot, i)]]
      BY <1>4 DEF Damaged
    <2>2. /\ Fields \subseteq DOMAIN v /\ v.vocation = w.vocation /\ v.down = w.down
          /\ v.hp = [b \in DOMAIN w.hp \ {a} |-> w.hp[b]]
      BY <2>1 DEF Sound
    <2> QED BY <1>4, <2>2 DEF Sound
  <1> QED BY <1>1, <1>2, <1>3, <1>4

(* Requests for items leave the player as it was.                          *)
LEMMA EquipSameLife ==
    ASSUME NEW w, Sound(w), NEW id
    PROVE  SameLife(w, Equip(w, id))
  BY DEF Equip, SameLife, Sound, Fields

LEMMA UnequipSameLife ==
    ASSUME NEW w, Sound(w), NEW slot
    PROVE  SameLife(w, Unequip(w, slot))
  BY DEF Unequip, SameLife, Sound, Fields

LEMMA LootSameLife ==
    ASSUME NEW w, Sound(w), NEW loot
    PROVE  SameLife(w, TakeFromCorpse(w, loot))
  BY DEF TakeFromCorpse, SameLife, Sound, Fields

(* So do all requests but a cast, one after the other.                     *)
LEMMA HandledSameLife ==
    ASSUME NEW w, Sound(w), NEW p
    PROVE  Sound(Looted(Unequipped(Equipped(Targeted(w, p), p), p), p))
  <1>1. Sound(Targeted(w, p))
    <2>1. SameLife(w, Targeted(w, p))
      BY DEF Targeted, SameLife, Sound, Fields
    <2> QED BY <2>1, LifeGoesOn
  <1>2. ASSUME NEW v, Sound(v) PROVE Sound(Equipped(v, p))
    BY <1>2, EquipSameLife, LifeGoesOn DEF Equipped
  <1>3. ASSUME NEW v, Sound(v) PROVE Sound(Unequipped(v, p))
    BY <1>3, UnequipSameLife, LifeGoesOn DEF Unequipped
  <1>4. ASSUME NEW v, Sound(v) PROVE Sound(Looted(v, p))
    BY <1>4, LootSameLife, LifeGoesOn DEF Looted
  <1> QED BY <1>1, <1>2, <1>3, <1>4

(* The lesser of two numbers above zero is above zero.                     *)
LEMMA LeastOfTwo ==
    ASSUME NEW a \in Nat \ {0}, NEW b \in Nat \ {0}
    PROVE  Min({a, b}) \in Nat \ {0}
  <1>1. \E x \in {a, b} : \A y \in {a, b} : x =< y
    OBVIOUS
  <1>2. Min({a, b}) \in {a, b}
    BY <1>1 DEF Min
  <1> QED BY <1>2

(* A heal is cast only by a player that stands, and leaves it with health. *)
LEMMA CastSound ==
    ASSUME NEW w, Sound(w), NEW target, NEW v \in CastSpell(w, target)
    PROVE  Sound(v)
  <1> DEFINE spell == SpellOf[w.vocation]
             paid == [w EXCEPT !.mana = @ - spell.cost, !.cool = spell.cooldown]
  <1>1. spell.power \in Nat \ {0} /\ HealthOf[w.vocation] \in Nat \ {0}
    BY HuntAssumption DEF Sound
  <1>2. Sound(paid) /\ SameLife(w, paid)
    <2>1. SameLife(w, paid)
      BY DEF SameLife, Sound, Fields
    <2> QED BY <2>1, LifeGoesOn
  <1>3. CASE ~MayCast(w, spell, target)
    BY <1>3 DEF CastSpell
  <1>4. CASE MayCast(w, spell, target) /\ spell.kind = "Damage"
    <2>1. v \in Damaged(paid, target, spell.power)
      BY <1>4 DEF CastSpell
    <2> HIDE DEF paid, spell
    <2> QED BY <1>1, <1>2, <2>1, DamagedSound
  <1>5. CASE MayCast(w, spell, target) /\ spell.kind # "Damage"
    <2> DEFINE health == Min({w.hp[Player] + spell.power, HealthOf[w.vocation]})
    <2>1. v = [paid EXCEPT !.hp[Player] =
                  Min({paid.hp[Player] + spell.power, HealthOf[w.vocation]})]
      BY <1>5 DEF CastSpell
    <2>2. w.down = None /\ Player \in DOMAIN w.hp /\ w.hp[Player] \in Nat
      BY <1>5 DEF MayCast, Standing, Sound
    <2>3. w.hp[Player] + spell.power \in Nat \ {0}
      <3> HIDE DEF spell
      <3> QED BY <1>1, <2>2
    <2>4. health \in Nat \ {0}
      BY <1>1, <2>3, LeastOfTwo
    <2> HIDE DEF health
    <2>5. paid.hp = w.hp
      BY <1>2 DEF SameLife
    <2>6. v = [paid EXCEPT !.hp[Player] = health]
      BY <2>1, <2>5 DEF health
    <2> HIDE DEF paid
    <2>7. /\ Fields \subseteq DOMAIN v /\ v.vocation = w.vocation /\ v.down = w.down
          /\ v.hp = [w.hp EXCEPT ![Player] = health]
      BY <1>2, <2>6 DEF SameLife, Fields
    <2>8. Player \in DOMAIN v.hp /\ v.hp[Player] = health
      BY <2>2, <2>7
    <2> QED BY <2>2, <2>4, <2>7, <2>8 DEF Sound, None
  <1> QED BY <1>3, <1>4, <1>5

(* The requests of a tick keep the player and its wait together.           *)
LEMMA ObeyedSound ==
    ASSUME NEW w, Sound(w), NEW p, NEW v \in Obeyed(w, p)
    PROVE  Sound(v)
  BY HandledSameLife, CastSound DEF Obeyed

(* A wait counts down to zero and no further before the tick ends.         *)
LEMMA ClockedSound ==
    ASSUME NEW w, Settled(w)
    PROVE  Sound(Clocked(w))
  <1> DEFINE v == Clocked(w)
  <1>1. /\ Fields \subseteq DOMAIN v /\ v.vocation = w.vocation /\ v.hp = w.hp
        /\ v.down = IF w.down = None THEN None ELSE w.down - 1
    BY DEF Clocked, Settled, Sound, Fields
  <1> HIDE DEF v
  <1>2. Sound(v)
    BY <1>1 DEF Settled, Sound, None
  <1> QED BY <1>2 DEF v

(* A step changes nothing of the player but its tile.                      *)
LEMMA LandedSound ==
    ASSUME NEW w, Sound(w), NEW v \in Landings(w)
    PROVE  Sound(v)
  <1>1. PICK f : v = [w EXCEPT !.at = f]
    BY DEF Landings
  <1>2. SameLife(w, v)
    BY <1>1 DEF SameLife, Sound, Fields
  <1> QED BY <1>2, LifeGoesOn

(* A player whose wait is over stands, with the health of its vocation.    *)
LEMMA RespawnedSettled ==
    ASSUME NEW w, Sound(w)
    PROVE  Settled(Respawned(w))
  <1>1. CASE w.down = 0
    <2> DEFINE v == Respawned(w)
    <2>1. /\ Fields \subseteq DOMAIN v /\ v.vocation = w.vocation /\ v.down = None
          /\ v.hp = [w.hp EXCEPT ![Player] = HealthOf[w.vocation]]
      BY <1>1 DEF Respawned, Sound, Fields
    <2> HIDE DEF v
    <2>2. Settled(v)
      BY <2>1, HuntAssumption DEF Settled, Sound, None
    <2> QED BY <2>2 DEF v
  <1>2. CASE w.down # 0
    BY <1>2 DEF Respawned, Settled
  <1> QED BY <1>1, <1>2

(* After the fight of a tick no wait is at zero.                           *)
LEMMA FoughtSettled ==
    ASSUME NEW w, Sound(w), NEW v \in Fought(w)
    PROVE  Settled(v)
  <1> DEFINE r == Respawned(w)
             hits == Swung(Aimed(r))
             n == Cardinality(Biting(r))
  <1>1. Settled(r)
    BY RespawnedSettled
  <1>2. SwingPower \in Nat \ {0} /\ MobPower \in Nat \ {0}
    BY HuntAssumption
  <1>3. v \in hits \cup UNION {Damaged(h, Player, k * MobPower) : h \in hits, k \in 1..n}
    BY DEF Fought
  <1> HIDE DEF r, n
  <1>4. Settled(Aimed(r))
    <2>1. SameLife(r, Aimed(r))
      BY <1>1 DEF Aimed, SameLife, Settled, Sound, Fields
    <2> QED BY <1>1, <2>1, LifeGoesOn
  <1>5. ASSUME NEW h \in hits PROVE Settled(h)
    <2>1. h = Aimed(r) \/ h \in Damaged(Aimed(r), Aimed(r).target, SwingPower)
      BY <1>5 DEF Swung
    <2> QED BY <1>2, <1>4, <2>1, DamagedSound DEF Settled
  <1> HIDE DEF hits
  <1>6. CASE v \in hits
    BY <1>5, <1>6
  <1>7. ASSUME NEW h \in hits, NEW k \in 1..n, v \in Damaged(h, Player, k * MobPower)
        PROVE  Settled(v)
    <2>1. k \in Nat \ {0}
      BY <1>7
    <2>2. \A i, j \in Nat \ {0} : i * j \in Nat \ {0}
      OBVIOUS
    <2> DEFINE amount == k * MobPower
    <2>3. amount \in Nat \ {0}
      BY <1>2, <2>1, <2>2
    <2> HIDE DEF amount
    <2>4. v \in Damaged(h, Player, amount)
      BY <1>7 DEF amount
    <2> QED BY <1>5, <2>3, <2>4, DamagedSound DEF Settled
  <1> QED BY <1>3, <1>6, <1>7

(* A tick leaves the player either standing or waiting.                    *)
LEMMA SimulatedSettled ==
    ASSUME NEW w, Settled(w), NEW p, NEW v \in Simulated(w, p)
    PROVE  Settled(v)
  <1>1. PICK l \in Landings(Clocked(w)) : \E o \in Obeyed(l, p) : v \in Fought(o)
    BY DEF Simulated
  <1>2. PICK o \in Obeyed(l, p) : v \in Fought(o)
    BY <1>1
  <1> QED BY <1>1, <1>2, ClockedSound, LandedSound, ObeyedSound, FoughtSettled

(* A session begins with a player that stands.                             *)
LEMMA BegunSettled ==
    ASSUME NEW voc \in Range(Vocations), NEW w \in Begun(voc)
    PROVE  Settled(w)
  <1>1. PICK at \in Placements :
          w = [vocation |-> voc, at |-> at,
               hp |-> [a \in DOMAIN at |-> IF a = Player THEN HealthOf[voc] ELSE MobHealth],
               mana |-> ManaOf[voc], cool |-> 0, down |-> None, target |-> None,
               bag |-> Outfit(KitOf[voc]).bag, worn |-> Outfit(KitOf[voc]).worn, corpses |-> <<>>,
               made |-> Copies(KitOf[voc])]
    BY DEF Begun
  <1>2. Player \in DOMAIN at
    BY DEF Placements
  <1>3. HealthOf[voc] \in Nat \ {0}
    BY HuntAssumption
  <1>4. /\ Fields \subseteq DOMAIN w /\ w.vocation = voc /\ w.down = None
        /\ w.hp = [a \in DOMAIN at |-> IF a = Player THEN HealthOf[voc] ELSE MobHealth]
    BY <1>1 DEF Fields
  <1> QED BY <1>2, <1>3, <1>4 DEF Settled, Sound, None

(* The worlds that k ticks may lead to, as the recursion has them.         *)
Orders(k) == IF k = 1 THEN pending ELSE NoRequests

AfterTicks(after, n) ==
    after = [k \in 0..n |-> IF k = 0 THEN {world}
                            ELSE UNION {Simulated(w, Orders(k)) : w \in after[k - 1]}]

(* The worlds after one tick more are there whenever those before it are.  *)
LEMMA TicksExist ==
    ASSUME NEW n \in Nat
    PROVE  \E after : AfterTicks(after, n)
  <1> DEFINE All == {m \in Nat : \E after : AfterTicks(after, m)}
  <1>1. 0 \in All
    <2> DEFINE z == [k \in 0..0 |-> {world}]
    <2>1. AfterTicks(z, 0)
      BY DEF AfterTicks
    <2> QED BY <2>1
  <1>2. ASSUME NEW m \in Nat, m \in All PROVE m + 1 \in All
    <2>1. PICK s : AfterTicks(s, m)
      BY <1>2
    <2> DEFINE next == UNION {Simulated(w, Orders(m + 1)) : w \in s[m]}
               t == [k \in 0..(m + 1) |-> IF k = m + 1 THEN next ELSE s[k]]
               sum(f, k) == UNION {Simulated(w, Orders(k)) : w \in f[k - 1]}
    <2>2. ASSUME NEW k \in 0..(m + 1)
          PROVE  t[k] = IF k = 0 THEN {world} ELSE sum(t, k)
      <3>1. CASE k = m + 1
        <4>1. t[k] = next /\ k # 0 /\ k - 1 = m /\ t[m] = s[m]
          BY <3>1
        <4> QED BY <3>1, <4>1
      <3>2. CASE k # m + 1
        <4>1. k \in 0..m /\ t[k] = s[k] /\ (k # 0 => t[k - 1] = s[k - 1])
          BY <3>2
        <4>2. s[k] = IF k = 0 THEN {world} ELSE sum(s, k)
          BY <2>1, <4>1 DEF AfterTicks
        <4> HIDE DEF t
        <4> QED BY <4>1, <4>2
      <3> QED BY <3>1, <3>2
    <2>3. AfterTicks(t, m + 1)
      <3>1. t = [k \in 0..(m + 1) |-> t[k]]
        OBVIOUS
      <3> HIDE DEF t
      <3>2. t = [k \in 0..(m + 1) |-> IF k = 0 THEN {world} ELSE sum(t, k)]
        <4> HIDE DEF sum
        <4> QED BY <2>2, <3>1
      <3> QED BY <3>2 DEF AfterTicks
    <2> QED BY <2>3
  <1> HIDE DEF All
  <1>3. n \in All
    BY <1>1, <1>2, Induction
  <1> QED BY <1>3 DEF All

(* The ticks of a frame, one after the other.                              *)
LEMMA TickedUnfolds ==
    ASSUME NEW n \in Nat
    PROVE  \E after :
              /\ after[0] = {world}
              /\ \A k \in 1..n : after[k] = UNION {Simulated(w, Orders(k)) : w \in after[k - 1]}
              /\ Ticked(n) = after[n]
  <1> DEFINE run == CHOOSE after : AfterTicks(after, n)
  <1>1. AfterTicks(run, n)
    BY TicksExist
  <1>2. Ticked(n) = run[n]
    BY DEF Ticked, AfterTicks, Orders
  <1> HIDE DEF run
  <1> DEFINE sum(f, k) == UNION {Simulated(w, Orders(k)) : w \in f[k - 1]}
  <1>3. run = [k \in 0..n |-> IF k = 0 THEN {world} ELSE sum(run, k)]
    BY <1>1 DEF AfterTicks
  <1> HIDE DEF sum
  <1>4. \A k \in 0..n : run[k] = IF k = 0 THEN {world} ELSE sum(run, k)
    BY <1>3
  <1>5. run[0] = {world}
    BY <1>4
  <1>6. \A k \in 1..n : run[k] = sum(run, k)
    BY <1>4
  <1> USE DEF sum
  <1> QED BY <1>2, <1>5, <1>6

(* A frame leaves the player either standing or waiting.                   *)
LEMMA TickedSettled ==
    ASSUME NEW n \in Nat, Settled(world), NEW v \in Ticked(n)
    PROVE  Settled(v)
  <1>1. PICK after :
            /\ after[0] = {world}
            /\ \A k \in 1..n : after[k] = UNION {Simulated(w, Orders(k)) : w \in after[k - 1]}
            /\ Ticked(n) = after[n]
    BY TickedUnfolds
  <1> DEFINE Good == {k \in Nat : k <= n => \A w \in after[k] : Settled(w)}
  <1>2. 0 \in Good
    BY <1>1
  <1>3. ASSUME NEW k \in Nat, k \in Good PROVE k + 1 \in Good
    <2>1. SUFFICES ASSUME k + 1 <= n, NEW w \in after[k + 1] PROVE Settled(w)
      OBVIOUS
    <2>2. k + 1 \in 1..n /\ (k + 1) - 1 = k /\ k <= n
      BY <2>1
    <2>3. PICK u \in after[k] : w \in Simulated(u, Orders(k + 1))
      <3>1. after[k + 1] = UNION {Simulated(u, Orders(k + 1)) : u \in after[(k + 1) - 1]}
        BY <1>1, <2>2
      <3> QED BY <2>1, <2>2, <3>1
    <2> QED BY <1>3, <2>2, <2>3, SimulatedSettled
  <1>4. n \in Good
    <2> HIDE DEF Good
    <2> QED BY <1>2, <1>3, Induction
  <1> QED BY <1>1, <1>4

LifeInv ==
    /\ phase \in {"picking", "playing"}
    /\ phase = "picking" => picked \in DOMAIN Vocations
    /\ phase = "playing" => Settled(world)

(* LifeInv is inductive.                                                   *)
LEMMA LifeStep == LifeInv /\ [HuntNext]_huntVars => LifeInv'
  <1> SUFFICES ASSUME LifeInv, [HuntNext]_huntVars PROVE LifeInv'
    OBVIOUS
  <1>1. ASSUME NEW i \in DOMAIN Vocations, PickCard(i) PROVE LifeInv'
    BY <1>1 DEF PickCard, LifeInv
  <1>2. CASE Confirm
    <2>1. Vocations[picked] \in Range(Vocations)
      BY <1>2 DEF Confirm, LifeInv, Range
    <2>2. phase' = "playing" /\ world' \in Begun(Vocations[picked])
      BY <1>2 DEF Confirm
    <2>3. Settled(world')
      BY <2>1, <2>2, BegunSettled
    <2> QED BY <2>2, <2>3 DEF LifeInv, Settled, Sound
  <1>3. CASE Press
    <2>1. phase' = phase /\ picked' = picked /\ world' = world
      BY <1>3 DEF Press, ClickLoot, ClickWorn, ClickBag, ClickRow, ClickTile, KeyInventory,
                    KeyCast, InPlay
    <2> QED BY <2>1 DEF LifeInv, Settled, Sound
  <1>4. ASSUME NEW n \in 0..MaxCatchUp, Update(n) PROVE LifeInv'
    <2>1. phase = "playing" /\ phase' = phase /\ picked' = picked /\ world' \in Ticked(n)
      BY <1>4 DEF Update
    <2>2. n \in Nat
      BY HuntAssumption
    <2>3. Settled(world')
      BY <2>1, <2>2, TickedSettled DEF LifeInv
    <2> QED BY <2>1, <2>3 DEF LifeInv, Settled, Sound
  <1>5. CASE UNCHANGED huntVars
    BY <1>5 DEF huntVars, LifeInv, Settled, Sound
  <1> QED BY <1>1, <1>2, <1>3, <1>4, <1>5 DEF HuntNext

(* A player without health is one that waits for its respawn, through      *)
(* hits, heals, casts and any number of ticks a frame replays              *)
(* (apply_damage, cast_spell, update_respawns).                            *)
THEOREM FallenStayDown == HuntSpec => []DeadStayDown
  <1>1. HuntInit => LifeInv
    BY DEF HuntInit, LifeInv
  <1>2. LifeInv => DeadStayDown
    BY DEF LifeInv, DeadStayDown, Settled, Sound
  <1> QED BY <1>1, <1>2, LifeStep, PTL DEF HuntSpec

-----------------------------------------------------------------------------
(* What is left over of a number modulo the width of a count.              *)

(* What a remainder is, and when it is zero.                               *)
LEMMA ModOfMultiple ==
    ASSUME NEW x \in Int
    PROVE  /\ (x % CountMod) \in 0..(CountMod - 1)
           /\ (x % CountMod) = 0 <=> \E q \in Int : x = q * CountMod
           /\ \E q \in Int : (x % CountMod) - x = q * CountMod
  <1>1. CountMod \in Nat \ {0}
    BY HuntAssumption
  <1>2. /\ (x % CountMod) \in 0..(CountMod - 1) /\ x \div CountMod \in Int
        /\ x = CountMod * (x \div CountMod) + (x % CountMod)
    BY <1>1
  <1>3. \A q \in Int : ((q * CountMod) % CountMod) = 0
    BY <1>1
  <1>4. (x % CountMod) = 0 => x = (x \div CountMod) * CountMod
    BY <1>1, <1>2
  <1>5. (x % CountMod) - x = (- (x \div CountMod)) * CountMod
    BY <1>1, <1>2
  <1>6. - (x \div CountMod) \in Int
    BY <1>2
  <1> QED BY <1>2, <1>3, <1>4, <1>5, <1>6

(* Multiples of the width add up and differ by multiples.                  *)
LEMMA ModSum ==
    ASSUME NEW x \in Int, NEW y \in Int, (x % CountMod) = 0, (y % CountMod) = 0
    PROVE  ((x + y) % CountMod) = 0 /\ ((x - y) % CountMod) = 0
  <1>1. CountMod \in Nat
    BY HuntAssumption
  <1>2. PICK p \in Int : x = p * CountMod
    BY ModOfMultiple
  <1>3. PICK q \in Int : y = q * CountMod
    BY ModOfMultiple
  <1>4. x + y = (p + q) * CountMod /\ x - y = (p - q) * CountMod
    BY <1>1, <1>2, <1>3
  <1>5. p + q \in Int /\ p - q \in Int /\ x + y \in Int /\ x - y \in Int
    OBVIOUS
  <1> QED BY <1>4, <1>5, ModOfMultiple

(* A number and its remainder differ by a multiple.                        *)
LEMMA ModRest ==
    ASSUME NEW x \in Int
    PROVE  (((x % CountMod) - x) % CountMod) = 0
  <1>1. (x % CountMod) \in Int /\ (x % CountMod) - x \in Int
    BY ModOfMultiple
  <1>2. \E q \in Int : (x % CountMod) - x = q * CountMod
    BY ModOfMultiple
  <1> QED BY <1>1, <1>2, ModOfMultiple

(* Zero is a multiple.                                                     *)
LEMMA ModZero == (0 % CountMod) = 0
  BY HuntAssumption

-----------------------------------------------------------------------------
(* Bags. *)

Stacks == [id : Items, count : 0..(CountMod - 1)]
Bags == Seq(Stacks)

Share(s, i) == IF s.id = i THEN s.count ELSE 0

Shares(bag, i) == [k \in DOMAIN bag |-> IF bag[k].id = i THEN bag[k].count ELSE 0]

(* What a bag holds of an item is the sum of what its stacks do.           *)
LEMMA SharesSeq ==
    ASSUME NEW bag \in Bags, NEW i
    PROVE  /\ Shares(bag, i) \in Seq(Int) /\ Len(Shares(bag, i)) = Len(bag)
           /\ \A k \in 1..Len(bag) : Shares(bag, i)[k] = Share(bag[k], i)
           /\ Count(bag, i) = Total(Shares(bag, i))
           /\ Count(bag, i) \in Int
  <1>1. Len(bag) \in Nat /\ DOMAIN bag = 1..Len(bag) /\ \A k \in 1..Len(bag) : bag[k] \in Stacks
    BY DEF Bags
  <1>2. \A k \in 1..Len(bag) : Share(bag[k], i) \in Int
    BY <1>1 DEF Share, Stacks
  <1> DEFINE n == Len(bag)
             f == [k \in 1..n |-> Share(bag[k], i)]
  <1>3. Shares(bag, i) = f
    BY <1>1 DEF Shares, Share
  <1>4. f \in [1..n -> Int]
    BY <1>2
  <1>5. f \in Seq(Int) /\ Len(f) = n
    <2> HIDE DEF f, n
    <2>1. n \in Nat
      BY <1>1 DEF n
    <2>2. f \in Seq(Int)
      BY <1>4, <2>1, SeqDef
    <2>3. DOMAIN f = 1..n /\ DOMAIN f = 1..Len(f) /\ Len(f) \in Nat
      BY <1>4, <2>2, LenProperties
    <2> QED BY <2>1, <2>2, <2>3
  <1>6. Count(bag, i) = Total(Shares(bag, i))
    BY DEF Count, Shares
  <1>7. \A k \in 1..n : f[k] = Share(bag[k], i)
    OBVIOUS
  <1> HIDE DEF f
  <1> QED BY <1>3, <1>5, <1>6, <1>7, TotalInt

(* One stack more at the end of a bag.                                     *)
LEMMA CountAppend ==
    ASSUME NEW bag \in Bags, NEW s \in Stacks, NEW i
    PROVE  Append(bag, s) \in Bags /\ Count(Append(bag, s), i) = Count(bag, i) + Share(s, i)
  <1> DEFINE more == Append(bag, s)
  <1>1. /\ more \in Bags /\ Len(more) = Len(bag) + 1 /\ Len(bag) \in Nat
        /\ \A k \in 1..Len(bag) : more[k] = bag[k]
        /\ more[Len(bag) + 1] = s
    BY AppendProperties DEF Bags
  <1> HIDE DEF more
  <1> DEFINE f == Shares(bag, i)
             g == Shares(more, i)
  <1>2. /\ f \in Seq(Int) /\ Len(f) = Len(bag) /\ Count(bag, i) = Total(f)
        /\ \A k \in 1..Len(bag) : f[k] = Share(bag[k], i)
    BY SharesSeq
  <1>3. /\ g \in Seq(Int) /\ Len(g) = Len(more) /\ Count(more, i) = Total(g)
        /\ \A k \in 1..Len(more) : g[k] = Share(more[k], i)
    BY <1>1, SharesSeq
  <1> HIDE DEF f, g
  <1>4. \A k \in 1..Len(f) : g[k] = f[k]
    BY <1>1, <1>2, <1>3
  <1>5. Len(g) = Len(f) + 1 /\ g[Len(g)] = Share(s, i)
    BY <1>1, <1>2, <1>3
  <1>6. Total(g) = Total(f) + g[Len(g)]
    BY <1>2, <1>3, <1>4, <1>5, TotalAppend
  <1> QED BY <1>1, <1>2, <1>3, <1>5, <1>6 DEF more

(* One stack of a bag replaced.                                            *)
LEMMA CountChanged ==
    ASSUME NEW bag \in Bags, NEW m \in 1..Len(bag), NEW s \in Stacks, NEW i
    PROVE  /\ [bag EXCEPT ![m] = s] \in Bags
           /\ Count([bag EXCEPT ![m] = s], i) = Count(bag, i) - Share(bag[m], i) + Share(s, i)
  <1> DEFINE more == [bag EXCEPT ![m] = s]
  <1>1. /\ more \in Bags /\ Len(more) = Len(bag) /\ Len(bag) \in Nat
        /\ \A k \in 1..Len(bag) : more[k] = IF k = m THEN s ELSE bag[k]
    BY ExceptSeq DEF Bags
  <1> HIDE DEF more
  <1> DEFINE f == Shares(bag, i)
             g == Shares(more, i)
  <1>2. /\ f \in Seq(Int) /\ Len(f) = Len(bag) /\ Count(bag, i) = Total(f)
        /\ \A k \in 1..Len(bag) : f[k] = Share(bag[k], i)
    BY SharesSeq
  <1>3. /\ g \in Seq(Int) /\ Len(g) = Len(more) /\ Count(more, i) = Total(g)
        /\ \A k \in 1..Len(more) : g[k] = Share(more[k], i)
    BY <1>1, SharesSeq
  <1> HIDE DEF f, g
  <1>4. \A k \in 1..Len(f) : k # m => g[k] = f[k]
    BY <1>1, <1>2, <1>3
  <1>5. Len(g) = Len(f) /\ m \in 1..Len(f) /\ f[m] = Share(bag[m], i) /\ g[m] = Share(s, i)
    BY <1>1, <1>2, <1>3
  <1>6. Total(g) = Total(f) - f[m] + g[m]
    BY <1>2, <1>3, <1>4, <1>5, TotalChanged
  <1> QED BY <1>1, <1>2, <1>3, <1>5, <1>6 DEF more

(* One place of a sequence left out. *)
LEMMA RemoveAtPlaces ==
    ASSUME NEW S, NEW q \in Seq(S), NEW m \in 1..Len(q)
    PROVE  /\ RemoveAt(q, m) \in Seq(S) /\ Len(RemoveAt(q, m)) = Len(q) - 1
           /\ \A k \in 1..(Len(q) - 1) : RemoveAt(q, m)[k] = IF k < m THEN q[k] ELSE q[k + 1]
  <1> DEFINE n == Len(q)
             s == SubSeq(q, 1, m - 1)
             t == SubSeq(q, m + 1, n)
  <1>1. n \in Nat /\ m \in 1..n /\ m - 1 \in Int /\ m + 1 \in Int /\ \A k \in 1..n : q[k] \in S
    OBVIOUS
  <1>2. s \in Seq(S) /\ Len(s) = m - 1 /\ \A k \in 1..(m - 1) : s[k] = q[k]
    <2> HIDE DEF n
    <2>1. \A k \in 1..(m - 1) : q[k] \in S
      BY <1>1
    <2>2. /\ s \in Seq(S) /\ Len(s) = IF 1 <= m - 1 THEN (m - 1) - 1 + 1 ELSE 0
          /\ \A k \in 1..((m - 1) - 1 + 1) : s[k] = q[1 + k - 1]
      BY <1>1, <2>1, SubSeqProperties
    <2> HIDE DEF s
    <2> QED BY <1>1, <2>2
  <1>3. t \in Seq(S) /\ Len(t) = n - m /\ \A k \in 1..(n - m) : t[k] = q[m + k]
    <2> HIDE DEF n
    <2>1. \A k \in (m + 1)..n : q[k] \in S
      BY <1>1
    <2>2. /\ t \in Seq(S) /\ Len(t) = IF m + 1 <= n THEN n - (m + 1) + 1 ELSE 0
          /\ \A k \in 1..(n - (m + 1) + 1) : t[k] = q[(m + 1) + k - 1]
      BY <1>1, <2>1, SubSeqProperties
    <2> HIDE DEF t
    <2>3. \A k \in 1..(n - m) : (m + 1) + k - 1 = m + k /\ k \in 1..(n - (m + 1) + 1)
      BY <1>1
    <2> QED BY <1>1, <2>2, <2>3
  <1>4. RemoveAt(q, m) = s \o t
    BY DEF RemoveAt
  <1> HIDE DEF n, s, t
  <1>5. /\ s \o t \in Seq(S) /\ Len(s \o t) = Len(s) + Len(t)
        /\ \A k \in 1..(Len(s) + Len(t)) :
              (s \o t)[k] = IF k <= Len(s) THEN s[k] ELSE t[k - Len(s)]
    BY <1>2, <1>3, ConcatProperties
  <1>6. Len(s \o t) = n - 1
    BY <1>1, <1>2, <1>3, <1>5
  <1>7. ASSUME NEW k \in 1..(n - 1)
        PROVE  (s \o t)[k] = IF k < m THEN q[k] ELSE q[k + 1]
    <2>1. k \in 1..(Len(s) + Len(t))
      BY <1>1, <1>2, <1>3
    <2>2. CASE k < m
      <3>1. k \in 1..(m - 1) /\ k <= Len(s)
        BY <1>1, <1>2, <2>2
      <3> QED BY <1>2, <1>5, <2>1, <2>2, <3>1
    <2>3. CASE ~ (k < m)
      <3>1. k - (m - 1) \in 1..(n - m) /\ ~ (k <= Len(s)) /\ m + (k - (m - 1)) = k + 1
        BY <1>1, <1>2, <2>3
      <3> QED BY <1>2, <1>3, <1>5, <2>1, <2>3, <3>1
    <2> QED BY <2>2, <2>3
  <1> QED BY <1>4, <1>5, <1>6, <1>7 DEF n

(* One stack of a bag left out.                                            *)
LEMMA CountWithout ==
    ASSUME NEW bag \in Bags, NEW m \in 1..Len(bag), NEW i
    PROVE  /\ RemoveAt(bag, m) \in Bags
           /\ Count(RemoveAt(bag, m), i) = Count(bag, i) - Share(bag[m], i)
  <1> DEFINE more == RemoveAt(bag, m)
  <1>1. /\ more \in Bags /\ Len(more) = Len(bag) - 1 /\ Len(bag) \in Nat
        /\ \A k \in 1..(Len(bag) - 1) : more[k] = IF k < m THEN bag[k] ELSE bag[k + 1]
    BY RemoveAtPlaces DEF Bags
  <1> HIDE DEF more
  <1> DEFINE f == Shares(bag, i)
             g == Shares(more, i)
  <1>2. /\ f \in Seq(Int) /\ Len(f) = Len(bag) /\ Count(bag, i) = Total(f)
        /\ \A k \in 1..Len(bag) : f[k] = Share(bag[k], i)
    BY SharesSeq
  <1>3. /\ g \in Seq(Int) /\ Len(g) = Len(more) /\ Count(more, i) = Total(g)
        /\ \A k \in 1..Len(more) : g[k] = Share(more[k], i)
    BY <1>1, SharesSeq
  <1> HIDE DEF f, g
  <1>4. \A k \in 1..Len(g) : g[k] = IF k < m THEN f[k] ELSE f[k + 1]
    <2>1. \A k \in 1..Len(g) : k \in 1..Len(bag) /\ k + 1 \in 1..Len(bag)
      BY <1>1, <1>3
    <2> QED BY <1>1, <1>2, <1>3, <2>1
  <1>5. Len(g) = Len(f) - 1 /\ m \in 1..Len(f) /\ f[m] = Share(bag[m], i)
    BY <1>1, <1>2, <1>3
  <1>6. Total(g) = Total(f) - f[m]
    BY <1>2, <1>3, <1>4, <1>5, TotalWithout
  <1> QED BY <1>1, <1>2, <1>3, <1>5, <1>6 DEF more

(* At finds a stack of the item, if there is one.                          *)
LEMMA FoundAt ==
    ASSUME NEW bag \in Bags, NEW id
    PROVE  /\ At(bag, id) \in 0..Len(bag)
           /\ At(bag, id) # 0 => bag[At(bag, id)].id = id
           /\ At(bag, id) = 0 => \A k \in 1..Len(bag) : bag[k].id # id
  <1> DEFINE I == {k \in 1..Len(bag) : bag[k].id = id}
  <1>1. At(bag, id) = IF I # {} THEN Min(I) ELSE 0
    BY DEF At, SelectInSeq
  <1>2. Len(bag) \in Nat
    BY DEF Bags
  <1>3. CASE I = {}
    BY <1>1, <1>2, <1>3
  <1>4. CASE I # {}
    <2>1. Min(I) \in I
      <3>1. I \in SUBSET Nat
        BY <1>2
      <3> HIDE DEF I
      <3> QED BY <1>4, <3>1, LeastOf
    <2>2. At(bag, id) = Min(I)
      BY <1>1, <1>4
    <2> QED BY <1>2, <2>1, <2>2
  <1> QED BY <1>3, <1>4

(* Adding a stack adds its count, modulo the width; taking one item away   *)
(* takes one.                                                              *)
LEMMA AddToCounts ==
    ASSUME NEW bag \in Bags, NEW s \in Stacks, NEW i
    PROVE  /\ AddTo(bag, s) \in Bags
           /\ ((Count(AddTo(bag, s), i) - Count(bag, i) - Share(s, i)) % CountMod) = 0
  <1> DEFINE m == At(bag, s.id)
  <1>1. Count(bag, i) \in Int /\ s.count \in 0..(CountMod - 1) /\ CountMod \in Nat \ {0, 1}
    BY SharesSeq, HuntAssumption DEF Stacks
  <1>2. m \in 0..Len(bag) /\ (m # 0 => bag[m].id = s.id) /\ Len(bag) \in Nat
    BY FoundAt DEF Bags
  <1>3. Share(s, i) \in Int
    BY <1>1 DEF Share
  <1>4. CASE s.count = 0
    <2>1. AddTo(bag, s) = bag /\ Share(s, i) = 0
      BY <1>4 DEF AddTo, Share
    <2> QED BY <1>1, <2>1, ModZero
  <1>5. CASE s.count # 0 /\ m = 0
    <2>1. AddTo(bag, s) = Append(bag, s)
      BY <1>5 DEF AddTo
    <2>2. Append(bag, s) \in Bags /\ Count(Append(bag, s), i) = Count(bag, i) + Share(s, i)
      BY CountAppend
    <2>3. Count(Append(bag, s), i) - Count(bag, i) - Share(s, i) = 0
      BY <1>1, <1>3, <2>2
    <2> QED BY <2>1, <2>2, <2>3, ModZero
  <1>6. CASE s.count # 0 /\ m # 0
    <2> DEFINE sum == bag[m].count + s.count
               full == [bag[m] EXCEPT !.count = (sum % CountMod)]
    <2>1. AddTo(bag, s) = [bag EXCEPT ![m] = full]
      BY <1>6 DEF AddTo
    <2>2. m \in 1..Len(bag) /\ bag[m] \in Stacks /\ bag[m].id = s.id
      BY <1>2, <1>6 DEF Bags
    <2>3. sum \in Int /\ bag[m].count \in Int
      BY <1>1, <2>2 DEF Stacks
    <2>4. (sum % CountMod) \in 0..(CountMod - 1)
      <3> HIDE DEF sum
      <3> QED BY <2>3, ModOfMultiple
    <2> HIDE DEF m
    <2>5. full \in Stacks /\ full.id = s.id /\ full.count = (sum % CountMod)
      <3> HIDE DEF sum
      <3> QED BY <2>2, <2>4 DEF Stacks
    <2> HIDE DEF full
    <2>6. /\ [bag EXCEPT ![m] = full] \in Bags
          /\ Count([bag EXCEPT ![m] = full], i)
                = Count(bag, i) - Share(bag[m], i) + Share(full, i)
      BY <2>2, <2>5, CountChanged
    <2>7. Share(full, i) - Share(bag[m], i) - Share(s, i)
             = IF s.id = i THEN (sum % CountMod) - sum ELSE 0
      <3>1. CASE s.id = i
        <4>1. Share(full, i) = (sum % CountMod) /\ Share(bag[m], i) = bag[m].count
              /\ Share(s, i) = s.count
          BY <2>2, <2>5, <3>1 DEF Share
        <4> QED BY <1>1, <2>3, <2>4, <3>1, <4>1
      <3>2. CASE s.id # i
        <4>1. Share(full, i) = 0 /\ Share(bag[m], i) = 0 /\ Share(s, i) = 0
          BY <2>2, <2>5, <3>2 DEF Share
        <4> QED BY <3>2, <4>1
      <3> QED BY <3>1, <3>2
    <2>8. Share(full, i) \in Int /\ Share(bag[m], i) \in Int
      BY <2>2, <2>3, <2>4, <2>5 DEF Share
    <2> DEFINE d == Share(full, i) - Share(bag[m], i) - Share(s, i)
    <2>9. (d % CountMod) = 0
      <3>1. (((sum % CountMod) - sum) % CountMod) = 0
        <4> HIDE DEF sum
        <4> QED BY <2>3, ModRest
      <3> HIDE DEF d
      <3>2. d = IF s.id = i THEN (sum % CountMod) - sum ELSE 0
        BY <2>7 DEF d
      <3> HIDE DEF sum
      <3> QED BY <3>1, <3>2, ModZero
    <2>10. Count([bag EXCEPT ![m] = full], i) - Count(bag, i) - Share(s, i) = d
      BY <1>1, <1>3, <2>6, <2>8
    <2> HIDE DEF d
    <2> QED BY <2>1, <2>6, <2>9, <2>10
  <1> QED BY <1>2, <1>4, <1>5, <1>6

(* Taking one item out of a bag takes one, modulo the width.               *)
LEMMA RemoveFromCounts ==
    ASSUME NEW bag \in Bags, NEW id, At(bag, id) # 0, NEW i
    PROVE  /\ RemoveFrom(bag, id) \in Bags
           /\ ((Count(RemoveFrom(bag, id), i) - Count(bag, i) + (IF id = i THEN 1 ELSE 0))
                 % CountMod) = 0
  <1> DEFINE m == At(bag, id)
             low == bag[m].count - 1
             left == (low % CountMod)
             one == IF id = i THEN 1 ELSE 0
  <1>1. m \in 1..Len(bag) /\ bag[m].id = id /\ bag[m] \in Stacks
    <2>1. m \in 0..Len(bag) /\ bag[m].id = id /\ Len(bag) \in Nat
      BY FoundAt DEF Bags
    <2>2. m \in 1..Len(bag)
      BY <2>1
    <2> QED BY <2>1, <2>2 DEF Bags
  <1>2. Count(bag, i) \in Int /\ CountMod \in Nat \ {0, 1} /\ bag[m].count \in Int
    BY <1>1, SharesSeq, HuntAssumption DEF Stacks
  <1>3. RemoveFrom(bag, id)
          = IF left = 0 THEN RemoveAt(bag, m)
            ELSE [bag EXCEPT ![m] = [bag[m] EXCEPT !.count = left]]
    BY DEF RemoveFrom
  <1> HIDE DEF m
  <1>4. low \in Int /\ bag[m].count = low + 1
    BY <1>2
  <1> HIDE DEF low
  <1>5. /\ left \in 0..(CountMod - 1)
        /\ ((left - low) % CountMod) = 0 /\ ((low - left) % CountMod) = 0
    <2>1. left \in 0..(CountMod - 1) /\ (((left - low) % CountMod) = 0)
      BY <1>4, ModOfMultiple, ModRest
    <2>2. 0 - (left - low) = low - left /\ left - low \in Int
      BY <1>2, <1>4, <2>1
    <2>3. ((0 - (left - low)) % CountMod) = 0
      BY <2>1, <2>2, ModZero, ModSum
    <2> QED BY <2>1, <2>2, <2>3
  <1> HIDE DEF left
  <1>6. Share(bag[m], i) = IF id = i THEN low + 1 ELSE 0
    BY <1>1, <1>4 DEF Share
  <1>7. CASE left = 0
    <2>1. /\ RemoveAt(bag, m) \in Bags
          /\ Count(RemoveAt(bag, m), i) = Count(bag, i) - Share(bag[m], i)
      BY <1>1, CountWithout
    <2>2. Count(RemoveAt(bag, m), i) - Count(bag, i) + one = IF id = i THEN left - low ELSE 0
      BY <1>2, <1>4, <1>6, <1>7, <2>1
    <2> HIDE DEF one
    <2>3. ((Count(RemoveAt(bag, m), i) - Count(bag, i) + one) % CountMod) = 0
      BY <1>5, <2>2, ModZero
    <2> QED BY <1>3, <1>7, <2>1, <2>3 DEF one
  <1>8. CASE left # 0
    <2> DEFINE less == [bag[m] EXCEPT !.count = left]
    <2>1. less \in Stacks /\ less.id = id /\ less.count = left
      BY <1>1, <1>5 DEF Stacks
    <2> HIDE DEF less
    <2>2. /\ [bag EXCEPT ![m] = less] \in Bags
          /\ Count([bag EXCEPT ![m] = less], i)
                = Count(bag, i) - Share(bag[m], i) + Share(less, i)
      BY <1>1, <2>1, CountChanged
    <2>3. Share(less, i) = IF id = i THEN left ELSE 0
      BY <2>1 DEF Share
    <2>4. Count([bag EXCEPT ![m] = less], i) - Count(bag, i) + one
             = IF id = i THEN left - low ELSE 0
      BY <1>2, <1>4, <1>5, <1>6, <2>2, <2>3
    <2> HIDE DEF one
    <2>5. ((Count([bag EXCEPT ![m] = less], i) - Count(bag, i) + one) % CountMod) = 0
      BY <1>5, <2>4, ModZero
    <2> QED BY <1>3, <1>8, <2>2, <2>5 DEF one, less
  <1> QED BY <1>7, <1>8

-----------------------------------------------------------------------------
(* What is worn. *)

Wears(worn, i) == {s \in Slots : worn[s] = i}

Outfits == [Slots -> Items \cup {None}]

(* There are finitely many slots, for there are finitely many items.       *)
LEMMA SlotsFinite == IsFiniteSet(Slots)
  <1>1. IsFiniteSet({SlotOf[i] : i \in Items})
    <2> DEFINE f == [i \in Items |-> SlotOf[i]]
               T == {SlotOf[i] : i \in Items}
    <2>1. f \in Surjection(Items, T)
      BY DEF Surjection
    <2> HIDE DEF f
    <2>2. IsFiniteSet(T)
      <3> HIDE DEF T
      <3> QED BY <2>1, HuntAssumption, FS_Surjection
    <2> QED BY <2>2
  <1> QED BY <1>1, FS_Difference DEF Slots

(* A slot that changes hands changes what is worn of two items.            *)
LEMMA WornCounts ==
    ASSUME NEW worn \in Outfits, NEW slot \in Slots, NEW it \in Items \cup {None}, NEW i \in Items
    PROVE  /\ [worn EXCEPT ![slot] = it] \in Outfits
           /\ Cardinality(Wears(worn, i)) \in Nat
           /\ Cardinality(Wears([worn EXCEPT ![slot] = it], i))
                = Cardinality(Wears(worn, i)) - (IF worn[slot] = i THEN 1 ELSE 0)
                    + (IF it = i THEN 1 ELSE 0)
  <1> DEFINE now == [worn EXCEPT ![slot] = it]
             A == Wears(worn, i)
             B == Wears(now, i)
  <1>1. now \in Outfits
    BY DEF Outfits
  <1>2. IsFiniteSet(A) /\ IsFiniteSet(B)
    <2>1. A \subseteq Slots /\ B \subseteq Slots
      BY DEF Wears
    <2> HIDE DEF A, B
    <2> QED BY <2>1, SlotsFinite, FS_Subset
  <1>3. \A s \in Slots : now[s] = IF s = slot THEN it ELSE worn[s]
    BY DEF Outfits
  <1>4. slot \in A <=> worn[slot] = i
    BY DEF Wears
  <1>5. slot \in B <=> it = i
    BY <1>3 DEF Wears
  <1> HIDE DEF now
  <1>6. A \ {slot} = B \ {slot}
    BY <1>3 DEF Wears
  <1> HIDE DEF A, B
  <1>7. /\ Cardinality(A) \in Nat /\ Cardinality(B) \in Nat
        /\ Cardinality(A \ {slot}) = IF slot \in A THEN Cardinality(A) - 1 ELSE Cardinality(A)
        /\ Cardinality(B \ {slot}) = IF slot \in B THEN Cardinality(B) - 1 ELSE Cardinality(B)
    BY <1>2, FS_CardinalityType, FS_RemoveElement
  <1>8. Cardinality(B) = Cardinality(A) - (IF worn[slot] = i THEN 1 ELSE 0)
                           + (IF it = i THEN 1 ELSE 0)
    <2>1. Cardinality(A \ {slot}) = Cardinality(A) - (IF worn[slot] = i THEN 1 ELSE 0)
      BY <1>4, <1>7
    <2>2. Cardinality(B \ {slot}) = Cardinality(B) - (IF it = i THEN 1 ELSE 0)
      BY <1>5, <1>7
    <2>3. Cardinality(A) - (IF worn[slot] = i THEN 1 ELSE 0)
             = Cardinality(B) - (IF it = i THEN 1 ELSE 0)
      BY <1>6, <2>1, <2>2
    <2> DEFINE a == IF worn[slot] = i THEN 1 ELSE 0
               b == IF it = i THEN 1 ELSE 0
    <2>4. a \in Int /\ b \in Int
      OBVIOUS
    <2> HIDE DEF a, b
    <2>5. Cardinality(B) = Cardinality(A) - a + b
      BY <1>7, <2>3, <2>4 DEF a, b
    <2> QED BY <2>5 DEF a, b
  <1> QED BY <1>1, <1>7, <1>8 DEF A, B, now

-----------------------------------------------------------------------------
(* What lies in corpses. *)

Heaps == [tile : Tiles, items : Bags \ {<<>>}]

Lain(corpses, i) == [k \in DOMAIN corpses |-> Count(corpses[k].items, i)]

(* Every corpse in a sequence of them has items.                           *)
LEMMA HeapItems ==
    ASSUME NEW corpses \in Seq(Heaps)
    PROVE  /\ Len(corpses) \in Nat /\ DOMAIN corpses = 1..Len(corpses)
           /\ \A k \in 1..Len(corpses) : /\ corpses[k] \in Heaps
                                         /\ corpses[k].items \in Bags
                                         /\ corpses[k].items # <<>>
  <1>1. \A h \in Heaps : h.items \in Bags /\ h.items # <<>>
    BY DEF Heaps
  <1>2. \A k \in 1..Len(corpses) : corpses[k] \in Heaps
    OBVIOUS
  <1>3. Len(corpses) \in Nat /\ DOMAIN corpses = 1..Len(corpses)
    OBVIOUS
  <1> QED BY <1>1, <1>2, <1>3

(* What lies of an item is the sum over the corpses.                       *)
LEMMA LainSeq ==
    ASSUME NEW corpses \in Seq(Heaps), NEW i
    PROVE  /\ Lain(corpses, i) \in Seq(Int) /\ Len(Lain(corpses, i)) = Len(corpses)
           /\ \A k \in 1..Len(corpses) : Lain(corpses, i)[k] = Count(corpses[k].items, i)
           /\ Total(Lain(corpses, i)) \in Int
  <1>1. /\ Len(corpses) \in Nat /\ DOMAIN corpses = 1..Len(corpses)
        /\ \A k \in 1..Len(corpses) : corpses[k].items \in Bags
    BY HeapItems
  <1>2. \A k \in 1..Len(corpses) : Count(corpses[k].items, i) \in Int
    BY <1>1, SharesSeq
  <1> DEFINE n == Len(corpses)
             f == [k \in 1..n |-> Count(corpses[k].items, i)]
  <1>3. Lain(corpses, i) = f
    BY <1>1 DEF Lain
  <1>4. f \in [1..n -> Int]
    BY <1>2
  <1>5. f \in Seq(Int) /\ Len(f) = n
    <2> HIDE DEF f, n
    <2>1. n \in Nat
      BY <1>1 DEF n
    <2>2. f \in Seq(Int)
      BY <1>4, <2>1, SeqDef
    <2>3. DOMAIN f = 1..n /\ DOMAIN f = 1..Len(f) /\ Len(f) \in Nat
      BY <1>4, <2>2, LenProperties
    <2> QED BY <2>1, <2>2, <2>3
  <1>6. \A k \in 1..n : f[k] = Count(corpses[k].items, i)
    OBVIOUS
  <1> HIDE DEF f
  <1> QED BY <1>3, <1>5, <1>6, TotalInt

(* One corpse more.                                                        *)
LEMMA LainAppend ==
    ASSUME NEW corpses \in Seq(Heaps), NEW h \in Heaps, NEW i
    PROVE  /\ Append(corpses, h) \in Seq(Heaps)
           /\ Total(Lain(Append(corpses, h), i)) = Total(Lain(corpses, i)) + Count(h.items, i)
  <1> DEFINE more == Append(corpses, h)
  <1>1. /\ more \in Seq(Heaps) /\ Len(more) = Len(corpses) + 1 /\ Len(corpses) \in Nat
        /\ \A k \in 1..Len(corpses) : more[k] = corpses[k]
        /\ more[Len(corpses) + 1] = h
    BY AppendProperties
  <1> HIDE DEF more
  <1> DEFINE f == Lain(corpses, i)
             g == Lain(more, i)
  <1>2. /\ f \in Seq(Int) /\ Len(f) = Len(corpses)
        /\ \A k \in 1..Len(corpses) : f[k] = Count(corpses[k].items, i)
    BY LainSeq
  <1>3. /\ g \in Seq(Int) /\ Len(g) = Len(more)
        /\ \A k \in 1..Len(more) : g[k] = Count(more[k].items, i)
    BY <1>1, LainSeq
  <1> HIDE DEF f, g
  <1>4. \A k \in 1..Len(f) : g[k] = f[k]
    BY <1>1, <1>2, <1>3
  <1>5. Len(g) = Len(f) + 1 /\ g[Len(g)] = Count(h.items, i)
    BY <1>1, <1>2, <1>3
  <1>6. Total(g) = Total(f) + g[Len(g)]
    BY <1>2, <1>3, <1>4, <1>5, TotalAppend
  <1> QED BY <1>1, <1>5, <1>6 DEF more, f, g

(* One corpse replaced.                                                    *)
LEMMA LainChanged ==
    ASSUME NEW corpses \in Seq(Heaps), NEW m \in 1..Len(corpses), NEW h \in Heaps, NEW i
    PROVE  /\ [corpses EXCEPT ![m] = h] \in Seq(Heaps)
           /\ Total(Lain([corpses EXCEPT ![m] = h], i))
                = Total(Lain(corpses, i)) - Count(corpses[m].items, i) + Count(h.items, i)
  <1> DEFINE more == [corpses EXCEPT ![m] = h]
  <1>1. /\ more \in Seq(Heaps) /\ Len(more) = Len(corpses) /\ Len(corpses) \in Nat
        /\ \A k \in 1..Len(corpses) : more[k] = IF k = m THEN h ELSE corpses[k]
    BY ExceptSeq
  <1> HIDE DEF more
  <1> DEFINE f == Lain(corpses, i)
             g == Lain(more, i)
  <1>2. /\ f \in Seq(Int) /\ Len(f) = Len(corpses)
        /\ \A k \in 1..Len(corpses) : f[k] = Count(corpses[k].items, i)
    BY LainSeq
  <1>3. /\ g \in Seq(Int) /\ Len(g) = Len(more)
        /\ \A k \in 1..Len(more) : g[k] = Count(more[k].items, i)
    BY <1>1, LainSeq
  <1> HIDE DEF f, g
  <1>4. \A k \in 1..Len(f) : k # m => g[k] = f[k]
    BY <1>1, <1>2, <1>3
  <1>5. /\ Len(g) = Len(f) /\ m \in 1..Len(f)
        /\ f[m] = Count(corpses[m].items, i) /\ g[m] = Count(h.items, i)
    BY <1>1, <1>2, <1>3
  <1>6. Total(g) = Total(f) - f[m] + g[m]
    BY <1>2, <1>3, <1>4, <1>5, TotalChanged
  <1> QED BY <1>1, <1>5, <1>6 DEF more, f, g

(* A corpse destroyed takes its items along, whichever place it had. *)
LEMMA WithoutCorpseCounts ==
    ASSUME NEW corpses \in Seq(Heaps), NEW m \in 1..Len(corpses), NEW i
    PROVE  /\ WithoutCorpse(corpses, m) \in Seq(Heaps)
           /\ Total(Lain(WithoutCorpse(corpses, m), i))
                = Total(Lain(corpses, i)) - Count(corpses[m].items, i)
  <1> DEFINE n == Len(corpses)
             last == corpses[n]
             full == IF m = n THEN corpses ELSE [corpses EXCEPT ![m] = last]
  <1>1. n \in Nat \ {0} /\ m \in 1..n /\ n \in 1..n /\ last \in Heaps
    OBVIOUS
  <1>2. WithoutCorpse(corpses, m) = SubSeq(full, 1, n - 1)
    BY DEF WithoutCorpse
  <1> HIDE DEF n
  <1>3. /\ full \in Seq(Heaps) /\ Len(full) = n /\ full[n] = last
        /\ Total(Lain(full, i)) = Total(Lain(corpses, i)) - Count(corpses[m].items, i)
                                     + Count(last.items, i)
    <2>1. Total(Lain(corpses, i)) \in Int /\ Count(last.items, i) \in Int
      <3>1. last.items \in Bags
        BY <1>1, HeapItems DEF n
      <3> HIDE DEF last
      <3> QED BY <3>1, LainSeq, SharesSeq
    <2>2. CASE m = n
      BY <1>1, <2>1, <2>2 DEF n
    <2>3. CASE m # n
      <3>1. full = [corpses EXCEPT ![m] = last]
        BY <2>3
      <3> HIDE DEF last
      <3>2. /\ [corpses EXCEPT ![m] = last] \in Seq(Heaps)
            /\ Total(Lain([corpses EXCEPT ![m] = last], i))
                = Total(Lain(corpses, i)) - Count(corpses[m].items, i) + Count(last.items, i)
        BY <1>1, LainChanged
      <3>3. Len([corpses EXCEPT ![m] = last]) = n /\ [corpses EXCEPT ![m] = last][n] = last
        BY <1>1, <2>3 DEF n, last
      <3> QED BY <3>1, <3>2, <3>3
    <2> QED BY <2>2, <2>3
  <1> HIDE DEF full, last
  <1> DEFINE less == SubSeq(full, 1, n - 1)
  <1>4. less \in Seq(Heaps) /\ Len(less) = n - 1 /\ \A k \in 1..(n - 1) : less[k] = full[k]
    <2>1. \A k \in 1..(n - 1) : full[k] \in Heaps
      BY <1>1, <1>3
    <2>2. n - 1 \in Int
      BY <1>1
    <2>3. /\ less \in Seq(Heaps) /\ Len(less) = IF 1 <= n - 1 THEN (n - 1) - 1 + 1 ELSE 0
          /\ \A k \in 1..((n - 1) - 1 + 1) : less[k] = full[1 + k - 1]
      BY <2>1, <2>2, SubSeqProperties
    <2> HIDE DEF less
    <2> QED BY <1>1, <2>3
  <1> HIDE DEF less
  <1> DEFINE f == Lain(less, i)
             g == Lain(full, i)
  <1>5. /\ f \in Seq(Int) /\ Len(f) = Len(less)
        /\ \A k \in 1..Len(less) : f[k] = Count(less[k].items, i)
    BY <1>4, LainSeq
  <1>6. /\ g \in Seq(Int) /\ Len(g) = n
        /\ \A k \in 1..n : g[k] = Count(full[k].items, i)
    BY <1>3, LainSeq
  <1>7. Count(last.items, i) \in Int /\ Total(Lain(corpses, i)) \in Int
        /\ Count(corpses[m].items, i) \in Int
    <2>1. corpses[m].items \in Bags /\ last.items \in Bags
      BY <1>1, HeapItems DEF last, n
    <2> QED BY <2>1, LainSeq, SharesSeq
  <1>8. f \in Seq(Int) /\ Total(f) \in Int
    BY <1>5, TotalInt
  <1>13. Total(g) = Total(Lain(corpses, i)) - Count(corpses[m].items, i) + Count(last.items, i)
    BY <1>3
  <1> HIDE DEF f, g
  <1>14. Len(f) = n - 1 /\ \A k \in 1..(n - 1) : k \in 1..n
    BY <1>1, <1>4, <1>5
  <1>9. \A k \in 1..Len(f) : g[k] = f[k]
    BY <1>4, <1>5, <1>6, <1>14
  <1>10. Len(g) = Len(f) + 1 /\ g[Len(g)] = Count(last.items, i)
    BY <1>1, <1>3, <1>6, <1>14
  <1>11. Total(g) = Total(f) + g[Len(g)]
    BY <1>5, <1>6, <1>9, <1>10, TotalAppend
  <1>12. Total(f) = Total(Lain(corpses, i)) - Count(corpses[m].items, i)
    BY <1>7, <1>8, <1>10, <1>11, <1>13
  <1> QED BY <1>2, <1>4, <1>12 DEF f, less

Stocked(w) ==
    /\ Fields \subseteq DOMAIN w
    /\ w.bag \in Bags /\ w.worn \in Outfits /\ w.corpses \in Seq(Heaps)
    /\ w.made \in [Items -> Int]
    /\ Player \in DOMAIN w.hp /\ w.at \in [DOMAIN w.hp -> Tiles]

Owed(w, i) == Held(w, i) - w.made[i]

Goods(w) == Stocked(w) /\ \A i \in Items : (Owed(w, i) % CountMod) = 0

(* What a world holds of an item, in the bag, worn and lying.              *)
LEMMA HeldParts ==
    ASSUME NEW w, Stocked(w), NEW i \in Items
    PROVE  /\ Held(w, i) = Count(w.bag, i) + Cardinality(Wears(w.worn, i))
                               + Total(Lain(w.corpses, i))
           /\ Count(w.bag, i) \in Int /\ Cardinality(Wears(w.worn, i)) \in Int
           /\ Total(Lain(w.corpses, i)) \in Int /\ w.made[i] \in Int
           /\ Owed(w, i) \in Int
  <1>1. Count(w.bag, i) \in Int /\ Total(Lain(w.corpses, i)) \in Int /\ w.made[i] \in Int
    BY SharesSeq, LainSeq DEF Stocked
  <1>2. Cardinality(Wears(w.worn, i)) \in Int
    <2>1. Wears(w.worn, i) \subseteq Slots
      BY DEF Wears
    <2>2. IsFiniteSet(Wears(w.worn, i))
      BY <2>1, SlotsFinite, FS_Subset
    <2> QED BY <2>2, FS_CardinalityType
  <1>3. Held(w, i) = Count(w.bag, i) + Cardinality(Wears(w.worn, i)) + Total(Lain(w.corpses, i))
    BY DEF Held, Wears, Lain
  <1> QED BY <1>1, <1>2, <1>3 DEF Owed

(* A change by a multiple of the width keeps the balance.                  *)
LEMMA GoodsCarry ==
    ASSUME NEW w, Goods(w), NEW v, Stocked(v),
           \A i \in Items : ((Owed(v, i) - Owed(w, i)) % CountMod) = 0
    PROVE  Goods(v)
  <1>1. SUFFICES ASSUME NEW i \in Items PROVE (Owed(v, i) % CountMod) = 0
    BY DEF Goods
  <1> DEFINE a == Owed(w, i)
             b == Owed(v, i)
             d == b - a
  <1>2. a \in Int /\ b \in Int /\ (a % CountMod) = 0 /\ (d % CountMod) = 0
    BY HeldParts DEF Goods
  <1> HIDE DEF a, b
  <1>3. d \in Int /\ a + d = b
    BY <1>2
  <1> HIDE DEF d
  <1>4. ((a + d) % CountMod) = 0
    BY <1>2, <1>3, ModSum
  <1> QED BY <1>3, <1>4 DEF b

SameStock(w, v) ==
    /\ Fields \subseteq DOMAIN v
    /\ v.bag = w.bag /\ v.worn = w.worn /\ v.corpses = w.corpses /\ v.made = w.made
    /\ Player \in DOMAIN v.hp /\ v.at \in [DOMAIN v.hp -> Tiles]

(* So does what touches no items.                                          *)
LEMMA SameStockGoods ==
    ASSUME NEW w, NEW v, Goods(w), SameStock(w, v)
    PROVE  Goods(v)
  <1>1. Stocked(v)
    BY DEF Goods, Stocked, SameStock
  <1>2. \A i \in Items : Owed(v, i) = Owed(w, i)
    BY DEF SameStock, Owed, Held
  <1> QED BY <1>1, <1>2 DEF Goods

(* One item is a stack of it.                                              *)
LEMMA OneIsStack == \A id \in Items : One(id) \in Stacks /\ One(id).id = id /\ One(id).count = 1
  BY HuntAssumption DEF One, Stacks

(* Putting on takes one item out of the bag and brings what it replaces     *)
(* back into it.                                                            *)
LEMMA EquipGoods ==
    ASSUME NEW w, Goods(w), NEW id
    PROVE  Goods(Equip(w, id))
  <1> DEFINE slot == SlotOf[id]
             old == w.worn[slot]
             bag == RemoveFrom(w.bag, id)
             full == IF old = None THEN bag ELSE AddTo(bag, One(old))
  <1>1. CASE slot = NoSlot \/ At(w.bag, id) = 0
    BY <1>1 DEF Equip
  <1>2. CASE slot # NoSlot /\ At(w.bag, id) # 0
    <2> DEFINE v == [w EXCEPT !.worn[slot] = id, !.bag = full]
    <2>1. Equip(w, id) = v
      BY <1>2 DEF Equip
    <2>2. w.bag \in Bags /\ w.worn \in Outfits
      BY DEF Goods, Stocked
    <2>3. id \in Items /\ slot \in Slots /\ old \in Items \cup {None}
      <3>1. At(w.bag, id) \in 1..Len(w.bag) /\ w.bag[At(w.bag, id)].id = id
        <4>1. At(w.bag, id) \in 0..Len(w.bag) /\ w.bag[At(w.bag, id)].id = id
          BY <1>2, <2>2, FoundAt
        <4> QED BY <1>2, <4>1
      <3>2. w.bag[At(w.bag, id)] \in Stacks
        BY <2>2, <3>1, ElementOfSeq DEF Bags
      <3>3. id \in Items
        BY <3>1, <3>2 DEF Stacks
      <3>4. slot \in Slots
        BY <1>2, <3>3 DEF Slots
      <3> QED BY <2>2, <3>3, <3>4 DEF Outfits
    <2>4. v.worn = [w.worn EXCEPT ![slot] = id] /\ v.bag = full /\ v.corpses = w.corpses
          /\ v.made = w.made /\ v.hp = w.hp /\ v.at = w.at /\ Fields \subseteq DOMAIN v
      BY DEF Goods, Stocked, Fields
    <2> HIDE DEF v, slot
    <2>5. bag \in Bags
      BY <1>2, <2>2, RemoveFromCounts
    <2> HIDE DEF bag
    <2>6. full \in Bags
      BY <2>3, <2>5, AddToCounts, OneIsStack
    <2>7. v.worn \in Outfits
      BY <2>2, <2>3, <2>4, WornCounts
    <2> HIDE DEF full
    <2>8. Stocked(v)
      BY <2>4, <2>6, <2>7 DEF Goods, Stocked
    <2>9. ASSUME NEW i \in Items
          PROVE  ((Owed(v, i) - Owed(w, i)) % CountMod) = 0
      <3> DEFINE b0 == Count(w.bag, i)
                 b1 == Count(bag, i)
                 b2 == Count(full, i)
                 one == IF id = i THEN 1 ELSE 0
                 back == IF old = i THEN 1 ELSE 0
                 c0 == Cardinality(Wears(w.worn, i))
                 c1 == Cardinality(Wears(v.worn, i))
                 lies == Total(Lain(w.corpses, i))
                 owe == w.made[i]
      <3>1. ((b1 - b0 + one) % CountMod) = 0
        BY <1>2, <2>2, RemoveFromCounts DEF bag
      <3>2. ((b2 - b1 - back) % CountMod) = 0
        <4>1. CASE old = None
          <5>1. full = bag /\ back = 0
            BY <4>1, HuntAssumption DEF full
          <5>2. b2 - b1 - back = 0
            BY <2>5, <5>1, SharesSeq
          <5> QED BY <5>2, ModZero
        <4>2. CASE old # None
          <5>1. old \in Items /\ full = AddTo(bag, One(old))
            BY <2>3, <4>2 DEF full
          <5>2. Share(One(old), i) = back
            BY <5>1, OneIsStack DEF Share
          <5> HIDE DEF old, back
          <5>3. ((Count(AddTo(bag, One(old)), i) - Count(bag, i) - Share(One(old), i))
                    % CountMod) = 0
            BY <2>5, <5>1, OneIsStack, AddToCounts
          <5> QED BY <5>1, <5>2, <5>3
        <4> QED BY <4>1, <4>2
      <3>3. c1 = c0 - back + one
        BY <2>2, <2>3, <2>4, WornCounts
      <3>4. b0 \in Int /\ b1 \in Int /\ b2 \in Int
        BY <2>2, <2>5, <2>6, SharesSeq
      <3>5. Owed(w, i) = b0 + c0 + lies - owe /\ c0 \in Int /\ lies \in Int /\ owe \in Int
        BY HeldParts DEF Goods, Owed
      <3>6. Owed(v, i) = b2 + c1 + lies - owe
        BY <2>4, <2>8, HeldParts DEF Owed
      <3>7. one \in Int /\ back \in Int
        OBVIOUS
      <3> HIDE DEF b0, b1, b2, one, back, c0, c1, lies, owe
      <3>8. Owed(v, i) - Owed(w, i) = (b1 - b0 + one) + (b2 - b1 - back)
        BY <3>3, <3>4, <3>5, <3>6, <3>7
      <3>9. b1 - b0 + one \in Int /\ b2 - b1 - back \in Int
        BY <3>4, <3>7
      <3> QED BY <3>1, <3>2, <3>8, <3>9, ModSum
    <2> QED BY <2>1, <2>8, <2>9, GoodsCarry
  <1> QED BY <1>1, <1>2

(* Taking off brings one item back into the bag.                           *)
LEMMA UnequipGoods ==
    ASSUME NEW w, Goods(w), NEW slot \in Slots
    PROVE  Goods(Unequip(w, slot))
  <1> DEFINE old == w.worn[slot]
             full == AddTo(w.bag, One(old))
             v == [w EXCEPT !.worn[slot] = None, !.bag = full]
  <1>1. CASE old = None
    BY <1>1 DEF Unequip
  <1>2. CASE old # None
    <2>1. Unequip(w, slot) = v
      BY <1>2 DEF Unequip
    <2>2. w.bag \in Bags /\ w.worn \in Outfits
      BY DEF Goods, Stocked
    <2>3. old \in Items
      BY <1>2, <2>2 DEF Outfits
    <2>4. v.worn = [w.worn EXCEPT ![slot] = None] /\ v.bag = full /\ v.corpses = w.corpses
          /\ v.made = w.made /\ v.hp = w.hp /\ v.at = w.at /\ Fields \subseteq DOMAIN v
      BY DEF Goods, Stocked, Fields
    <2> HIDE DEF v
    <2>5. full \in Bags
      BY <2>2, <2>3, AddToCounts, OneIsStack
    <2>6. v.worn \in Outfits
      BY <2>2, <2>4, WornCounts, HuntAssumption DEF Outfits
    <2>7. Stocked(v)
      BY <2>4, <2>5, <2>6 DEF Goods, Stocked
    <2>8. ASSUME NEW i \in Items
          PROVE  ((Owed(v, i) - Owed(w, i)) % CountMod) = 0
      <3> DEFINE b0 == Count(w.bag, i)
                 b1 == Count(full, i)
                 back == IF old = i THEN 1 ELSE 0
                 c0 == Cardinality(Wears(w.worn, i))
                 c1 == Cardinality(Wears(v.worn, i))
                 lies == Total(Lain(w.corpses, i))
                 owe == w.made[i]
      <3>1. ((b1 - b0 - back) % CountMod) = 0
        <4>1. Share(One(old), i) = back
          BY <2>3, OneIsStack DEF Share
        <4> HIDE DEF old, back
        <4>2. ((Count(AddTo(w.bag, One(old)), i) - Count(w.bag, i) - Share(One(old), i))
                  % CountMod) = 0
          BY <2>2, <2>3, OneIsStack, AddToCounts
        <4> QED BY <4>1, <4>2
      <3>2. c1 = c0 - back
        <4>1. None # i
          BY HuntAssumption
        <4>2. c1 = c0 - back + (IF None = i THEN 1 ELSE 0)
          BY <2>2, <2>4, WornCounts
        <4>3. c0 \in Int /\ back \in Int
          BY HeldParts DEF Goods
        <4> HIDE DEF c1, c0, back
        <4> QED BY <4>1, <4>2, <4>3
      <3>3. b0 \in Int /\ b1 \in Int /\ back \in Int
        BY <2>2, <2>5, SharesSeq
      <3>4. Owed(w, i) = b0 + c0 + lies - owe /\ c0 \in Int /\ lies \in Int /\ owe \in Int
        BY HeldParts DEF Goods, Owed
      <3>5. Owed(v, i) = b1 + c1 + lies - owe
        BY <2>4, <2>7, HeldParts DEF Owed
      <3> HIDE DEF b0, b1, back, c0, c1, lies, owe
      <3>6. Owed(v, i) - Owed(w, i) = b1 - b0 - back
        BY <3>2, <3>3, <3>4, <3>5
      <3> QED BY <3>1, <3>6
    <2> QED BY <2>1, <2>7, <2>8, GoodsCarry
  <1> QED BY <1>1, <1>2

(* CorpseOn finds the last corpse on a tile, if there is one.              *)
LEMMA CorpseFound ==
    ASSUME NEW bags \in Seq(Heaps), NEW tile
    PROVE  /\ CorpseOn(bags, tile) \in 0..Len(bags)
           /\ CorpseOn(bags, tile) # 0 => bags[CorpseOn(bags, tile)].tile = tile
           /\ \A k \in 1..Len(bags) : bags[k].tile = tile => k <= CorpseOn(bags, tile)
  <1> DEFINE I == {k \in 1..Len(bags) : bags[k].tile = tile}
             n == Len(bags)
  <1>1. CorpseOn(bags, tile) = IF I # {} THEN Max(I) ELSE 0
    BY DEF CorpseOn, SelectLastInSeq
  <1>2. n \in Nat
    OBVIOUS
  <1>3. CASE I = {}
    BY <1>1, <1>2, <1>3
  <1>4. CASE I # {}
    <2> DEFINE J == {n - k : k \in I}
    <2>1. J \in SUBSET Nat /\ J # {}
      <3>1. \A k \in I : n - k \in Nat
        BY <1>2
      <3> HIDE DEF I
      <3> QED BY <1>4, <3>1
    <2>2. Min(J) \in J /\ \A x \in J : Min(J) <= x
      <3> HIDE DEF J
      <3> QED BY <2>1, LeastOf
    <2>3. PICK m \in I : Min(J) = n - m
      BY <2>2
    <2>4. \A k \in I : k \in 1..n /\ n - m <= n - k
      BY <2>2, <2>3
    <2>5. m \in 1..n /\ \A k \in I : m >= k
      BY <1>2, <2>3, <2>4
    <2>6. \E x \in I : \A y \in I : x >= y
      BY <2>3, <2>5
    <2>7. Max(I) \in I /\ \A y \in I : Max(I) >= y
      <3> HIDE DEF I
      <3> QED BY <2>6 DEF Max
    <2>8. CorpseOn(bags, tile) = Max(I)
      BY <1>1, <1>4
    <2> QED BY <1>2, <2>7, <2>8
  <1> QED BY <1>3, <1>4

(* Looting moves a stack from a corpse to the bag, and an empty corpse     *)
(* goes.                                                                   *)
LEMMA LootGoods ==
    ASSUME NEW w, Goods(w), NEW loot, loot.index \in Nat \ {0}
    PROVE  Goods(TakeFromCorpse(w, loot))
  <1> DEFINE c == CorpseOn(w.corpses, loot.tile)
             items == w.corpses[c].items
             index == loot.index
             left == RemoveAt(items, index)
             got == items[index]
             full == AddTo(w.bag, got)
             fewer == IF left = <<>> THEN WithoutCorpse(w.corpses, c)
                      ELSE [w.corpses EXCEPT ![c].items = left]
             v == [w EXCEPT !.bag = full, !.corpses = fewer]
  <1>1. w.bag \in Bags /\ w.corpses \in Seq(Heaps)
    BY DEF Goods, Stocked
  <1>2. TakeFromCorpse(w, loot) = w
          \/ (TakeFromCorpse(w, loot) = v /\ c # 0 /\ ~ (index > Len(items)))
    BY DEF TakeFromCorpse
  <1>3. ASSUME c # 0, ~ (index > Len(items))
        PROVE  Goods(v)
    <2>1. c \in 1..Len(w.corpses)
      <3>1. c \in 0..Len(w.corpses)
        BY <1>1, CorpseFound
      <3> QED BY <1>3, <3>1
    <2> HIDE DEF c
    <2>2. items \in Bags /\ w.corpses[c] \in Heaps
      BY <1>1, <2>1, HeapItems
    <2>3. index \in 1..Len(items)
      <3>1. Len(items) \in Nat
        BY <2>2 DEF Bags
      <3> QED BY <1>3, <3>1
    <2>4. got \in Stacks
      BY <2>2, <2>3, ElementOfSeq DEF Bags
    <2>5. v.worn = w.worn /\ v.bag = full /\ v.corpses = fewer
          /\ v.made = w.made /\ v.hp = w.hp /\ v.at = w.at /\ Fields \subseteq DOMAIN v
      BY DEF Goods, Stocked, Fields
    <2> HIDE DEF v, items, index
    <2>6. full \in Bags /\ left \in Bags
      BY <1>1, <2>2, <2>3, <2>4, AddToCounts, CountWithout
    <2> HIDE DEF full, got
    <2>7. /\ fewer \in Seq(Heaps)
          /\ \A i \in Items : Total(Lain(fewer, i))
                = Total(Lain(w.corpses, i)) - Count(items, i) + Count(left, i)
      <3>1. CASE left = <<>>
        <4>1. fewer = WithoutCorpse(w.corpses, c)
          BY <3>1
        <4>2. \A i : Count(left, i) = 0
          <5>1. ASSUME NEW i PROVE Count(left, i) = 0
            <6>1. Shares(left, i) \in Seq(Int) /\ Len(Shares(left, i)) = Len(left)
                  /\ Count(left, i) = Total(Shares(left, i))
              BY <2>6, SharesSeq
            <6>2. Len(left) = 0
              <7> HIDE DEF left
              <7> QED BY <3>1
            <6> HIDE DEF left
            <6> QED BY <6>1, <6>2, TotalEmpty
          <5> QED BY <5>1
        <4> HIDE DEF fewer, left
        <4>3. ASSUME NEW i \in Items
              PROVE  Total(Lain(fewer, i))
                = Total(Lain(w.corpses, i)) - Count(items, i) + Count(left, i)
          <5>1. Total(Lain(fewer, i)) = Total(Lain(w.corpses, i)) - Count(items, i)
            BY <1>1, <2>1, <4>1, WithoutCorpseCounts DEF items
          <5>2. Total(Lain(w.corpses, i)) \in Int /\ Count(items, i) \in Int
            BY <1>1, <2>2, LainSeq, SharesSeq
          <5> QED BY <4>2, <5>1, <5>2
        <4> QED BY <1>1, <2>1, <4>1, <4>3, WithoutCorpseCounts
      <3>2. CASE left # <<>>
        <4> DEFINE h == [w.corpses[c] EXCEPT !.items = left]
        <4>1. fewer = [w.corpses EXCEPT ![c] = h]
          BY <3>2
        <4>2. h \in Heaps /\ h.items = left
          <5> HIDE DEF left
          <5> QED BY <2>2, <2>6, <3>2 DEF Heaps
        <4> HIDE DEF h, fewer, left
        <4> QED BY <1>1, <2>1, <4>1, <4>2, LainChanged DEF items
      <3> QED BY <3>1, <3>2
    <2> HIDE DEF fewer
    <2>8. Stocked(v)
      BY <2>5, <2>6, <2>7 DEF Goods, Stocked
    <2>9. ASSUME NEW i \in Items
          PROVE  ((Owed(v, i) - Owed(w, i)) % CountMod) = 0
      <3> DEFINE b0 == Count(w.bag, i)
                 b1 == Count(full, i)
                 share == Share(got, i)
                 c0 == Cardinality(Wears(w.worn, i))
                 l0 == Total(Lain(w.corpses, i))
                 l1 == Total(Lain(fewer, i))
                 owe == w.made[i]
      <3>1. ((b1 - b0 - share) % CountMod) = 0
        BY <1>1, <2>4, AddToCounts DEF full
      <3>2. l1 = l0 - share
        <4>1. Count(left, i) = Count(items, i) - share
          BY <2>2, <2>3, CountWithout DEF got
        <4>2. l1 = l0 - Count(items, i) + Count(left, i)
          BY <2>7
        <4>3. l0 \in Int /\ Count(items, i) \in Int /\ share \in Int
          BY <1>1, <2>2, <2>4, LainSeq, SharesSeq DEF Share, Stacks
        <4> HIDE DEF l0, l1, share, left
        <4> QED BY <4>1, <4>2, <4>3
      <3>3. b0 \in Int /\ b1 \in Int /\ share \in Int
        BY <1>1, <2>4, <2>6, SharesSeq DEF Share, Stacks
      <3>4. Owed(w, i) = b0 + c0 + l0 - owe /\ c0 \in Int /\ l0 \in Int /\ owe \in Int
        BY HeldParts DEF Goods, Owed
      <3>5. Owed(v, i) = b1 + c0 + l1 - owe
        BY <2>5, <2>8, HeldParts DEF Owed
      <3> HIDE DEF b0, b1, share, c0, l0, l1, owe
      <3>6. Owed(v, i) - Owed(w, i) = b1 - b0 - share
        BY <3>2, <3>3, <3>4, <3>5
      <3> QED BY <3>1, <3>6
    <2> QED BY <2>8, <2>9, GoodsCarry
  <1> QED BY <1>2, <1>3

-----------------------------------------------------------------------------
(* What a roll of the loot table yields is a bag.                          *)

LootRow(draw, r) == [id |-> LootTable[r].item, count |-> draw[r]]

RollsUpTo(q, draw, n) ==
    q = [r \in 0..n |-> IF r = 0 THEN <<>>
                        ELSE IF draw[r] = 0 THEN q[r - 1]
                        ELSE Append(q[r - 1], LootRow(draw, r))]

(* What a roll yields is a bag.                                            *)
LEMMA RolledIsBag == \A loot \in Rolls : loot \in Bags
  <1> DEFINE n == Len(LootTable)
  <1>1. /\ n \in Nat /\ DOMAIN LootTable = 1..n
        /\ \A r \in 1..n : LootTable[r].item \in Items
    <2> DEFINE Rows == [item : Items, most : 1..CountMod - 1, sure : BOOLEAN]
    <2>1. LootTable \in Seq(Rows)
      BY HuntAssumption
    <2>2. \A row \in Rows : row.item \in Items
      OBVIOUS
    <2> HIDE DEF Rows
    <2> QED BY <2>1, <2>2
  <1>2. SUFFICES ASSUME NEW draw \in [DOMAIN LootTable -> 0..CountMod - 1]
                 PROVE  Rolled(draw) \in Bags
    BY DEF Rolls
  <1> DEFINE q == CHOOSE f : RollsUpTo(f, draw, n)
  <1>4. Rolled(draw) = q[n]
    BY DEF Rolled, RollsUpTo, LootRow
  <1> HIDE DEF n
  <1>9. \A r \in 1..n : LootRow(draw, r) \in Stacks
    BY <1>1, HuntAssumption DEF LootRow, Stacks
  <1>3. RollsUpTo(q, draw, n)
    <2> DEFINE step == [r \in 1..n |->
                           [x \in Bags |-> IF draw[r] = 0 THEN x ELSE Append(x, LootRow(draw, r))]]
    <2>1. step \in [1..n -> [Bags -> Bags]]
      BY <1>9, CountAppend
    <2>2. \A r \in 1..n : \A x \in Bags :
             step[r][x] = IF draw[r] = 0 THEN x ELSE Append(x, LootRow(draw, r))
      OBVIOUS
    <2> HIDE DEF step
    <2>3. PICK f \in [0..n -> Bags] : Loops(f, <<>>, step, n)
      <3>1. <<>> \in Bags
        BY DEF Bags
      <3> QED BY <1>1, <2>1, <3>1, LoopExists
    <2>4. \A r \in 0..n : f[r] = IF r = 0 THEN <<>>
                                  ELSE IF draw[r] = 0 THEN f[r - 1]
                                  ELSE Append(f[r - 1], LootRow(draw, r))
      <3>1. ASSUME NEW r \in 1..n
            PROVE  f[r] = IF draw[r] = 0 THEN f[r - 1] ELSE Append(f[r - 1], LootRow(draw, r))
        <4>1. r - 1 \in 0..n
          BY <1>1
        <4>2. f[r - 1] \in Bags
          BY <4>1
        <4> QED BY <2>2, <2>3, <4>2 DEF Loops
      <3>2. f[0] = <<>>
        BY <2>3 DEF Loops
      <3>3. \A r \in 0..n : r = 0 \/ r \in 1..n
        BY <1>1
      <3> QED BY <3>1, <3>2, <3>3
    <2>5. RollsUpTo(f, draw, n)
      BY <2>4 DEF RollsUpTo
    <2> QED BY <2>5
  <1> HIDE DEF q
  <1>5. \A r \in 0..n : q[r] = IF r = 0 THEN <<>>
                               ELSE IF draw[r] = 0 THEN q[r - 1]
                               ELSE Append(q[r - 1], LootRow(draw, r))
    BY <1>3 DEF RollsUpTo
  <1> DEFINE Good == {r \in Nat : r <= n => q[r] \in Bags}
  <1>6. 0 \in Good
    <2>1. 0 \in 0..n
      BY <1>1
    <2>2. q[0] = <<>>
      BY <1>5, <2>1
    <2>3. <<>> \in Bags
      BY DEF Bags
    <2> QED BY <2>2, <2>3
  <1>7. ASSUME NEW r \in Nat, r \in Good PROVE r + 1 \in Good
    <2>1. SUFFICES ASSUME r + 1 <= n PROVE q[r + 1] \in Bags
      OBVIOUS
    <2>2. /\ r + 1 \in 0..n /\ r + 1 \in 1..n /\ r + 1 # 0 /\ (r + 1) - 1 = r
          /\ q[r] \in Bags
      BY <1>1, <1>7, <2>1
    <2>3. LootRow(draw, r + 1) \in Stacks
      BY <1>9, <2>2
    <2>4. q[r + 1] = q[r] \/ q[r + 1] = Append(q[r], LootRow(draw, r + 1))
      BY <1>5, <2>2
    <2>5. Append(q[r], LootRow(draw, r + 1)) \in Bags
      BY <2>2, <2>3, CountAppend
    <2> QED BY <2>2, <2>4, <2>5
  <1>8. n \in Good
    <2> HIDE DEF Good
    <2> QED BY <1>1, <1>6, <1>7, Induction
  <1> QED BY <1>1, <1>4, <1>8

(* A monster that falls leaves what it rolled where it stood. *)
LEMMA DamagedGoods ==
    ASSUME NEW w, Goods(w), NEW a, NEW amount, NEW v \in Damaged(w, a, amount)
    PROVE  Goods(v) /\ v.bag = w.bag
  <1>1. CASE a \notin DOMAIN w.hp
    BY <1>1 DEF Damaged
  <1>2. CASE a \in DOMAIN w.hp /\ w.hp[a] > amount
    <2>1. v = [w EXCEPT !.hp[a] = w.hp[a] - amount]
      BY <1>2 DEF Damaged
    <2>2. v.hp = [w.hp EXCEPT ![a] = w.hp[a] - amount] /\ DOMAIN v.hp = DOMAIN w.hp
      BY <2>1 DEF Goods, Stocked, Fields
    <2>3. SameStock(w, v)
      BY <2>1, <2>2 DEF SameStock, Goods, Stocked, Fields
    <2> QED BY <2>3, SameStockGoods DEF SameStock
  <1>3. CASE a \in DOMAIN w.hp /\ ~ (w.hp[a] > amount) /\ a = Player
    <2>1. v = [w EXCEPT !.hp[Player] = 0, !.target = None, !.down = RespawnTicks]
      BY <1>3 DEF Damaged
    <2>2. DOMAIN v.hp = DOMAIN w.hp
      BY <2>1 DEF Goods, Stocked, Fields
    <2>3. SameStock(w, v)
      BY <2>1, <2>2 DEF SameStock, Goods, Stocked, Fields
    <2> QED BY <2>3, SameStockGoods DEF SameStock
  <1>4. CASE a \in DOMAIN w.hp /\ ~ (w.hp[a] > amount) /\ a # Player
    <2>1. PICK loot \in Rolls :
            v = [w EXCEPT !.hp = [b \in DOMAIN @ \ {a} |-> @[b]],
                          !.at = [b \in DOMAIN @ \ {a} |-> @[b]],
                          !.corpses = IF loot = <<>> THEN @
                                      ELSE Append(@, [tile |-> w.at[a], items |-> loot]),
                          !.made = [i \in Items |-> @[i] + Count(loot, i)]]
      BY <1>4 DEF Damaged
    <2> DEFINE h == [tile |-> w.at[a], items |-> loot]
    <2>2. /\ Fields \subseteq DOMAIN v /\ v.bag = w.bag /\ v.worn = w.worn
          /\ v.corpses = (IF loot = <<>> THEN w.corpses ELSE Append(w.corpses, h))
          /\ v.made = [i \in Items |-> w.made[i] + Count(loot, i)]
          /\ v.hp = [b \in DOMAIN w.hp \ {a} |-> w.hp[b]]
          /\ v.at = [b \in DOMAIN w.at \ {a} |-> w.at[b]]
      BY <2>1 DEF Goods, Stocked, Fields
    <2>3. loot \in Bags /\ \A i : Count(loot, i) \in Int
      BY RolledIsBag, SharesSeq
    <2>4. w.made \in [Items -> Int] /\ w.corpses \in Seq(Heaps) /\ w.at \in [DOMAIN w.hp -> Tiles]
      BY DEF Goods, Stocked
    <2>5. v.made \in [Items -> Int]
      BY <2>2, <2>3, <2>4
    <2>6. /\ v.corpses \in Seq(Heaps)
          /\ \A i \in Items : Total(Lain(v.corpses, i)) = Total(Lain(w.corpses, i)) + Count(loot, i)
      <3>1. CASE loot = <<>>
        <4>1. \A i : Count(loot, i) = 0
          <5>1. ASSUME NEW i PROVE Count(loot, i) = 0
            <6>1. Shares(loot, i) \in Seq(Int) /\ Len(Shares(loot, i)) = Len(loot)
                  /\ Count(loot, i) = Total(Shares(loot, i))
              BY <2>3, SharesSeq
            <6>2. Len(loot) = 0
              BY <3>1
            <6> QED BY <6>1, <6>2, TotalEmpty
          <5> QED BY <5>1
        <4>2. \A i : Total(Lain(w.corpses, i)) \in Int
          BY <2>4, LainSeq
        <4> QED BY <2>2, <2>4, <3>1, <4>1, <4>2
      <3>2. CASE loot # <<>>
        <4>1. h \in Heaps /\ h.items = loot
          BY <1>4, <2>3, <2>4, <3>2 DEF Heaps
        <4>2. v.corpses = Append(w.corpses, h)
          BY <2>2, <3>2
        <4> HIDE DEF h
        <4> QED BY <2>4, <4>1, <4>2, LainAppend
      <3> QED BY <3>1, <3>2
    <2>7. Player \in DOMAIN v.hp /\ v.at \in [DOMAIN v.hp -> Tiles]
      BY <1>4, <2>2, <2>4 DEF Goods, Stocked
    <2>8. Stocked(v)
      BY <2>2, <2>5, <2>6, <2>7 DEF Goods, Stocked
    <2>9. ASSUME NEW i \in Items
          PROVE  ((Owed(v, i) - Owed(w, i)) % CountMod) = 0
      <3> DEFINE b0 == Count(w.bag, i)
                 c0 == Cardinality(Wears(w.worn, i))
                 l0 == Total(Lain(w.corpses, i))
                 l1 == Total(Lain(v.corpses, i))
                 owe == w.made[i]
                 more == Count(loot, i)
      <3>1. /\ Owed(w, i) = b0 + c0 + l0 - owe
            /\ b0 \in Int /\ c0 \in Int /\ l0 \in Int /\ owe \in Int
        BY HeldParts DEF Goods, Owed
      <3>2. Owed(v, i) = b0 + c0 + l1 - (owe + more)
        BY <2>2, <2>8, HeldParts DEF Owed
      <3>3. l1 = l0 + more /\ more \in Int
        BY <2>3, <2>6
      <3> HIDE DEF b0, c0, l0, l1, owe, more
      <3>4. Owed(v, i) - Owed(w, i) = 0
        BY <3>1, <3>2, <3>3
      <3> QED BY <3>4, ModZero
    <2> QED BY <2>2, <2>8, <2>9, GoodsCarry
  <1> QED BY <1>1, <1>2, <1>3, <1>4

-----------------------------------------------------------------------------
(* The parts of a tick. *)

(* What a request may name. *)
Asked(p) ==
    /\ {"attack", "equip", "unequip", "loot", "cast"} \subseteq DOMAIN p
    /\ p.unequip \in Slots \cup {NoSlot}
    /\ p.loot # NoLoot => p.loot.index \in Nat \ {0}

(* The requests of a tick keep the balance, one after the other.           *)
LEMMA HandledGoods ==
    ASSUME NEW w, Goods(w), NEW p, Asked(p)
    PROVE  Goods(Looted(Unequipped(Equipped(Targeted(w, p), p), p), p))
  <1>1. Goods(Targeted(w, p))
    <2>1. CASE p.attack = None
      BY <2>1 DEF Targeted
    <2>2. CASE p.attack # None
      <3>1. SameStock(w, Targeted(w, p))
        BY <2>2 DEF Targeted, SameStock, Goods, Stocked, Fields
      <3> QED BY <3>1, SameStockGoods
    <2> QED BY <2>1, <2>2
  <1>2. ASSUME NEW v, Goods(v) PROVE Goods(Equipped(v, p))
    BY <1>2, EquipGoods DEF Equipped
  <1>3. ASSUME NEW v, Goods(v) PROVE Goods(Unequipped(v, p))
    BY <1>3, UnequipGoods DEF Unequipped, Asked
  <1>4. ASSUME NEW v, Goods(v) PROVE Goods(Looted(v, p))
    BY <1>4, LootGoods DEF Looted, Asked
  <1> QED BY <1>1, <1>2, <1>3, <1>4

(* A cast keeps the balance and leaves the bag.                            *)
LEMMA CastGoods ==
    ASSUME NEW w, Goods(w), NEW target, NEW v \in CastSpell(w, target)
    PROVE  Goods(v) /\ v.bag = w.bag
  <1> DEFINE spell == SpellOf[w.vocation]
             paid == [w EXCEPT !.mana = @ - spell.cost, !.cool = spell.cooldown]
  <1>1. Goods(paid) /\ paid.bag = w.bag
    <2>1. SameStock(w, paid)
      BY DEF SameStock, Goods, Stocked, Fields
    <2> HIDE DEF paid
    <2> QED BY <2>1, SameStockGoods DEF SameStock
  <1>2. CASE ~MayCast(w, spell, target)
    BY <1>2 DEF CastSpell
  <1>3. CASE MayCast(w, spell, target) /\ spell.kind = "Damage"
    <2>1. v \in Damaged(paid, target, spell.power)
      BY <1>3 DEF CastSpell
    <2> HIDE DEF paid, spell
    <2> QED BY <1>1, <2>1, DamagedGoods
  <1>4. CASE MayCast(w, spell, target) /\ spell.kind # "Damage"
    <2> DEFINE health == Min({paid.hp[Player] + spell.power, HealthOf[w.vocation]})
    <2>1. v = [paid EXCEPT !.hp[Player] = health]
      BY <1>4 DEF CastSpell
    <2> HIDE DEF health, paid
    <2>2. DOMAIN v.hp = DOMAIN paid.hp
      BY <1>1, <2>1 DEF Goods, Stocked, Fields
    <2>3. SameStock(paid, v)
      BY <1>1, <2>1, <2>2 DEF SameStock, Goods, Stocked, Fields
    <2> QED BY <1>1, <2>3, SameStockGoods DEF SameStock
  <1> QED BY <1>2, <1>3, <1>4

(* The clocks, the steps and a respawn touch no items.                     *)
LEMMA ClockedGoods ==
    ASSUME NEW w, Goods(w)
    PROVE  Goods(Clocked(w)) /\ SameStock(w, Clocked(w))
  <1>1. SameStock(w, Clocked(w))
    BY DEF Clocked, SameStock, Goods, Stocked, Fields
  <1> QED BY <1>1, SameStockGoods

LEMMA LandedGoods ==
    ASSUME NEW w, Goods(w), NEW v \in Landings(w)
    PROVE  Goods(v) /\ SameStock(w, v)
  <1>1. PICK f \in [DOMAIN w.at -> Tiles] : v = [w EXCEPT !.at = f]
    BY DEF Landings
  <1>2. SameStock(w, v)
    BY <1>1 DEF SameStock, Goods, Stocked, Fields
  <1> QED BY <1>2, SameStockGoods

LEMMA RespawnedGoods ==
    ASSUME NEW w, Goods(w)
    PROVE  Goods(Respawned(w)) /\ Respawned(w).bag = w.bag
  <1>1. CASE w.down = 0
    <2> DEFINE v == Respawned(w)
    <2>1. /\ Fields \subseteq DOMAIN v /\ v.bag = w.bag /\ v.worn = w.worn
          /\ v.corpses = w.corpses /\ v.made = w.made
          /\ v.at = [w.at EXCEPT ![Player] = Home] /\ DOMAIN v.hp = DOMAIN w.hp
      BY <1>1 DEF Respawned, Goods, Stocked, Fields
    <2> HIDE DEF v
    <2>2. SameStock(w, v)
      BY <2>1, HuntAssumption DEF SameStock, Goods, Stocked
    <2>3. Goods(v)
      BY <2>2, SameStockGoods
    <2> QED BY <2>1, <2>3 DEF v
  <1>2. CASE w.down # 0
    BY <1>2 DEF Respawned
  <1> QED BY <1>1, <1>2

(* The fight of a tick keeps the balance and leaves the bag.               *)
LEMMA FoughtGoods ==
    ASSUME NEW w, Goods(w), NEW v \in Fought(w)
    PROVE  Goods(v) /\ v.bag = w.bag
  <1> DEFINE r == Respawned(w)
             hits == Swung(Aimed(r))
             n == Cardinality(Biting(r))
  <1>1. Goods(r) /\ r.bag = w.bag
    BY RespawnedGoods
  <1>2. v \in hits \cup UNION {Damaged(h, Player, k * MobPower) : h \in hits, k \in 1..n}
    BY DEF Fought
  <1> HIDE DEF r, n
  <1>3. Goods(Aimed(r)) /\ Aimed(r).bag = w.bag
    <2>1. Aimed(r) = r \/ Aimed(r) = [r EXCEPT !.target = None]
      BY DEF Aimed
    <2>2. SameStock(r, Aimed(r))
      BY <1>1, <2>1 DEF SameStock, Goods, Stocked, Fields
    <2> QED BY <1>1, <2>2, SameStockGoods DEF SameStock
  <1>4. ASSUME NEW h \in hits PROVE Goods(h) /\ h.bag = w.bag
    <2>1. h = Aimed(r) \/ h \in Damaged(Aimed(r), Aimed(r).target, SwingPower)
      BY <1>4 DEF Swung
    <2> QED BY <1>3, <2>1, DamagedGoods
  <1> HIDE DEF hits
  <1>5. CASE v \in hits
    BY <1>4, <1>5
  <1>6. ASSUME NEW h \in hits, NEW k \in 1..n, v \in Damaged(h, Player, k * MobPower)
        PROVE  Goods(v) /\ v.bag = w.bag
    <2> DEFINE amount == k * MobPower
    <2>1. v \in Damaged(h, Player, amount)
      BY <1>6
    <2> HIDE DEF amount
    <2>2. Goods(h) /\ h.bag = w.bag
      BY <1>4
    <2> QED BY <2>1, <2>2, DamagedGoods
  <1> QED BY <1>2, <1>5, <1>6

(* Only the requests for items change the bag.                             *)
LEMMA ObeyedGoods ==
    ASSUME NEW w, Goods(w), NEW p, Asked(p), NEW v \in Obeyed(w, p)
    PROVE  /\ Goods(v)
           /\ v.bag = Looted(Unequipped(Equipped(Targeted(w, p), p), p), p).bag
  BY HandledGoods, CastGoods DEF Obeyed

(* A tick keeps the balance and changes the bag as the requests have it.   *)
LEMMA SimulatedGoods ==
    ASSUME NEW w, Goods(w), NEW p, Asked(p), NEW v \in Simulated(w, p)
    PROVE  /\ Goods(v)
           /\ \E l : /\ Goods(l) /\ SameStock(w, l)
                     /\ v.bag = Looted(Unequipped(Equipped(Targeted(l, p), p), p), p).bag
  <1>1. PICK l \in Landings(Clocked(w)) : \E o \in Obeyed(l, p) : v \in Fought(o)
    BY DEF Simulated
  <1>2. PICK o \in Obeyed(l, p) : v \in Fought(o)
    BY <1>1
  <1>3. Goods(l) /\ SameStock(w, l)
    <2>1. Goods(Clocked(w)) /\ SameStock(w, Clocked(w))
      BY ClockedGoods
    <2>2. Goods(l) /\ SameStock(Clocked(w), l)
      BY <2>1, LandedGoods
    <2> QED BY <2>1, <2>2 DEF SameStock
  <1>4. Goods(o) /\ o.bag = Looted(Unequipped(Equipped(Targeted(l, p), p), p), p).bag
    BY <1>3, ObeyedGoods
  <1>5. Goods(v) /\ v.bag = o.bag
    BY <1>2, <1>4, FoughtGoods
  <1> QED BY <1>3, <1>4, <1>5

-----------------------------------------------------------------------------
(* The kit of a vocation. *)

Gear == [worn : Outfits, bag : Bags]

Bare == [worn |-> [s \in Slots |-> None], bag |-> <<>>]

Put(had, id) ==
    LET slot == SlotOf[id]
    IN  IF slot # NoSlot /\ had.worn[slot] = None
        THEN [had EXCEPT !.worn[slot] = id]
        ELSE [had EXCEPT !.bag = Append(@, One(id))]

Holding(g, i) == Count(g.bag, i) + Cardinality(Wears(g.worn, i))

(* Nothing is worn and nothing is in the bag at first.                     *)
LEMMA BareCarries ==
    /\ Bare \in Gear
    /\ \A i \in Items : Holding(Bare, i) = 0
  <1>1. Bare.bag = <<>> /\ Bare.worn = [s \in Slots |-> None]
    BY DEF Bare
  <1>2. Bare.bag \in Bags /\ Bare.worn \in Outfits
    BY <1>1 DEF Bags, Outfits
  <1>3. Bare \in Gear
    BY <1>1, <1>2 DEF Gear, Bare
  <1>4. ASSUME NEW i \in Items PROVE Holding(Bare, i) = 0
    <2>1. Count(Bare.bag, i) = 0
      <3>1. Shares(Bare.bag, i) \in Seq(Int) /\ Len(Shares(Bare.bag, i)) = Len(Bare.bag)
            /\ Count(Bare.bag, i) = Total(Shares(Bare.bag, i))
        BY <1>2, SharesSeq
      <3>2. Len(Bare.bag) = 0
        BY <1>1
      <3> QED BY <3>1, <3>2, TotalEmpty
    <2>2. Wears(Bare.worn, i) = {}
      BY <1>1, HuntAssumption DEF Wears
    <2>3. Cardinality(Wears(Bare.worn, i)) = 0
      BY <2>2, FS_EmptySet
    <2> QED BY <2>1, <2>3 DEF Holding
  <1> QED BY <1>3, <1>4

(* One item of a kit goes to its slot or into the bag.                     *)
LEMMA PutCarries ==
    ASSUME NEW g \in Gear, NEW id \in Items
    PROVE  /\ Put(g, id) \in Gear
           /\ \A i \in Items : /\ Holding(g, i) \in Int
                               /\ Holding(Put(g, id), i) = Holding(g, i) + (IF id = i THEN 1 ELSE 0)
  <1> DEFINE slot == SlotOf[id]
             now == Put(g, id)
  <1>1. g.bag \in Bags /\ g.worn \in Outfits
    BY DEF Gear
  <1>2. \A i \in Items : Count(g.bag, i) \in Int /\ Cardinality(Wears(g.worn, i)) \in Int
    <2>1. \A i \in Items : Wears(g.worn, i) \subseteq Slots
      BY DEF Wears
    <2>2. \A i \in Items : IsFiniteSet(Wears(g.worn, i))
      BY <2>1, SlotsFinite, FS_Subset
    <2> QED BY <1>1, <2>2, SharesSeq, FS_CardinalityType
  <1>3. CASE slot # NoSlot /\ g.worn[slot] = None
    <2>1. slot \in Slots
      BY <1>3 DEF Slots
    <2>2. now = [g EXCEPT !.worn[slot] = id]
      BY <1>3 DEF Put
    <2> DEFINE suit == [g.worn EXCEPT ![slot] = id]
    <2>3. now.worn = suit /\ now.bag = g.bag
      BY <2>2 DEF Gear
    <2>4. suit \in Outfits
      BY <1>1, <2>1, WornCounts
    <2>5. now \in Gear
      BY <1>1, <2>2, <2>4 DEF Gear
    <2>6. ASSUME NEW i \in Items
          PROVE  Cardinality(Wears(suit, i))
                   = Cardinality(Wears(g.worn, i)) + (IF id = i THEN 1 ELSE 0)
      <3>1. g.worn[slot] # i
        BY <1>3, HuntAssumption
      <3>2. Cardinality(Wears(suit, i))
              = Cardinality(Wears(g.worn, i)) - (IF g.worn[slot] = i THEN 1 ELSE 0)
                  + (IF id = i THEN 1 ELSE 0)
        BY <1>1, <2>1, WornCounts
      <3> HIDE DEF suit
      <3> QED BY <1>2, <3>1, <3>2
    <2> HIDE DEF now, suit
    <2>7. \A i \in Items : Holding(now, i) = Holding(g, i) + (IF id = i THEN 1 ELSE 0)
      BY <1>2, <2>3, <2>6 DEF Holding
    <2> QED BY <1>2, <2>5, <2>7 DEF now, Holding
  <1>4. CASE ~ (slot # NoSlot /\ g.worn[slot] = None)
    <2>1. now = [g EXCEPT !.bag = Append(g.bag, One(id))]
      BY <1>4 DEF Put
    <2> DEFINE bag == Append(g.bag, One(id))
    <2>2. now.worn = g.worn /\ now.bag = bag
      BY <2>1 DEF Gear
    <2>3. bag \in Bags
      BY <1>1, OneIsStack, CountAppend
    <2>4. now \in Gear
      BY <1>1, <2>1, <2>3 DEF Gear
    <2>5. ASSUME NEW i \in Items
          PROVE  Count(bag, i) = Count(g.bag, i) + (IF id = i THEN 1 ELSE 0)
      <3>1. Count(bag, i) = Count(g.bag, i) + Share(One(id), i)
        BY <1>1, OneIsStack, CountAppend
      <3>2. Share(One(id), i) = IF id = i THEN 1 ELSE 0
        BY OneIsStack DEF Share
      <3> QED BY <3>1, <3>2
    <2> HIDE DEF now, bag
    <2>6. \A i \in Items : Holding(now, i) = Holding(g, i) + (IF id = i THEN 1 ELSE 0)
      BY <1>2, <2>2, <2>5 DEF Holding
    <2> QED BY <1>2, <2>4, <2>6 DEF now, Holding
  <1> QED BY <1>3, <1>4

Packs(q, kit, n) == q = [k \in 0..n |-> IF k = 0 THEN Bare ELSE Put(q[k - 1], kit[k])]

(* A kit is worn or in the bag, item for item. *)
LEMMA OutfitCarries ==
    ASSUME NEW kit \in Seq(Items)
    PROVE  /\ Outfit(kit) \in Gear
           /\ \A i \in Items : Holding(Outfit(kit), i) = Copies(kit)[i]
           /\ Copies(kit) \in [Items -> Int]
  <1> DEFINE n == Len(kit)
             step == [k \in 1..n |-> [x \in Gear |-> Put(x, kit[k])]]
             q == CHOOSE f : Packs(f, kit, n)
  <1>1. n \in Nat /\ DOMAIN kit = 1..n /\ \A k \in 1..n : kit[k] \in Items
    OBVIOUS
  <1>2. Outfit(kit) = q[n]
    BY DEF Outfit, Packs, Bare, Put
  <1> HIDE DEF n
  <1>3. Packs(q, kit, n)
    <2>1. step \in [1..n -> [Gear -> Gear]]
      BY <1>1, PutCarries
    <2>2. \A k \in 1..n : \A x \in Gear : step[k][x] = Put(x, kit[k])
      OBVIOUS
    <2> HIDE DEF step
    <2>3. PICK f \in [0..n -> Gear] : Loops(f, Bare, step, n)
      <3>1. n \in Nat /\ Bare \in Gear
        BY <1>1, BareCarries
      <3> QED BY <2>1, <3>1, LoopExists
    <2>4. \A k \in 0..n : f[k] = IF k = 0 THEN Bare ELSE Put(f[k - 1], kit[k])
      <3>1. ASSUME NEW k \in 1..n PROVE f[k] = Put(f[k - 1], kit[k])
        <4>1. k - 1 \in 0..n
          BY <1>1
        <4>2. f[k - 1] \in Gear
          BY <4>1
        <4> QED BY <2>2, <2>3, <4>2 DEF Loops
      <3> QED BY <1>1, <2>3, <3>1 DEF Loops
    <2>5. Packs(f, kit, n)
      BY <2>4 DEF Packs
    <2> QED BY <2>5
  <1> HIDE DEF q
  <1>4. q[0] = Bare /\ \A k \in 1..n : q[k] = Put(q[k - 1], kit[k])
    <2>1. \A k \in 0..n : q[k] = IF k = 0 THEN Bare ELSE Put(q[k - 1], kit[k])
      BY <1>3 DEF Packs
    <2>2. 0 \in 0..n /\ \A k \in 1..n : k \in 0..n /\ k # 0
      BY <1>1
    <2> QED BY <2>1, <2>2
  <1>5. ASSUME NEW i \in Items
        PROVE  /\ \A k \in 0..n : q[k] \in Gear
               /\ Holding(q[n], i) = Copies(kit)[i] /\ Copies(kit)[i] \in Int
    <2> DEFINE f == [k \in DOMAIN kit |-> IF kit[k] = i THEN 1 ELSE 0]
    <2>1. f \in Seq(Int) /\ Len(f) = n
      <3>1. f \in [1..n -> Int] /\ DOMAIN f = 1..n
        BY <1>1
      <3> HIDE DEF f
      <3>2. f \in Seq(Int)
        BY <1>1, <3>1, SeqDef
      <3>3. DOMAIN f = 1..Len(f) /\ Len(f) \in Nat
        BY <3>2, LenProperties
      <3> QED BY <1>1, <3>1, <3>2, <3>3
    <2>2. Copies(kit)[i] = Total(f)
      BY DEF Copies
    <2>3. \A k \in 1..n : f[k] = IF kit[k] = i THEN 1 ELSE 0
      BY <1>1
    <2> HIDE DEF f
    <2>4. PICK p : /\ p[0] = 0 /\ Total(f) = p[n]
                   /\ \A k \in 1..n : p[k] = p[k - 1] + f[k]
                   /\ \A k \in 0..n : p[k] \in Int
      BY <2>1, TotalSums
    <2> DEFINE Good == {k \in Nat : k <= n => q[k] \in Gear /\ Holding(q[k], i) = p[k]}
    <2>5. 0 \in Good
      BY <1>4, <2>4, BareCarries
    <2>6. ASSUME NEW k \in Nat, k \in Good PROVE k + 1 \in Good
      <3>1. SUFFICES ASSUME k + 1 <= n
                     PROVE  q[k + 1] \in Gear /\ Holding(q[k + 1], i) = p[k + 1]
        OBVIOUS
      <3>2. k + 1 \in 1..n /\ (k + 1) - 1 = k /\ q[k] \in Gear /\ Holding(q[k], i) = p[k]
        BY <1>1, <2>6, <3>1
      <3>3. q[k + 1] = Put(q[k], kit[k + 1]) /\ kit[k + 1] \in Items
        BY <1>1, <1>4, <3>2
      <3>4. p[k + 1] = p[k] + (IF kit[k + 1] = i THEN 1 ELSE 0)
        BY <2>3, <2>4, <3>2
      <3> DEFINE id == kit[k + 1]
                 g == q[k]
      <3>5. Put(g, id) \in Gear /\ Holding(g, i) \in Int
            /\ Holding(Put(g, id), i) = Holding(g, i) + (IF id = i THEN 1 ELSE 0)
        <4> HIDE DEF id, g
        <4>1. id \in Items /\ g \in Gear
          BY <3>2, <3>3 DEF id, g
        <4> QED BY <4>1, PutCarries
      <3> QED BY <3>2, <3>3, <3>4, <3>5
    <2>7. \A k \in Nat : k \in Good
      <3> HIDE DEF Good
      <3> QED BY <2>5, <2>6, Induction
    <2>8. \A k \in 0..n : q[k] \in Gear /\ Holding(q[k], i) = p[k]
      BY <2>7
    <2>9. n \in 0..n
      BY <1>1
    <2> QED BY <2>2, <2>4, <2>8, <2>9
  <1>6. q[n] \in Gear
    <2>1. CASE n = 0
      BY <1>4, <2>1, BareCarries
    <2>2. CASE n # 0
      <3>1. kit[1] \in Items /\ n \in 0..n
        BY <1>1, <2>2
      <3> QED BY <1>5, <3>1
    <2> QED BY <2>1, <2>2
  <1>7. Copies(kit) \in [Items -> Int]
    BY <1>5 DEF Copies
  <1> QED BY <1>2, <1>5, <1>6, <1>7

(* A session begins in balance.                                            *)
LEMMA BegunGoods ==
    ASSUME NEW voc \in Range(Vocations), NEW w \in Begun(voc)
    PROVE  Goods(w)
  <1> DEFINE kit == KitOf[voc]
  <1>1. PICK at \in Placements :
          w = [vocation |-> voc, at |-> at,
               hp |-> [a \in DOMAIN at |-> IF a = Player THEN HealthOf[voc] ELSE MobHealth],
               mana |-> ManaOf[voc], cool |-> 0, down |-> None, target |-> None,
               bag |-> Outfit(kit).bag, worn |-> Outfit(kit).worn, corpses |-> <<>>,
               made |-> Copies(kit)]
    BY DEF Begun
  <1>2. Player \in DOMAIN at /\ at \in [DOMAIN at -> Tiles]
    BY DEF Placements
  <1>3. kit \in Seq(Items)
    BY HuntAssumption
  <1>4. /\ Fields \subseteq DOMAIN w /\ w.at = at /\ DOMAIN w.hp = DOMAIN at
        /\ w.bag = Outfit(kit).bag /\ w.worn = Outfit(kit).worn
        /\ w.corpses = <<>> /\ w.made = Copies(kit)
    BY <1>1 DEF Fields
  <1> HIDE DEF kit
  <1>5. Stocked(w)
    <2>1. w.bag \in Bags /\ w.worn \in Outfits
      BY <1>3, <1>4, OutfitCarries DEF Gear
    <2>2. w.made \in [Items -> Int]
      BY <1>3, <1>4, OutfitCarries
    <2>3. w.corpses \in Seq(Heaps)
      BY <1>4
    <2> QED BY <1>2, <1>4, <2>1, <2>2, <2>3 DEF Stocked
  <1>6. ASSUME NEW i \in Items PROVE (Owed(w, i) % CountMod) = 0
    <2>1. Total(Lain(w.corpses, i)) = 0
      <3>1. Lain(w.corpses, i) \in Seq(Int) /\ Len(Lain(w.corpses, i)) = Len(w.corpses)
        BY <1>5, LainSeq DEF Stocked
      <3>2. Len(w.corpses) = 0
        BY <1>4
      <3> QED BY <3>1, <3>2, TotalEmpty
    <2>2. Count(w.bag, i) + Cardinality(Wears(w.worn, i)) = w.made[i]
      BY <1>3, <1>4, OutfitCarries DEF Holding
    <2>3. Owed(w, i) = 0
      <3>1. /\ Owed(w, i) = Count(w.bag, i) + Cardinality(Wears(w.worn, i)) + 0 - w.made[i]
            /\ w.made[i] \in Int
        BY <1>5, <2>1, HeldParts DEF Owed
      <3>2. Count(w.bag, i) + Cardinality(Wears(w.worn, i)) \in Int
        BY <1>5, HeldParts
      <3> QED BY <2>2, <3>1, <3>2
    <2> QED BY <2>3, ModZero
  <1> QED BY <1>5, <1>6 DEF Goods

-----------------------------------------------------------------------------
(* The view lists the corpses from the newest.                             *)

Listed(q, corpses, n) ==
    q = [k \in 0..n |-> IF k = 0 THEN <<>>
                        ELSE IF corpses[n - k + 1].items = <<>> THEN q[k - 1]
                        ELSE Append(q[k - 1], corpses[n - k + 1])]

(* The list is the sequence of the corpses, turned round.                  *)
LEMMA LyingReversed ==
    ASSUME NEW corpses \in Seq(Heaps)
    PROVE  /\ Lying(corpses) \in Seq(Heaps) /\ Len(Lying(corpses)) = Len(corpses)
           /\ \A k \in 1..Len(corpses) : Lying(corpses)[k] = corpses[Len(corpses) - k + 1]
  <1> DEFINE n == Len(corpses)
             step == [k \in 1..n |-> [x \in Seq(Heaps) |-> Append(x, corpses[n - k + 1])]]
             q == CHOOSE f : Listed(f, corpses, n)
  <1>1. n \in Nat
    OBVIOUS
  <1>2. Lying(corpses) = q[n]
    BY DEF Lying, Listed
  <1>3. \A k \in 1..n : corpses[n - k + 1] \in Heaps /\ corpses[n - k + 1].items # <<>>
    <2>1. \A k \in 1..n : n - k + 1 \in 1..n
      BY <1>1
    <2> QED BY <2>1, HeapItems
  <1> HIDE DEF n
  <1>4. Listed(q, corpses, n)
    <2>1. step \in [1..n -> [Seq(Heaps) -> Seq(Heaps)]]
      BY <1>3, AppendProperties
    <2>2. \A k \in 1..n : \A x \in Seq(Heaps) : step[k][x] = Append(x, corpses[n - k + 1])
      OBVIOUS
    <2> HIDE DEF step
    <2>3. PICK f \in [0..n -> Seq(Heaps)] : Loops(f, <<>>, step, n)
      <3>1. <<>> \in Seq(Heaps)
        OBVIOUS
      <3> QED BY <1>1, <2>1, <3>1, LoopExists
    <2> DEFINE last(g, k) == IF corpses[n - k + 1].items = <<>> THEN g[k - 1]
                             ELSE Append(g[k - 1], corpses[n - k + 1])
    <2>4. \A k \in 0..n : f[k] = IF k = 0 THEN <<>> ELSE last(f, k)
      <3>1. ASSUME NEW k \in 1..n PROVE f[k] = last(f, k)
        <4>1. k - 1 \in 0..n
          BY <1>1
        <4>2. f[k - 1] \in Seq(Heaps)
          BY <4>1
        <4> QED BY <1>3, <2>2, <2>3, <4>2 DEF Loops
      <3> HIDE DEF last
      <3> QED BY <1>1, <2>3, <3>1 DEF Loops
    <2>5. f = [k \in 0..n |-> IF k = 0 THEN <<>> ELSE last(f, k)]
      <3> HIDE DEF last
      <3> QED BY <2>4
    <2>6. Listed(f, corpses, n)
      BY <2>5 DEF Listed
    <2> QED BY <2>6
  <1> HIDE DEF q
  <1>5. q[0] = <<>> /\ \A k \in 1..n : q[k] = Append(q[k - 1], corpses[n - k + 1])
    <2>1. \A k \in 0..n : q[k] = IF k = 0 THEN <<>>
                                 ELSE IF corpses[n - k + 1].items = <<>> THEN q[k - 1]
                                 ELSE Append(q[k - 1], corpses[n - k + 1])
      BY <1>4 DEF Listed
    <2>2. 0 \in 0..n /\ \A k \in 1..n : k \in 0..n /\ k # 0
      BY <1>1
    <2> QED BY <1>3, <2>1, <2>2
  <1> DEFINE Good == {k \in Nat : k <= n => /\ q[k] \in Seq(Heaps) /\ Len(q[k]) = k
                                            /\ \A j \in 1..k : q[k][j] = corpses[n - j + 1]}
  <1>6. 0 \in Good
    <2>1. <<>> \in Seq(Heaps) /\ Len(<<>>) = 0 /\ \A j \in 1..0 : FALSE
      OBVIOUS
    <2> QED BY <1>5, <2>1
  <1>7. ASSUME NEW k \in Nat, k \in Good PROVE k + 1 \in Good
    <2>1. SUFFICES ASSUME k + 1 <= n
                   PROVE  /\ q[k + 1] \in Seq(Heaps) /\ Len(q[k + 1]) = k + 1
                          /\ \A j \in 1..(k + 1) : q[k + 1][j] = corpses[n - j + 1]
      OBVIOUS
    <2> DEFINE s == q[k]
               h == corpses[n - (k + 1) + 1]
    <2>2. /\ k + 1 \in 1..n /\ (k + 1) - 1 = k
          /\ s \in Seq(Heaps) /\ Len(s) = k /\ \A j \in 1..k : s[j] = corpses[n - j + 1]
      BY <1>1, <1>7, <2>1
    <2>3. q[k + 1] = Append(s, h) /\ h \in Heaps
      BY <1>3, <1>5, <2>2
    <2> HIDE DEF s, h
    <2>4. /\ Append(s, h) \in Seq(Heaps) /\ Len(Append(s, h)) = k + 1
          /\ \A j \in 1..k : Append(s, h)[j] = s[j]
          /\ Append(s, h)[k + 1] = h
      BY <2>2, <2>3, AppendProperties
    <2>5. ASSUME NEW j \in 1..(k + 1) PROVE Append(s, h)[j] = corpses[n - j + 1]
      <3>1. CASE j = k + 1
        BY <2>4, <3>1 DEF h
      <3>2. CASE j # k + 1
        <4>1. j \in 1..k
          BY <3>2
        <4> QED BY <2>2, <2>4, <4>1
      <3> QED BY <3>1, <3>2
    <2> QED BY <2>3, <2>4, <2>5
  <1>8. n \in Good
    <2> HIDE DEF Good
    <2> QED BY <1>1, <1>6, <1>7, Induction
  <1>9. /\ q[n] \in Seq(Heaps) /\ Len(q[n]) = n
        /\ \A j \in 1..n : q[n][j] = corpses[n - j + 1]
    BY <1>1, <1>8
  <1> QED BY <1>2, <1>9 DEF n

(* The corpse a panel shows is the one a request for its tile finds.       *)
LEMMA ShownIsFound ==
    ASSUME NEW corpses \in Seq(Heaps), NEW tile,
           SelectInSeq(Lying(corpses), LAMBDA c : c.tile = tile) # 0
    PROVE  /\ CorpseOn(corpses, tile) # 0
           /\ Lying(corpses)[SelectInSeq(Lying(corpses), LAMBDA c : c.tile = tile)]
                = corpses[CorpseOn(corpses, tile)]
  <1> DEFINE n == Len(corpses)
             seen == Lying(corpses)
             I == {k \in 1..Len(seen) : seen[k].tile = tile}
             c == SelectInSeq(seen, LAMBDA h : h.tile = tile)
             j == CorpseOn(corpses, tile)
             m == n - c + 1
  <1>1. n \in Nat /\ Len(seen) = n /\ \A k \in 1..n : seen[k] = corpses[n - k + 1]
    BY LyingReversed
  <1>2. c = IF I # {} THEN Min(I) ELSE 0
    BY DEF SelectInSeq
  <1>3. I # {} /\ c = Min(I)
    BY <1>2
  <1> HIDE DEF c, seen
  <1>4. Min(I) \in I /\ \A x \in I : Min(I) <= x
    <2>1. I \in SUBSET Nat
      BY <1>1
    <2> HIDE DEF I
    <2> QED BY <1>3, <2>1, LeastOf
  <1>5. c \in 1..n /\ seen[c].tile = tile /\ \A k \in 1..n : seen[k].tile = tile => c <= k
    BY <1>1, <1>3, <1>4
  <1>6. /\ j \in 0..n /\ (j # 0 => corpses[j].tile = tile)
        /\ \A k \in 1..n : corpses[k].tile = tile => k <= j
    BY CorpseFound
  <1> HIDE DEF n, j
  <1>7. m \in 1..n /\ corpses[m].tile = tile /\ seen[c] = corpses[m]
    BY <1>1, <1>5
  <1>8. m <= j /\ j \in 1..n /\ corpses[j].tile = tile
    BY <1>1, <1>6, <1>7
  <1>9. c <= n - j + 1
    <2>1. n - j + 1 \in 1..n /\ n - (n - j + 1) + 1 = j
      BY <1>1, <1>8
    <2>2. seen[n - j + 1] = corpses[j]
      BY <1>1, <2>1
    <2> QED BY <1>5, <1>8, <2>1, <2>2
  <1>10. j = m
    BY <1>1, <1>5, <1>8, <1>9
  <1> QED BY <1>7, <1>8, <1>10 DEF c, seen, j

-----------------------------------------------------------------------------
(* The ticks of a frame. *)

(* The bag after the requests of a frame were handled. *)
Handed(w) ==
    \E l : /\ Goods(l) /\ SameStock(world, l)
           /\ w.bag = Looted(Unequipped(Equipped(Targeted(l, pending), pending), pending),
                             pending).bag

(* No request does nothing.                                                *)
LEMMA NothingAsked ==
    /\ Asked(NoRequests)
    /\ \A w : Looted(Unequipped(Equipped(Targeted(w, NoRequests), NoRequests), NoRequests),
                     NoRequests) = w
  BY DEF NoRequests, Asked, Looted, Unequipped, Equipped, Targeted

(* The first tick of a frame changes the bag as the requests have it, no   *)
(* other does.                                                             *)
LEMMA TickedGoods ==
    ASSUME NEW n \in Nat, Goods(world), Asked(pending), NEW v \in Ticked(n)
    PROVE  /\ Goods(v)
           /\ n = 0 => v = world
           /\ n # 0 => Handed(v)
  <1>1. PICK after :
            /\ after[0] = {world}
            /\ \A k \in 1..n : after[k] = UNION {Simulated(w, Orders(k)) : w \in after[k - 1]}
            /\ Ticked(n) = after[n]
    BY TickedUnfolds
  <1> DEFINE Fine(w, k) == Goods(w) /\ (k = 0 => w = world) /\ (k # 0 => Handed(w))
             Good == {k \in Nat : k <= n => \A w \in after[k] : Fine(w, k)}
  <1>2. 0 \in Good
    BY <1>1
  <1>3. ASSUME NEW k \in Nat, k \in Good PROVE k + 1 \in Good
    <2>1. SUFFICES ASSUME k + 1 <= n, NEW w \in after[k + 1] PROVE Fine(w, k + 1)
      OBVIOUS
    <2>2. k + 1 \in 1..n /\ (k + 1) - 1 = k /\ k <= n /\ k + 1 # 0
      BY <2>1
    <2>3. PICK u \in after[k] : w \in Simulated(u, Orders(k + 1))
      <3>1. after[k + 1] = UNION {Simulated(u, Orders(k + 1)) : u \in after[(k + 1) - 1]}
        BY <1>1, <2>2
      <3> QED BY <2>1, <2>2, <3>1
    <2>4. Goods(u) /\ (k = 0 => u = world) /\ (k # 0 => Handed(u))
      BY <1>3, <2>2, <2>3
    <2>5. CASE k = 0
      <3>1. w \in Simulated(world, pending)
        BY <2>3, <2>4, <2>5 DEF Orders
      <3>2. Goods(w) /\ Handed(w)
        BY <3>1, SimulatedGoods DEF Handed
      <3> QED BY <2>2, <3>2
    <2>6. CASE k # 0
      <3>1. w \in Simulated(u, NoRequests)
        BY <2>3, <2>6 DEF Orders
      <3>2. Goods(w) /\ w.bag = u.bag
        BY <2>4, <3>1, SimulatedGoods, NothingAsked DEF SameStock
      <3>3. Handed(w)
        BY <2>4, <2>6, <3>2 DEF Handed
      <3> QED BY <2>2, <3>2, <3>3
    <2> QED BY <2>5, <2>6
  <1>4. n \in Good
    <2> HIDE DEF Good
    <2> QED BY <1>2, <1>3, Induction
  <1> QED BY <1>1, <1>4

-----------------------------------------------------------------------------

(* What a request for loot was shown is what a request would find now.     *)
StillThere(loot) ==
    LET c == CorpseOn(world.corpses, loot.tile)
    IN  c # 0 /\ world.corpses[c].items[loot.index] = loot.shown

GoodsInv ==
    /\ phase \in {"picking", "playing"}
    /\ phase = "picking" => picked \in DOMAIN Vocations /\ pending = NoRequests
    /\ Asked(pending)
    /\ phase = "playing" => /\ Goods(world) /\ view = Seen(world)
                            /\ pending.loot # NoLoot => StillThere(pending.loot)

(* A click asks for what is shown, and what is shown is there.             *)
LEMMA PressGoods ==
    ASSUME GoodsInv, Press
    PROVE  GoodsInv'
  <1> DEFINE Keys == {"attack", "equip", "unequip", "loot", "cast"}
             Fair == /\ Asked(pending')
                     /\ pending'.loot = pending.loot \/ StillThere(pending'.loot)
  <1>1. phase' = phase /\ world' = world /\ view' = view /\ picked' = picked /\ phase = "playing"
    BY DEF Press, ClickLoot, ClickWorn, ClickBag, ClickRow, ClickTile, KeyInventory, KeyCast,
           InPlay
  <1>2. Goods(world) /\ view = Seen(world) /\ Asked(pending) /\ Keys \subseteq DOMAIN pending
    BY <1>1 DEF GoodsInv, Asked
  <1>3. ASSUME NEW i \in 1..2, ClickLoot(i) PROVE Fair
    <2> DEFINE seen == Lying(world.corpses)
               c == SelectInSeq(seen, LAMBDA h : h.tile = panel.loot)
               j == CorpseOn(world.corpses, panel.loot)
               loot == [tile |-> panel.loot, index |-> i, shown |-> seen[c].items[i]]
    <2>1. view.corpses = seen
      BY <1>2 DEF Seen
    <2>2. OpenCorpse = c
      BY <2>1 DEF OpenCorpse
    <2> HIDE DEF seen
    <2>3. c # 0 /\ pending' = [pending EXCEPT !.loot = loot]
      BY <1>3, <2>1, <2>2 DEF ClickLoot
    <2>4. world.corpses \in Seq(Heaps)
      BY <1>2 DEF Goods, Stocked
    <2>5. j # 0 /\ seen[c] = world.corpses[j]
      BY <2>3, <2>4, ShownIsFound DEF seen
    <2>6. pending'.loot = loot /\ pending'.unequip = pending.unequip
          /\ Keys \subseteq DOMAIN pending'
      BY <1>2, <2>3
    <2> HIDE DEF c, j
    <2>7. StillThere(loot)
      BY <2>5 DEF StillThere, j
    <2>8. loot.index \in Nat \ {0}
      OBVIOUS
    <2> HIDE DEF loot
    <2> QED BY <1>2, <2>6, <2>7, <2>8 DEF Asked
  <1>4. ASSUME NEW s \in Slots, ClickWorn(s) PROVE Fair
    BY <1>2, <1>4 DEF ClickWorn, Asked
  <1>5. ASSUME NEW i \in 1..3, ClickBag(i) PROVE Fair
    BY <1>2, <1>5 DEF ClickBag, Asked
  <1>6. ASSUME NEW r \in 1..RowsShown, ClickRow(r) PROVE Fair
    BY <1>2, <1>6 DEF ClickRow, Engage, Asked
  <1>7. ASSUME NEW t \in Tiles, ClickTile(t) PROVE Fair
    BY <1>2, <1>7 DEF ClickTile, Engage, Asked
  <1>8. ASSUME KeyInventory PROVE Fair
    BY <1>2, <1>8 DEF KeyInventory
  <1>9. ASSUME KeyCast PROVE Fair
    BY <1>2, <1>9 DEF KeyCast, Asked
  <1>10. Fair
    <2> HIDE DEF Fair
    <2> QED BY <1>3, <1>4, <1>5, <1>6, <1>7, <1>8, <1>9 DEF Press
  <1>11. view' = Seen(world')
    BY <1>1, <1>2
  <1>12. Goods(world')
    BY <1>1, <1>2
  <1>13. pending'.loot # NoLoot =>
           LET c == CorpseOn(world'.corpses, pending'.loot.tile)
           IN  c # 0 /\ world'.corpses[c].items[pending'.loot.index] = pending'.loot.shown
    BY <1>1, <1>10 DEF GoodsInv, StillThere
  <1> QED BY <1>1, <1>10, <1>11, <1>12, <1>13
          DEF GoodsInv, StillThere, Goods, Stocked, Asked, Owed

(* GoodsInv is inductive.                                                  *)
LEMMA GoodsStep == GoodsInv /\ [HuntNext]_huntVars => GoodsInv'
  <1> SUFFICES ASSUME GoodsInv, [HuntNext]_huntVars PROVE GoodsInv'
    OBVIOUS
  <1>1. ASSUME NEW i \in DOMAIN Vocations, PickCard(i) PROVE GoodsInv'
    <2>1. /\ phase' = "picking" /\ phase = "picking" /\ picked' \in DOMAIN Vocations
          /\ pending' = pending
      BY <1>1 DEF PickCard
    <2> QED BY <2>1 DEF GoodsInv, Asked
  <1>2. CASE Confirm
    <2>1. Vocations[picked] \in Range(Vocations)
      BY <1>2 DEF Confirm, GoodsInv, Range
    <2>2. /\ phase' = "playing" /\ world' \in Begun(Vocations[picked])
          /\ view' = Seen(world') /\ pending' = NoRequests
      BY <1>2 DEF Confirm, GoodsInv
    <2>3. Goods(world')
      BY <2>1, <2>2, BegunGoods
    <2>4. pending'.loot = NoLoot /\ Asked(pending')
      BY <2>2, NothingAsked DEF NoRequests
    <2> QED BY <2>2, <2>3, <2>4 DEF GoodsInv, Goods, Stocked, Asked, Owed
  <1>3. CASE Press
    BY <1>3, PressGoods
  <1>4. ASSUME NEW n \in 0..MaxCatchUp, Update(n) PROVE GoodsInv'
    <2>1. /\ phase = "playing" /\ phase' = phase /\ world' \in Ticked(n) /\ view' = Seen(world')
          /\ pending' = IF n = 0 THEN pending ELSE NoRequests
      BY <1>4 DEF Update
    <2>2. n \in Nat
      BY HuntAssumption
    <2>3. Goods(world) /\ Asked(pending) /\ (pending.loot # NoLoot => StillThere(pending.loot))
      BY <2>1 DEF GoodsInv
    <2>4. Goods(world') /\ (n = 0 => world' = world)
      BY <2>1, <2>2, <2>3, TickedGoods
    <2>5. Asked(pending')
      BY <2>1, <2>3, NothingAsked
    <2>6. pending'.loot # NoLoot =>
             LET c == CorpseOn(world'.corpses, pending'.loot.tile)
             IN  c # 0 /\ world'.corpses[c].items[pending'.loot.index] = pending'.loot.shown
      BY <2>1, <2>3, <2>4 DEF StillThere, NoRequests
    <2> QED BY <2>1, <2>4, <2>5, <2>6 DEF GoodsInv, StillThere, Goods, Stocked, Asked, Owed
  <1>5. CASE UNCHANGED huntVars
    BY <1>5 DEF huntVars, GoodsInv, StillThere, Goods, Stocked, Asked, Owed
  <1> QED BY <1>1, <1>2, <1>3, <1>4, <1>5 DEF HuntNext

(* GoodsInv holds at first.                                                *)
LEMMA GoodsStart == HuntInit => GoodsInv
  BY NothingAsked DEF HuntInit, GoodsInv

(* Of every item the world holds as many as kits and loot rolls made,      *)
(* modulo the width of a count (equip, unequip, take_from_corpse,          *)
(* apply_damage, add_item, remove_item, apply_vocation).                   *)
THEOREM NoItemIsLost == HuntSpec => []NothingLost
  <1>1. GoodsInv => NothingLost
    BY DEF GoodsInv, NothingLost, Goods, Owed
  <1> QED BY <1>1, GoodsStart, GoodsStep, PTL DEF HuntSpec

(* A request for loot alone adds what was shown to the bag, or nothing.    *)
LEMMA HandedIsShown ==
    ASSUME pending.equip = None, pending.unequip = NoSlot, pending.loot # NoLoot,
           StillThere(pending.loot), NEW w, Handed(w)
    PROVE  w.bag \in {world.bag, AddTo(world.bag, pending.loot.shown)}
  <1>1. PICK l : /\ Goods(l) /\ SameStock(world, l)
                 /\ w.bag = Looted(Unequipped(Equipped(Targeted(l, pending), pending), pending),
                                   pending).bag
    BY DEF Handed
  <1> DEFINE t == Targeted(l, pending)
             loot == pending.loot
             c == CorpseOn(world.corpses, loot.tile)
  <1>2. Looted(Unequipped(Equipped(t, pending), pending), pending) = TakeFromCorpse(t, loot)
    BY DEF Looted, Unequipped, Equipped
  <1>3. t.bag = world.bag /\ t.corpses = world.corpses /\ Fields \subseteq DOMAIN t
    BY <1>1 DEF Targeted, SameStock, Fields, Goods, Stocked
  <1>4. world.corpses[c].items[loot.index] = loot.shown
    BY DEF StillThere
  <1> HIDE DEF t, c
  <1>5. TakeFromCorpse(t, loot).bag = t.bag
          \/ TakeFromCorpse(t, loot).bag = AddTo(t.bag, world.corpses[c].items[loot.index])
    BY <1>3 DEF TakeFromCorpse, c, Fields
  <1> QED BY <1>1, <1>2, <1>3, <1>4, <1>5 DEF t

(* A request for loot alone brings into the bag the stack that was         *)
(* clicked, or nothing (the loot panel of main.cpp, SoloSession::update    *)
(* and refresh_view, take_from_corpse).                                    *)
THEOREM LootIsAsShown == HuntSpec => TakenAsShown
  <1> DEFINE Given == pending.loot # NoLoot /\ pending.equip = None /\ pending.unequip = NoSlot
             Kin == Given => world'.bag \in {world.bag, AddTo(world.bag, pending.loot.shown)}
  <1>1. GoodsInv /\ [HuntNext]_huntVars => [Kin]_huntVars
    <2>1. SUFFICES ASSUME GoodsInv, HuntNext, Given
                   PROVE  world'.bag \in {world.bag, AddTo(world.bag, pending.loot.shown)}
      OBVIOUS
    <2>2. CASE \E i \in DOMAIN Vocations : PickCard(i)
      BY <2>2 DEF PickCard
    <2>3. CASE Confirm
      BY <2>1, <2>3 DEF Confirm, GoodsInv, NoRequests
    <2>4. CASE Press
      <3>1. world' = world
        BY <2>4 DEF Press, ClickLoot, ClickWorn, ClickBag, ClickRow, ClickTile, KeyInventory,
                    KeyCast, InPlay
      <3> QED BY <3>1
    <2>5. ASSUME NEW n \in 0..MaxCatchUp, Update(n)
          PROVE  world'.bag \in {world.bag, AddTo(world.bag, pending.loot.shown)}
      <3>1. phase = "playing" /\ world' \in Ticked(n)
        BY <2>5 DEF Update
      <3>2. n \in Nat
        BY HuntAssumption
      <3>3. Goods(world) /\ Asked(pending) /\ StillThere(pending.loot)
        BY <2>1, <3>1 DEF GoodsInv
      <3>4. (n = 0 => world' = world) /\ (n # 0 => Handed(world'))
        BY <3>1, <3>2, <3>3, TickedGoods
      <3> QED BY <2>1, <3>3, <3>4, HandedIsShown
    <2> QED BY <2>1, <2>2, <2>3, <2>4, <2>5 DEF HuntNext
  <1> HIDE DEF Kin
  <1>2. HuntSpec => [][Kin]_huntVars
    BY <1>1, GoodsStart, GoodsStep, PTL DEF HuntSpec
  <1> QED BY <1>2 DEF Kin, TakenAsShown
=============================================================================
