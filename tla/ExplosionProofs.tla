----------------------------- MODULE ExplosionProofs ---------------------------
(***************************************************************************)
(* Proofs about the geometry of explosions, for every board, radius and    *)
(* set of blocks.                                                          *)
(***************************************************************************)
EXTENDS Explosion, FiniteSetTheorems, WellFoundedInduction, TLAPS

--------------------------------------------------------------------------------
(***************************************************************************)
(* Counting, for this module and those that extend it: the least element   *)
(* of a set of naturals, induction over an interval, and functions that    *)
(* are defined by recursion over one.  Each fact is stated over sets and   *)
(* functions, with no operator for a parameter, so that a proof can cite   *)
(* it for a set or a function of its own.                                  *)
(***************************************************************************)
(***************************************************************************)
(* Every non-empty set of naturals has a least element.  The intervals     *)
(* 0..(n-1) stand for the numbers n, and strict inclusion of finite sets   *)
(* is well founded.                                                        *)
(***************************************************************************)
LEMMA LeastNatural ==
  ASSUME NEW T \in SUBSET Nat, T # {}
  PROVE  \E n \in T : \A k \in T : n <= k
<1> DEFINE Below == {0 .. (n - 1) : n \in T}
<1>1. Below \subseteq FiniteSubsetsOf(Nat)
  <2> SUFFICES ASSUME NEW n \in T
               PROVE  (0 .. (n - 1)) \in FiniteSubsetsOf(Nat)
    OBVIOUS
  <2>1. IsFiniteSet(0 .. (n - 1))
    BY FS_Interval
  <2> QED
    BY <2>1 DEF FiniteSubsetsOf
<1>2. PICK x \in Below :
           \A y \in Below : ~ (<<y, x>> \in StrictSubsetOrdering(Nat))
  <2>1. Below # {}
    OBVIOUS
  <2> HIDE DEF Below
  <2>2. IsWellFoundedOn(StrictSubsetOrdering(Nat), FiniteSubsetsOf(Nat))
    BY FS_StrictSubsetOrderingWellFounded
  <2> QED
    BY <1>1, <2>1, <2>2, WFMin
<1>3. PICK m \in T : x = 0 .. (m - 1)
  OBVIOUS
<1>4. ASSUME NEW k \in T
      PROVE  m <= k
  <2>1. ~ (<<0 .. (k - 1), x>> \in StrictSubsetOrdering(Nat))
    BY <1>2
  <2>2. (0 .. (k - 1)) \subseteq Nat /\ x \subseteq Nat
    BY <1>3
  <2>3. CASE k < m
    <3>1. (0 .. (k - 1)) \subseteq x
      BY <1>3, <2>3
    <3>2. k \in x /\ k \notin (0 .. (k - 1))
      BY <1>3, <2>3
    <3> QED
      BY <2>1, <2>2, <3>1, <3>2 DEF StrictSubsetOrdering
  <2> QED
    BY <2>3
<1> QED
  BY <1>4

(***************************************************************************)
(* Induction over 0..N, for a property given as the set T of the numbers   *)
(* that have it.                                                           *)
(***************************************************************************)
LEMMA IntervalInduction ==
  ASSUME NEW N \in Nat, NEW T,
         0 \in T,
         \A k \in 0 .. (N - 1) : k \in T => k + 1 \in T
  PROVE  \A k \in 0 .. N : k \in T
<1> DEFINE Missing == {k \in 0 .. N : k \notin T}
<1>1. CASE Missing # {}
  <2>1. PICK m \in Missing : \A k \in Missing : m <= k
    <3>1. Missing \in SUBSET Nat
      OBVIOUS
    <3> HIDE DEF Missing
    <3> QED
      BY <1>1, <3>1, LeastNatural
  <2>2. m # 0 /\ m - 1 \in 0 .. (N - 1)
    BY <2>1
  <2>3. m - 1 \in T
    BY <2>1, <2>2
  <2> QED
    BY <2>1, <2>2, <2>3
<1> QED
  BY <1>1

(***************************************************************************)
(* f is the function over 0..N with values in S whose first value is a and *)
(* whose other values step gives from their number and the value before.   *)
(***************************************************************************)
IsRecursion(f, N, S, a, step) ==
  /\ f \in [0 .. N -> S]
  /\ f[0] = a
  /\ \A k \in 1 .. N : f[k] = step[<<k, f[k - 1]>>]

(***************************************************************************)
(* A recursive definition over 0..N with values in S defines a function:   *)
(* its first value is a, and step takes each number and the value before   *)
(* it to the next value.                                                   *)
(***************************************************************************)
LEMMA RecursionExists ==
  ASSUME NEW N \in Nat, NEW S, NEW a \in S,
         NEW step \in [(1 .. N) \X S -> S]
  PROVE  \E f : IsRecursion(f, N, S, a, step)
<1> DEFINE T == {n \in 0 .. N : \E f : IsRecursion(f, n, S, a, step)}
<1>1. 0 \in T
  <2> DEFINE f == [k \in 0 .. 0 |-> a]
  <2>1. f \in [0 .. 0 -> S] /\ f[0] = a
    OBVIOUS
  <2>2. \A k \in 1 .. 0 : f[k] = step[<<k, f[k - 1]>>]
    OBVIOUS
  <2> HIDE DEF f
  <2>3. IsRecursion(f, 0, S, a, step)
    BY <2>1, <2>2 DEF IsRecursion
  <2> QED
    BY <2>3
<1>2. ASSUME NEW n \in 0 .. (N - 1), n \in T
      PROVE  n + 1 \in T
  <2>1. PICK f : IsRecursion(f, n, S, a, step)
    BY <1>2
  <2>2. f[n] \in S /\ n + 1 \in 1 .. N /\ n \in Nat
    BY <2>1 DEF IsRecursion
  <2>3. PICK v \in S : v = step[<<n + 1, f[n]>>]
    BY <2>2
  <2> DEFINE h == [k \in 0 .. (n + 1) |-> IF k <= n THEN f[k] ELSE v]
  <2>4. \A k \in 0 .. n : h[k] = f[k] /\ f[k] \in S
    BY <2>1 DEF IsRecursion
  <2>5. h[n + 1] = step[<<n + 1, h[n]>>]
    <3>1. n + 1 \in 0 .. (n + 1) /\ ~ (n + 1 <= n) /\ n \in 0 .. n
      BY <2>2
    <3>2. h[n + 1] = v
      BY <3>1
    <3>3. h[n] = f[n]
      BY <2>4, <3>1
    <3> HIDE DEF h
    <3> QED
      BY <2>3, <3>2, <3>3
  <2>6. h \in [0 .. (n + 1) -> S]
    <3>1. ASSUME NEW k \in 0 .. (n + 1)
          PROVE  h[k] \in S
      <4>1. CASE k = n + 1
        BY <2>2, <4>1
      <4>2. CASE k # n + 1
        <5>1. k \in 0 .. n
          BY <2>2, <4>2
        <5> QED
          BY <2>4, <5>1
      <4> QED
        BY <4>1, <4>2
    <3> QED
      BY <3>1
  <2>7. h[0] = a
    BY <2>1, <2>2, <2>4 DEF IsRecursion
  <2> HIDE DEF h
  <2>8. ASSUME NEW k \in 1 .. (n + 1)
        PROVE  h[k] = step[<<k, h[k - 1]>>]
    <3>1. CASE k = n + 1
      BY <2>5, <3>1
    <3>2. CASE k # n + 1
      <4>1. k \in 1 .. n /\ k \in 0 .. n /\ k - 1 \in 0 .. n
        BY <3>2
      <4>2. h[k] = f[k] /\ h[k - 1] = f[k - 1]
        BY <2>4, <4>1
      <4> QED
        BY <2>1, <4>1, <4>2 DEF IsRecursion
    <3> QED
      BY <3>1, <3>2
  <2>9. IsRecursion(h, n + 1, S, a, step)
    BY <2>6, <2>7, <2>8 DEF IsRecursion
  <2> QED
    BY <2>2, <2>9
<1>3. N \in T
  <2> HIDE DEF T
  <2>1. \A k \in 0 .. (N - 1) : k \in T => k + 1 \in T
    BY <1>2
  <2> QED
    BY <1>1, <2>1, IntervalInduction
<1> QED
  BY <1>3

(***************************************************************************)
(* The values of a function defined by recursion over 0..N stay in S when  *)
(* the first is in S and every step stays in S.                            *)
(***************************************************************************)
LEMMA RecursionRange ==
  ASSUME NEW N \in Nat, NEW S, NEW f,
         f[0] \in S,
         \A k \in 1 .. N : f[k - 1] \in S => f[k] \in S
  PROVE  \A k \in 0 .. N : f[k] \in S
<1> DEFINE T == {k \in 0 .. N : f[k] \in S}
<1>1. 0 \in T
  OBVIOUS
<1>2. \A k \in 0 .. (N - 1) : k \in T => k + 1 \in T
  <2> SUFFICES ASSUME NEW k \in 0 .. (N - 1), f[k] \in S
               PROVE  f[k + 1] \in S
    OBVIOUS
  <2>1. k + 1 \in 1 .. N /\ (k + 1) - 1 = k
    OBVIOUS
  <2> QED
    BY <2>1
<1>3. \A k \in 0 .. N : k \in T
  <2> HIDE DEF T
  <2> QED
    BY <1>1, <1>2, IntervalInduction
<1> QED
  BY <1>3

--------------------------------------------------------------------------------
(***************************************************************************)
(* The coordinates of the fields on the four arms.                         *)
(***************************************************************************)
LEMMA StepCoordinates ==
  ASSUME NEW p \in Position, NEW k \in Int
  PROVE  /\ Step(p, "Up", k) = [x |-> p.x, y |-> p.y + k]
         /\ Step(p, "Down", k) = [x |-> p.x, y |-> p.y - k]
         /\ Step(p, "Right", k) = [x |-> p.x + k, y |-> p.y]
         /\ Step(p, "Left", k) = [x |-> p.x - k, y |-> p.y]
  BY DEF Step, Position

(***************************************************************************)
(* A field of an arm of the right length belongs to the cross: a block     *)
(* that shields it would be a field of the arm before it.                  *)
(***************************************************************************)
LEMMA ArmInCross ==
  ASSUME NEW p \in Position, NEW blocks \in SUBSET Position, NEW d \in Direction
  PROVE  Arm(p, d, ClientReach(p, d), blocks) \subseteq Cross(p, blocks)
<1> USE BoardAssumption, RadiusAssumption
<1> SUFFICES ASSUME NEW k \in 0 .. ClientReach(p, d),
                    \A j \in 0 .. (k - 1) : Step(p, d, j) \notin blocks
             PROVE  Step(p, d, k) \in Cross(p, blocks)
  BY DEF Arm
<1>0. p.x \in 0 .. (SizeX - 1) /\ p.y \in 0 .. (SizeY - 1) /\ k \in Int
  BY DEF Position
<1> DEFINE q == Step(p, d, k)
<1>1. CASE d = "Up"
  <2>1. k <= SizeY - 1 - p.y /\ k <= ExplosionRadius
    BY <1>0, <1>1 DEF ClientReach, Lower
  <2>2. q = [x |-> p.x, y |-> p.y + k]
    BY <1>0, <1>1, StepCoordinates
  <2>3. q \in Position /\ InLine(p, q) /\ Near(p.x, q.x) /\ Near(p.y, q.y)
    BY <1>0, <2>1, <2>2 DEF Position, InLine, Near
  <2>4. ASSUME NEW b \in blocks, Shields(b, p, q)
        PROVE  FALSE
    <3>1. b.x = p.x /\ p.y <= b.y /\ b.y <= p.y + k /\ b # q
      BY <1>0, <2>2, <2>4 DEF Shields, Between, Position
    <3>2. b = [x |-> p.x, y |-> b.y] /\ b.y \in Int
      BY <3>1 DEF Position
    <3>3. b.y - p.y \in 0 .. (k - 1)
      BY <1>0, <2>2, <3>1, <3>2
    <3>4. Step(p, "Up", b.y - p.y) = [x |-> p.x, y |-> p.y + (b.y - p.y)]
      BY <1>0, <3>3, StepCoordinates
    <3>5. Step(p, "Up", b.y - p.y) = b
      BY <1>0, <3>2, <3>4
    <3> QED
      BY <1>1, <3>3, <3>5
  <2> QED
    BY <2>3, <2>4 DEF Cross
<1>2. CASE d = "Down"
  <2>1. k <= p.y /\ k <= ExplosionRadius
    BY <1>0, <1>2 DEF ClientReach, Lower
  <2>2. q = [x |-> p.x, y |-> p.y - k]
    BY <1>0, <1>2, StepCoordinates
  <2>3. q \in Position /\ InLine(p, q) /\ Near(p.x, q.x) /\ Near(p.y, q.y)
    BY <1>0, <2>1, <2>2 DEF Position, InLine, Near
  <2>4. ASSUME NEW b \in blocks, Shields(b, p, q)
        PROVE  FALSE
    <3>1. b.x = p.x /\ b.y <= p.y /\ p.y - k <= b.y /\ b # q
      BY <1>0, <2>2, <2>4 DEF Shields, Between, Position
    <3>2. b = [x |-> p.x, y |-> b.y] /\ b.y \in Int
      BY <3>1 DEF Position
    <3>3. p.y - b.y \in 0 .. (k - 1)
      BY <1>0, <2>2, <3>1, <3>2
    <3>4. Step(p, "Down", p.y - b.y) = [x |-> p.x, y |-> p.y - (p.y - b.y)]
      BY <1>0, <3>3, StepCoordinates
    <3>5. Step(p, "Down", p.y - b.y) = b
      BY <1>0, <3>2, <3>4
    <3> QED
      BY <1>2, <3>3, <3>5
  <2> QED
    BY <2>3, <2>4 DEF Cross
<1>3. CASE d = "Right"
  <2>1. k <= SizeX - 1 - p.x /\ k <= ExplosionRadius
    BY <1>0, <1>3 DEF ClientReach, Lower
  <2>2. q = [x |-> p.x + k, y |-> p.y]
    BY <1>0, <1>3, StepCoordinates
  <2>3. q \in Position /\ InLine(p, q) /\ Near(p.x, q.x) /\ Near(p.y, q.y)
    BY <1>0, <2>1, <2>2 DEF Position, InLine, Near
  <2>4. ASSUME NEW b \in blocks, Shields(b, p, q)
        PROVE  FALSE
    <3>1. b.y = p.y /\ p.x <= b.x /\ b.x <= p.x + k /\ b # q
      BY <1>0, <2>2, <2>4 DEF Shields, Between, Position
    <3>2. b = [x |-> b.x, y |-> p.y] /\ b.x \in Int
      BY <3>1 DEF Position
    <3>3. b.x - p.x \in 0 .. (k - 1)
      BY <1>0, <2>2, <3>1, <3>2
    <3>4. Step(p, "Right", b.x - p.x) = [x |-> p.x + (b.x - p.x), y |-> p.y]
      BY <1>0, <3>3, StepCoordinates
    <3>5. Step(p, "Right", b.x - p.x) = b
      BY <1>0, <3>2, <3>4
    <3> QED
      BY <1>3, <3>3, <3>5
  <2> QED
    BY <2>3, <2>4 DEF Cross
<1>4. CASE d = "Left"
  <2>1. k <= p.x /\ k <= ExplosionRadius
    BY <1>0, <1>4 DEF ClientReach, Lower
  <2>2. q = [x |-> p.x - k, y |-> p.y]
    BY <1>0, <1>4, StepCoordinates
  <2>3. q \in Position /\ InLine(p, q) /\ Near(p.x, q.x) /\ Near(p.y, q.y)
    BY <1>0, <2>1, <2>2 DEF Position, InLine, Near
  <2>4. ASSUME NEW b \in blocks, Shields(b, p, q)
        PROVE  FALSE
    <3>1. b.y = p.y /\ b.x <= p.x /\ p.x - k <= b.x /\ b # q
      BY <1>0, <2>2, <2>4 DEF Shields, Between, Position
    <3>2. b = [x |-> b.x, y |-> p.y] /\ b.x \in Int
      BY <3>1 DEF Position
    <3>3. p.x - b.x \in 0 .. (k - 1)
      BY <1>0, <2>2, <3>1, <3>2
    <3>4. Step(p, "Left", p.x - b.x) = [x |-> p.x - (p.x - b.x), y |-> p.y]
      BY <1>0, <3>3, StepCoordinates
    <3>5. Step(p, "Left", p.x - b.x) = b
      BY <1>0, <3>2, <3>4
    <3> QED
      BY <1>4, <3>3, <3>5
  <2> QED
    BY <2>3, <2>4 DEF Cross
<1> QED
  BY <1>1, <1>2, <1>3, <1>4 DEF Direction

(***************************************************************************)
(* A field of the cross is on an arm: every field of the arm before it     *)
(* shields it, and so holds no block.                                      *)
(***************************************************************************)
LEMMA CrossInArms ==
  ASSUME NEW p \in Position, NEW blocks \in SUBSET Position
  PROVE  Cross(p, blocks) \subseteq ClientBlast(p, blocks)
<1> USE BoardAssumption, RadiusAssumption
<1> SUFFICES ASSUME NEW q \in Cross(p, blocks)
             PROVE  q \in ClientBlast(p, blocks)
  OBVIOUS
<1>0. /\ p.x \in 0 .. (SizeX - 1) /\ p.y \in 0 .. (SizeY - 1)
      /\ q.x \in 0 .. (SizeX - 1) /\ q.y \in 0 .. (SizeY - 1)
      /\ q = [x |-> q.x, y |-> q.y]
  BY DEF Position, Cross
<1>1. ASSUME NEW d \in Direction, NEW k \in 0 .. ClientReach(p, d),
             q = Step(p, d, k),
             \A j \in 0 .. (k - 1) : Shields(Step(p, d, j), p, q)
      PROVE  q \in ClientBlast(p, blocks)
  <2>1. \A j \in 0 .. (k - 1) : Step(p, d, j) \notin blocks
    BY <1>1 DEF Cross
  <2>2. q \in Arm(p, d, ClientReach(p, d), blocks)
    BY <1>1, <2>1 DEF Arm
  <2> QED
    BY <2>2 DEF ClientBlast
<1>2. CASE q.x = p.x /\ p.y <= q.y
  <2> DEFINE k == q.y - p.y
  <2>1. k \in 0 .. ClientReach(p, "Up")
    BY <1>0, <1>2 DEF Cross, Near, ClientReach, Lower
  <2>2. q = Step(p, "Up", k)
    BY <1>0, <1>2, StepCoordinates
  <2>3. ASSUME NEW j \in 0 .. (k - 1)
        PROVE  Shields(Step(p, "Up", j), p, q)
    <3>1. Step(p, "Up", j) = [x |-> p.x, y |-> p.y + j]
      BY <1>0, StepCoordinates
    <3> QED
      BY <1>0, <1>2, <3>1 DEF Shields, Between
  <2> HIDE DEF k
  <2> QED
    BY <1>1, <2>1, <2>2, <2>3 DEF Direction
<1>3. CASE q.x = p.x /\ q.y <= p.y
  <2> DEFINE k == p.y - q.y
  <2>1. k \in 0 .. ClientReach(p, "Down")
    BY <1>0, <1>3 DEF Cross, Near, ClientReach, Lower
  <2>2. q = Step(p, "Down", k)
    BY <1>0, <1>3, StepCoordinates
  <2>3. ASSUME NEW j \in 0 .. (k - 1)
        PROVE  Shields(Step(p, "Down", j), p, q)
    <3>1. Step(p, "Down", j) = [x |-> p.x, y |-> p.y - j]
      BY <1>0, StepCoordinates
    <3> QED
      BY <1>0, <1>3, <3>1 DEF Shields, Between
  <2> HIDE DEF k
  <2> QED
    BY <1>1, <2>1, <2>2, <2>3 DEF Direction
<1>4. CASE q.y = p.y /\ p.x <= q.x
  <2> DEFINE k == q.x - p.x
  <2>1. k \in 0 .. ClientReach(p, "Right")
    BY <1>0, <1>4 DEF Cross, Near, ClientReach, Lower
  <2>2. q = Step(p, "Right", k)
    BY <1>0, <1>4, StepCoordinates
  <2>3. ASSUME NEW j \in 0 .. (k - 1)
        PROVE  Shields(Step(p, "Right", j), p, q)
    <3>1. Step(p, "Right", j) = [x |-> p.x + j, y |-> p.y]
      BY <1>0, StepCoordinates
    <3> QED
      BY <1>0, <1>4, <3>1 DEF Shields, Between
  <2> HIDE DEF k
  <2> QED
    BY <1>1, <2>1, <2>2, <2>3 DEF Direction
<1>5. CASE q.y = p.y /\ q.x <= p.x
  <2> DEFINE k == p.x - q.x
  <2>1. k \in 0 .. ClientReach(p, "Left")
    BY <1>0, <1>5 DEF Cross, Near, ClientReach, Lower
  <2>2. q = Step(p, "Left", k)
    BY <1>0, <1>5, StepCoordinates
  <2>3. ASSUME NEW j \in 0 .. (k - 1)
        PROVE  Shields(Step(p, "Left", j), p, q)
    <3>1. Step(p, "Left", j) = [x |-> p.x - j, y |-> p.y]
      BY <1>0, StepCoordinates
    <3> QED
      BY <1>0, <1>5, <3>1 DEF Shields, Between
  <2> HIDE DEF k
  <2> QED
    BY <1>1, <2>1, <2>2, <2>3 DEF Direction
<1> QED
  BY <1>0, <1>2, <1>3, <1>4, <1>5 DEF Cross, InLine

(***************************************************************************)
(* A client that knows all blocks draws the cross of the rules             *)
(* (Client::resolve(BombExploded)).                                        *)
(***************************************************************************)
THEOREM ClientBlastIsCross ==
  ASSUME NEW p \in Position, NEW blocks \in SUBSET Position
  PROVE  ClientBlast(p, blocks) = Cross(p, blocks)
<1>1. ClientBlast(p, blocks) \subseteq Cross(p, blocks)
  BY ArmInCross DEF ClientBlast
<1> QED
  BY <1>1, CrossInArms

(***************************************************************************)
(* A longer arm with fewer stops has more fields.                          *)
(***************************************************************************)
LEMMA ArmMonotonic ==
  ASSUME NEW p, NEW d, NEW r1 \in Int, NEW r2 \in Int, r1 <= r2,
         NEW less, NEW more, less \subseteq more
  PROVE  Arm(p, d, r1, more) \subseteq Arm(p, d, r2, less)
  BY DEF Arm

LEMMA ReachesAreIntegers ==
  ASSUME NEW p \in Position, NEW d \in Direction
  PROVE  ServerReach(p, d) \in Int /\ ClientReach(p, d) \in Int
  BY BoardAssumption, RadiusAssumption
     DEF ServerReach, ClientReach, Lower, Position, Direction

(***************************************************************************)
(* The wrong bound of explode_bombs errs one way on each side of the       *)
(* diagonal: left of it the server's arms are no longer than they should   *)
(* be, right of it no shorter.                                             *)
(***************************************************************************)
LEMMA ReachErrsOneWay ==
  ASSUME NEW p \in Position, NEW d \in Direction
  PROVE  /\ p.x <= p.y => ServerReach(p, d) <= ClientReach(p, d)
         /\ p.x >= p.y => ClientReach(p, d) <= ServerReach(p, d)
  BY BoardAssumption, RadiusAssumption
     DEF ServerReach, ClientReach, Lower, Position, Direction

(***************************************************************************)
(* Left of the diagonal the server destroys nothing outside the cross of   *)
(* the rules (GameRoom::explode_bombs).                                    *)
(***************************************************************************)
THEOREM BlastLeftOfDiagonal ==
  ASSUME NEW p \in Position, NEW blocks \in SUBSET Position, p.x <= p.y
  PROVE  ServerBlast(p, blocks) \subseteq Cross(p, blocks)
<1>1. \A d \in Direction : Arm(p, d, ServerReach(p, d), blocks)
                              \subseteq Arm(p, d, ClientReach(p, d), blocks)
  BY ReachesAreIntegers, ReachErrsOneWay, ArmMonotonic
<1>2. ServerBlast(p, blocks) \subseteq ClientBlast(p, blocks)
  BY <1>1 DEF ServerBlast, ClientBlast
<1> QED
  BY <1>2, ClientBlastIsCross

(***************************************************************************)
(* Right of the diagonal it spares nothing inside (GameRoom::              *)
(* explode_bombs).                                                         *)
(***************************************************************************)
THEOREM BlastRightOfDiagonal ==
  ASSUME NEW p \in Position, NEW blocks \in SUBSET Position, p.x >= p.y
  PROVE  Cross(p, blocks) \subseteq ServerBlast(p, blocks)
<1>1. \A d \in Direction : Arm(p, d, ClientReach(p, d), blocks)
                              \subseteq Arm(p, d, ServerReach(p, d), blocks)
  BY ReachesAreIntegers, ReachErrsOneWay, ArmMonotonic
<1>2. ClientBlast(p, blocks) \subseteq ServerBlast(p, blocks)
  BY <1>1 DEF ServerBlast, ClientBlast
<1> QED
  BY <1>2, ClientBlastIsCross

(***************************************************************************)
(* A client that knows the blocks of the cross only, or some more, draws   *)
(* the same: were it to go beyond a block, the first such block would be   *)
(* in the cross and so known to it.                                        *)
(***************************************************************************)
LEMMA CrossBlocksSuffice ==
  ASSUME NEW p \in Position, NEW blocks \in SUBSET Position,
         NEW known \in SUBSET blocks, blocks \cap Cross(p, blocks) \subseteq known
  PROVE  ClientBlast(p, known) = ClientBlast(p, blocks)
<1>1. \A d \in Direction : Arm(p, d, ClientReach(p, d), blocks)
                              \subseteq Arm(p, d, ClientReach(p, d), known)
  BY ReachesAreIntegers, ArmMonotonic
<1>2. ASSUME NEW d \in Direction
      PROVE  Arm(p, d, ClientReach(p, d), known)
               \subseteq Arm(p, d, ClientReach(p, d), blocks)
  <2> DEFINE reach == ClientReach(p, d)
  <2>0. reach \in Int
    BY ReachesAreIntegers
  <2> HIDE DEF reach
  <2> SUFFICES ASSUME NEW k \in 0 .. reach,
                      \A j \in 0 .. (k - 1) : Step(p, d, j) \notin known
               PROVE  Step(p, d, k) \in Arm(p, d, reach, blocks)
    BY DEF Arm, reach
  <2> DEFINE Passed == {j \in 0 .. (k - 1) : Step(p, d, j) \in blocks}
  <2>1. CASE Passed = {}
    BY <2>0, <2>1 DEF Arm
  <2>2. CASE Passed # {}
    <3>1. PICK m \in Passed : \A j \in Passed : m <= j
      <4>1. Passed \in SUBSET Nat
        BY <2>0
      <4> HIDE DEF Passed
      <4> QED
        BY <2>2, <4>1, LeastNatural
    <3>2. \A j \in 0 .. (m - 1) : Step(p, d, j) \notin blocks
      BY <2>0, <3>1
    <3>3. Step(p, d, m) \in Arm(p, d, reach, blocks)
      BY <2>0, <3>1, <3>2 DEF Arm
    <3>4. Step(p, d, m) \in Cross(p, blocks)
      BY <3>3, ArmInCross DEF reach
    <3> QED
      BY <2>0, <3>1, <3>4
  <2> QED
    BY <2>1, <2>2
<1> QED
  BY <1>1, <1>2 DEF ClientBlast

--------------------------------------------------------------------------------

(***************************************************************************)
(* The server's blast is too small on one side of the diagonal only and    *)
(* too large on the other only, so that it is the cross of the rules on    *)
(* it, on every board and among every set of blocks                        *)
(* (GameRoom::explode_bombs).                                              *)
(***************************************************************************)
THEOREM ErrsOneWay ==
  ASSUME NEW bs \in SUBSET Position, NEW p \in Position
  PROVE  /\ p \in BlastTooSmall(bs) => p.x < p.y
         /\ p \in BlastTooLarge(bs) => p.x > p.y
<1>1. p \in BlastTooSmall(bs) => ~ (p.x >= p.y)
  BY BlastRightOfDiagonal DEF BlastTooSmall
<1>2. p \in BlastTooLarge(bs) => ~ (p.x <= p.y)
  BY BlastLeftOfDiagonal DEF BlastTooLarge
<1> QED
  BY <1>1, <1>2, BoardAssumption DEF Position

(***************************************************************************)
(* The client draws no less than the cross, and where the server reports   *)
(* every block that stops an arm, exactly the cross, on every board and    *)
(* among every set of blocks (Client::resolve(BombExploded)).              *)
(***************************************************************************)
THEOREM ClientIsRight ==
  ASSUME NEW board \in SUBSET Position, NEW p \in Position
  PROVE  /\ Cross(p, board) \subseteq Drawn(p, board)
         /\ p.x >= p.y => Drawn(p, board) = Cross(p, board)
<1> DEFINE event == BlocksDestroyed(p, board)
<1>1. Drawn(p, board) = ClientBlast(p, event)
  BY DEF Drawn
<1>2. event \in SUBSET board
  BY DEF BlocksDestroyed
<1>3. event = board \cap ServerBlast(p, board)
  BY DEF BlocksDestroyed
<1> HIDE DEF event
<1>4. \A d \in Direction : Arm(p, d, ClientReach(p, d), board)
                              \subseteq Arm(p, d, ClientReach(p, d), event)
  BY <1>2, ReachesAreIntegers, ArmMonotonic
<1>5. Cross(p, board) \subseteq ClientBlast(p, event)
  BY <1>4, ClientBlastIsCross DEF ClientBlast
<1>6. ASSUME p.x >= p.y
      PROVE  ClientBlast(p, event) = Cross(p, board)
  <2>1. board \cap Cross(p, board) \subseteq event
    BY <1>3, <1>6, BlastRightOfDiagonal
  <2> QED
    BY <1>2, <2>1, CrossBlocksSuffice, ClientBlastIsCross
<1> QED
  BY <1>1, <1>5, <1>6

================================================================================
