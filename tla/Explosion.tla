------------------------------- MODULE Explosion -------------------------------
(***************************************************************************)
(* The geometry of an explosion, computed three times: by the server when  *)
(* a bomb explodes (GameRoom::explode_bombs), by the client when it draws  *)
(* the explosion from the event (Client::resolve(BombExploded)), and as    *)
(* the rules have it (a cross with arms of explosion_radius, each arm      *)
(* stopped by the nearest block).                                          *)
(***************************************************************************)
EXTENDS GameTypes

CONSTANT ExplosionRadius \* explosion_radius

ASSUME RadiusAssumption == ExplosionRadius \in Nat

Lower(a, b) == IF a <= b THEN a ELSE b

(***************************************************************************)
(* The position k fields away from p.                                      *)
(***************************************************************************)
Step(p, d, k) ==
  [x |-> p.x + (IF d = "Right" THEN k ELSE IF d = "Left" THEN -k ELSE 0),
   y |-> p.y + (IF d = "Up" THEN k ELSE IF d = "Down" THEN -k ELSE 0)]

(***************************************************************************)
(* An arm visits the fields 0..reach in direction d and stops after the    *)
(* first one that is in stops: the find and break of each loop.  A loop    *)
(* whose bound excludes the bomb's own field has reach < 0.                *)
(***************************************************************************)
Arm(p, d, reach, stops) ==
  {Step(p, d, k) : k \in {i \in 0 .. reach :
                            \A j \in 0 .. (i - 1) : Step(p, d, j) \notin stops}}

(***************************************************************************)
(* The bounds of the server's four loops.  The loop going up compares the  *)
(* row with bomb.position.x + explosion_radius.                            *)
(***************************************************************************)
\* Mutants: the loop going up measured from the bomb's row, as the others
\* are from their own coordinate, but one field short; and from row 0.
ServerReach_Short(p, d) ==
  CASE d = "Left"  -> Lower(p.x, ExplosionRadius)
    [] d = "Right" -> Lower(SizeX - 1 - p.x, ExplosionRadius)
    [] d = "Down"  -> Lower(p.y, ExplosionRadius)
    [] d = "Up"    -> Lower(SizeY - 1, p.x + ExplosionRadius - 1) - p.y

ServerReach_Absolute(p, d) ==
  CASE d = "Left"  -> Lower(p.x, ExplosionRadius)
    [] d = "Right" -> Lower(SizeX - 1 - p.x, ExplosionRadius)
    [] d = "Down"  -> Lower(p.y, ExplosionRadius)
    [] d = "Up"    -> Lower(SizeY - 1, ExplosionRadius) - p.y

ServerReach(p, d) ==
  CASE d = "Left"  -> Lower(p.x, ExplosionRadius)
    [] d = "Right" -> Lower(SizeX - 1 - p.x, ExplosionRadius)
    [] d = "Down"  -> Lower(p.y, ExplosionRadius)
    [] d = "Up"    -> Lower(SizeY - 1, p.x + ExplosionRadius) - p.y

(***************************************************************************)
(* The bounds of the client's four loops.                                  *)
(***************************************************************************)
\* Mutant: the loop going right runs up to size_x.
ClientReach_OffBoard(p, d) ==
  CASE d = "Left"  -> Lower(p.x, ExplosionRadius)
    [] d = "Right" -> Lower(SizeX - p.x, ExplosionRadius)
    [] d = "Down"  -> Lower(p.y, ExplosionRadius)
    [] d = "Up"    -> Lower(SizeY - 1 - p.y, ExplosionRadius)

ClientReach(p, d) ==
  CASE d = "Left"  -> Lower(p.x, ExplosionRadius)
    [] d = "Right" -> Lower(SizeX - 1 - p.x, ExplosionRadius)
    [] d = "Down"  -> Lower(p.y, ExplosionRadius)
    [] d = "Up"    -> Lower(SizeY - 1 - p.y, ExplosionRadius)

(***************************************************************************)
(* The fields the server visits, and what it reports destroyed: every      *)
(* robot and every block on them.                                          *)
(***************************************************************************)
ServerBlast(p, bs) ==
  UNION {Arm(p, d, ServerReach(p, d), bs) : d \in Direction}

RobotsDestroyed(p, bs, positions) ==
  {i \in DOMAIN positions : positions[i] \in ServerBlast(p, bs)}

BlocksDestroyed(p, bs) == bs \cap ServerBlast(p, bs)

(***************************************************************************)
(* The fields the client adds to its explosions: it knows the blocks the   *)
(* event names and stops at those.                                         *)
(***************************************************************************)
\* Mutant: the client stops before the destroyed block.
ClientBlast_StopsShort(p, destroyed) ==
  UNION {Arm(p, d, ClientReach(p, d), destroyed) : d \in Direction} \ destroyed

ClientBlast(p, destroyed) ==
  UNION {Arm(p, d, ClientReach(p, d), destroyed) : d \in Direction}

(***************************************************************************)
(* The rules: the fields in line with the bomb, no farther than the        *)
(* radius, with no block between the bomb and the field.  A block on the   *)
(* bomb's own field stands before every other field.                       *)
(***************************************************************************)
InLine(p, q) == p.x = q.x \/ p.y = q.y

Near(a, b) == a - b <= ExplosionRadius /\ b - a <= ExplosionRadius

Between(a, b, c) == (a <= b /\ b <= c) \/ (c <= b /\ b <= a)

Shields(b, p, q) == b # q /\ Between(p.x, b.x, q.x) /\ Between(p.y, b.y, q.y)

Cross(p, bs) ==
  {q \in Position : /\ InLine(p, q)
                    /\ Near(p.x, q.x) /\ Near(p.y, q.y)
                    /\ \A b \in bs : ~ Shields(b, p, q)}

--------------------------------------------------------------------------------

(***************************************************************************)
(* The positions of a bomb, among the blocks bs, whose blast has a field   *)
(* that is not of the cross, or lacks one; and the same for what the       *)
(* client draws, when all it knows of the blocks is the server's report.   *)
(***************************************************************************)
BlastTooLarge(bs) == {p \in Position : ~ ServerBlast(p, bs) \subseteq Cross(p, bs)}

BlastTooSmall(bs) == {p \in Position : ~ Cross(p, bs) \subseteq ServerBlast(p, bs)}

Drawn(p, bs) == ClientBlast(p, BlocksDestroyed(p, bs))

DrawnTooLarge(bs) == {p \in Position : ~ Drawn(p, bs) \subseteq Cross(p, bs)}

DrawnTooSmall(bs) == {p \in Position : ~ Cross(p, bs) \subseteq Drawn(p, bs)}

================================================================================
