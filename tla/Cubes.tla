------------------------------- MODULE Cubes --------------------------------
(***************************************************************************)
(* The cubes of the table and which of them the arm may reach.  A cross is *)
(* five cubes of 58 mm that touch: one in the middle, one on each side.    *)
(* CubePlace, CubeFace and the search of ScriptManager, on ordinals as in  *)
(* the code; null is the empty set.                                        *)
(***************************************************************************)
EXTENDS Integers, FiniteSets

CONSTANT Croix        \* the crosses of our side of the table

ASSUME CroixAssumption == IsFiniteSet(Croix)

Places == 0 .. 4      \* DROITE, HAUT, GAUCHE, BAS, CENTRE
CENTRE == 4
Faces == 0 .. 3       \* GAUCHE, BAS, DROITE, HAUT
Cube == [croix : Croix, place : Places]

-----------------------------------------------------------------------------
getOrthogonal(face, cote) == IF cote THEN (face + 1) % 4 ELSE (face + 3) % 4

getFaceVoisin(face, place) ==
  CASE place = CENTRE -> {(face + 2) % 4}
    [] place = face -> {CENTRE}
    [] OTHER -> {}

\* The neighbours of some cubes on one of their faces.
getVoisin(face, cubes) ==
  UNION {[croix : {c.croix}, place : getFaceVoisin(face, c.place)] : c \in cubes}

\* Mutant of Checked: the cubes at the sides of the arm are forgotten.
CheckedMutant(c, face) ==
  LET below == getVoisin(face, {c})
  IN  below \cup getVoisin(face, below)

\* The cubes whose absence the search asks for when the arm takes c by its face, whatever it
\* does to the cubes beside it.
Checked(c, face) ==
  LET left  == getOrthogonal(face, TRUE)
      right == getOrthogonal(face, FALSE)
      below == getVoisin(face, {c})
  IN  IF below # {}
      THEN below \cup UNION {getVoisin(f, below) : f \in {face, left, right}}
      ELSE getVoisin(right, getVoisin(left, {c})) \cup getVoisin(left, getVoisin(right, {c}))

isFacePossibleEnBourrinant(c, face, cubes) ==
  c \in cubes /\ Checked(c, face) \cap cubes = {}

isFacePossible(c, face, bourrine, cubes) ==
  /\ isFacePossibleEnBourrinant(c, face, cubes)
  /\ bourrine \/ \A cote \in BOOLEAN :
                    getVoisin(getOrthogonal(face, cote), {c}) \cap cubes = {}

\* The cubes of the given places that may be taken.
getAllPossible(places, bourrine, cubes) ==
  {c \in cubes : c.place \in places /\ \E face \in Faces : isFacePossible(c, face, bourrine, cubes)}

-----------------------------------------------------------------------------
(* The reference: where the cubes are, by their coordinates                *)

\* deltaX and deltaY of CubePlace and the angle of CubeFace, in sides of a cube.
Position(place) ==
  CASE place = 0 -> <<1, 0>> [] place = 1 -> <<0, 1>> [] place = 2 -> <<-1, 0>>
    [] place = 3 -> <<0, -1>> [] OTHER -> <<0, 0>>
Direction(face) ==
  CASE face = 0 -> <<-1, 0>> [] face = 1 -> <<0, -1>> [] face = 2 -> <<1, 0>> [] OTHER -> <<0, 1>>

\* The cubes A, B, C and D of ScriptManager's drawing: in front of the face of c, on both
\* sides of the arm, and one further.
InTheWay(c, face) ==
  LET d == Direction(face)
      here == Position(c.place)
      ahead == <<here[1] + d[1], here[2] + d[2]>>
      taken == {ahead, <<ahead[1] + d[1], ahead[2] + d[2]>>,
                <<ahead[1] + d[2], ahead[2] - d[1]>>, <<ahead[1] - d[2], ahead[2] + d[1]>>}
  IN  {o \in [croix : {c.croix}, place : Places] : Position(o.place) \in taken}

=============================================================================
