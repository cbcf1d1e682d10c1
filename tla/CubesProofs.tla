---------------------------- MODULE CubesProofs -----------------------------
(***************************************************************************)
(* Facts about Cubes for any number of crosses: a face the search calls    *)
(* possible has nothing in the way, cubes that leave make no other one     *)
(* impossible, and as long as there are cubes one can be taken.            *)
(***************************************************************************)
EXTENDS Cubes, TLAPS

-----------------------------------------------------------------------------
(* Neighbours, within a cross                                              *)

\* The cubes of a cross at some places, and the places beside those.
Within(k, places) == [croix : {k}, place : places]
Near(face, places) == UNION {getFaceVoisin(face, p) : p \in places}

\* The neighbours stay in the cross.
LEMMA VoisinWithin ==
  ASSUME NEW k, NEW places, NEW face
  PROVE  getVoisin(face, Within(k, places)) = Within(k, Near(face, places))
<1>1. ASSUME NEW o \in getVoisin(face, Within(k, places))
      PROVE  o \in Within(k, Near(face, places))
  <2>1. PICK c \in Within(k, places) : o \in [croix : {c.croix}, place : getFaceVoisin(face, c.place)]
    BY DEF getVoisin
  <2>2. c.croix = k /\ c.place \in places
    BY DEF Within
  <2> QED
    BY <2>1, <2>2 DEF Within, Near
<1>2. ASSUME NEW o \in Within(k, Near(face, places))
      PROVE  o \in getVoisin(face, Within(k, places))
  <2>1. PICK p \in places : o \in [croix : {k}, place : getFaceVoisin(face, p)]
    BY DEF Within, Near
  <2> DEFINE c == [croix |-> k, place |-> p]
  <2>2. c \in Within(k, places) /\ c.croix = k /\ c.place = p
    BY DEF Within
  <2> QED
    BY <2>1, <2>2 DEF getVoisin
<1> QED
  BY <1>1, <1>2

\* A cube is the only one at its place.
LEMMA CubeWithin ==
  ASSUME NEW c \in Cube
  PROVE  {c} = Within(c.croix, {c.place})
<1>1. c = [croix |-> c.croix, place |-> c.place]
  BY DEF Cube
<1>2. ASSUME NEW o \in Within(c.croix, {c.place}) PROVE o = c
  <2>1. o = [croix |-> o.croix, place |-> o.place] /\ o.croix = c.croix /\ o.place = c.place
    BY DEF Within
  <2> QED
    BY <1>1, <2>1
<1>3. c \in Within(c.croix, {c.place})
  BY <1>1 DEF Within
<1> QED
  BY <1>2, <1>3

\* The places the search looks at.
CheckedPlaces(p, face) ==
  LET left  == getOrthogonal(face, TRUE)
      right == getOrthogonal(face, FALSE)
      below == Near(face, {p})
  IN  IF below # {}
      THEN below \cup Near(face, below) \cup Near(left, below) \cup Near(right, below)
      ELSE Near(right, Near(left, {p})) \cup Near(left, Near(right, {p}))

LEMMA CheckedWithin ==
  ASSUME NEW c \in Cube, NEW face \in Faces
  PROVE  Checked(c, face) = Within(c.croix, CheckedPlaces(c.place, face))
<1> DEFINE k == c.croix
           left  == getOrthogonal(face, TRUE)
           right == getOrthogonal(face, FALSE)
           below == Near(face, {c.place})
<1>1. \A f : getVoisin(f, {c}) = Within(k, Near(f, {c.place}))
  <2>1. {c} = Within(k, {c.place})
    BY CubeWithin
  <2> QED
    BY <2>1, VoisinWithin
<1>2. \A f, g : getVoisin(f, getVoisin(g, {c})) = Within(k, Near(f, Near(g, {c.place})))
  BY <1>1, VoisinWithin
<1>3. getVoisin(face, {c}) = {} <=> below = {}
  <2>1. getVoisin(face, {c}) = Within(k, below)
    BY <1>1
  <2>2. ASSUME NEW p \in below PROVE [croix |-> k, place |-> p] \in Within(k, below)
    BY DEF Within
  <2>3. ASSUME NEW o \in Within(k, below) PROVE o.place \in below
    BY DEF Within
  <2> HIDE DEF below
  <2> QED
    BY <2>1, <2>2, <2>3
<1>4. CASE below # {}
  <2>1. Checked(c, face) = getVoisin(face, {c}) \cup getVoisin(face, getVoisin(face, {c}))
          \cup getVoisin(left, getVoisin(face, {c})) \cup getVoisin(right, getVoisin(face, {c}))
    BY <1>3, <1>4 DEF Checked
  <2>2. CheckedPlaces(c.place, face) = below \cup Near(face, below) \cup Near(left, below) \cup Near(right, below)
    BY <1>4 DEF CheckedPlaces
  <2> HIDE DEF below, left, right
  <2>3. Checked(c, face) = Within(k, below) \cup Within(k, Near(face, below))
          \cup Within(k, Near(left, below)) \cup Within(k, Near(right, below))
    BY <1>1, <1>2, <2>1 DEF below
  <2> QED
    BY <2>2, <2>3 DEF Within
<1>5. CASE below = {}
  <2>1. Checked(c, face) = getVoisin(right, getVoisin(left, {c})) \cup getVoisin(left, getVoisin(right, {c}))
    BY <1>3, <1>5 DEF Checked
  <2>2. CheckedPlaces(c.place, face) = Near(right, Near(left, {c.place})) \cup Near(left, Near(right, {c.place}))
    BY <1>5 DEF CheckedPlaces
  <2> HIDE DEF left, right
  <2> DEFINE A == Near(right, Near(left, {c.place}))
             B == Near(left, Near(right, {c.place}))
  <2>3. Checked(c, face) = Within(k, A) \cup Within(k, B)
    BY <1>2, <2>1
  <2> HIDE DEF A, B
  <2>4. Within(k, A) \cup Within(k, B) = Within(k, A \cup B)
    BY DEF Within
  <2> QED
    BY <2>2, <2>3, <2>4 DEF A, B
<1> QED
  BY <1>4, <1>5

-----------------------------------------------------------------------------
(* What the search looks at is what stands in the way                      *)

LEMMA NearOne ==
  ASSUME NEW face, NEW p
  PROVE  Near(face, {p}) = getFaceVoisin(face, p)
  BY DEF Near

\* The neighbours of the middle, of a cube on the side of the middle, and of another one.
LEMMA NearPlaces ==
  ASSUME NEW face \in Faces, NEW p \in Places
  PROVE  /\ p = CENTRE => Near(face, {p}) = {(face + 2) % 4}
         /\ p = face => Near(face, {p}) = {CENTRE}
         /\ p # CENTRE /\ p # face => Near(face, {p}) = {}
         /\ Near(face, {}) = {}
<1>1. Near(face, {p}) = getFaceVoisin(face, p)
  BY NearOne
<1>2. Near(face, {}) = {}
  BY DEF Near
<1>3. CASE p = CENTRE
  <2>1. getFaceVoisin(face, p) = {(face + 2) % 4}
    BY <1>3 DEF getFaceVoisin, CENTRE, Faces
  <2> QED
    BY <1>1, <1>2, <1>3, <2>1 DEF Faces, CENTRE
<1>4. CASE p = face
  <2>1. p # CENTRE /\ getFaceVoisin(face, p) = {CENTRE}
    BY <1>4 DEF getFaceVoisin, Faces, CENTRE
  <2> QED
    BY <1>1, <1>2, <1>4, <2>1
<1>5. CASE p # CENTRE /\ p # face
  <2>1. getFaceVoisin(face, p) = {}
    BY <1>5 DEF getFaceVoisin
  <2> QED
    BY <1>1, <1>2, <1>5, <2>1
<1> QED
  BY <1>3, <1>4, <1>5

\* The places in the way of the arm, by their coordinates.
Taken(p, face) ==
  LET d == Direction(face)
      at == Position(p)
      ahead == <<at[1] + d[1], at[2] + d[2]>>
  IN  {ahead, <<ahead[1] + d[1], ahead[2] + d[2]>>,
       <<ahead[1] + d[2], ahead[2] - d[1]>>, <<ahead[1] - d[2], ahead[2] + d[1]>>}

\* They are all looked at, or the cube is taken for one that stands in its own way.
LEMMA TakenChecked ==
  ASSUME NEW p \in Places, NEW face \in Faces, NEW q \in Places, Position(q) \in Taken(p, face)
  PROVE  q \in CheckedPlaces(p, face) \/ p \in CheckedPlaces(p, face)
<1> DEFINE left == getOrthogonal(face, TRUE)
           right == getOrthogonal(face, FALSE)
<1>0. left \in Faces /\ right \in Faces /\ CENTRE \in Places /\ Faces \subseteq Places
  BY DEF getOrthogonal, Faces, Places, CENTRE
<1>1. CASE p = CENTRE
  <2>1. Near(face, {p}) = {(face + 2) % 4}
    BY <1>1, NearPlaces
  <2>2. (face + 2) % 4 \in CheckedPlaces(p, face)
    BY <2>1 DEF CheckedPlaces
  <2>3. q = (face + 2) % 4
    <3>1. CASE face = 0
      BY <1>1, <3>1 DEF Position, Taken, Direction, Places, CENTRE
    <3>2. CASE face = 1
      BY <1>1, <3>2 DEF Position, Taken, Direction, Places, CENTRE
    <3>3. CASE face = 2
      BY <1>1, <3>3 DEF Position, Taken, Direction, Places, CENTRE
    <3>4. CASE face = 3
      BY <1>1, <3>4 DEF Position, Taken, Direction, Places, CENTRE
    <3> QED
      BY <3>1, <3>2, <3>3, <3>4 DEF Faces
  <2> QED
    BY <2>2, <2>3
<1>2. CASE p = face
  <2>1. Near(face, {p}) = {CENTRE}
    BY <1>2, NearPlaces
  <2>2. /\ Near(face, {CENTRE}) = {(face + 2) % 4}
        /\ Near(left, {CENTRE}) = {(left + 2) % 4}
        /\ Near(right, {CENTRE}) = {(right + 2) % 4}
    BY <1>0, NearPlaces
  <2>3. CheckedPlaces(p, face) = {CENTRE, (face + 2) % 4, (left + 2) % 4, (right + 2) % 4}
    BY <2>1, <2>2 DEF CheckedPlaces
  <2>4. {(left + 2) % 4, (right + 2) % 4} = {(face + 1) % 4, (face + 3) % 4}
    BY DEF getOrthogonal, Faces
  <2>5. q \in {CENTRE, (face + 2) % 4, (face + 1) % 4, (face + 3) % 4}
    <3>1. q = CENTRE \/ q \in 0 .. 3
      BY DEF Places, CENTRE
    <3>2. q # p
      BY <1>2 DEF Faces, Position, Taken, Direction
    <3> QED
      BY <1>2, <3>1, <3>2 DEF Faces
  <2> QED
    BY <2>3, <2>4, <2>5
<1>3. CASE p # CENTRE /\ p # face
  <2>0. p \in Faces
    BY <1>3 DEF Places, Faces, CENTRE
  <2>1. Near(face, {p}) = {}
    BY <1>3, NearPlaces
  <2>2. CheckedPlaces(p, face) = Near(right, Near(left, {p})) \cup Near(left, Near(right, {p}))
    BY <2>1 DEF CheckedPlaces
  <2>3. CASE p = left
    <3>1. Near(left, {p}) = {CENTRE}
      BY <1>0, <2>3, NearPlaces
    <3>2. Near(right, {CENTRE}) = {(right + 2) % 4}
      BY <1>0, NearPlaces
    <3>3. (right + 2) % 4 = left
      BY DEF getOrthogonal, Faces
    <3> QED
      BY <2>2, <2>3, <3>1, <3>2, <3>3
  <2>4. CASE p = right
    <3>1. Near(right, {p}) = {CENTRE}
      BY <1>0, <2>4, NearPlaces
    <3>2. Near(left, {CENTRE}) = {(left + 2) % 4}
      BY <1>0, NearPlaces
    <3>3. (left + 2) % 4 = right
      BY DEF getOrthogonal, Faces
    <3> QED
      BY <2>2, <2>4, <3>1, <3>2, <3>3
  <2>5. CASE p # left /\ p # right
    <3>1. p = (face + 2) % 4
      BY <1>3, <2>0, <2>5 DEF getOrthogonal, Faces
    <3>2. CASE face = 0
      BY <3>1, <3>2 DEF Position, Taken, Direction, Places
    <3>3. CASE face = 1
      BY <3>1, <3>3 DEF Position, Taken, Direction, Places
    <3>4. CASE face = 2
      BY <3>1, <3>4 DEF Position, Taken, Direction, Places
    <3>5. CASE face = 3
      BY <3>1, <3>5 DEF Position, Taken, Direction, Places
    <3> QED
      BY <3>2, <3>3, <3>4, <3>5 DEF Faces
  <2> QED
    BY <2>3, <2>4, <2>5
<1> QED
  BY <1>1, <1>2, <1>3

-----------------------------------------------------------------------------
(* What the search may rely on                                             *)

\* A possible face has nothing in the way of the arm.
LEMMA PossibleClear ==
  ASSUME NEW c \in Cube, NEW face \in Faces, NEW table, isFacePossible(c, face, TRUE, table)
  PROVE  InTheWay(c, face) \cap table = {}
<1>1. c \in table /\ Checked(c, face) \cap table = {}
  BY DEF isFacePossible, isFacePossibleEnBourrinant
<1>2. SUFFICES ASSUME NEW o \in InTheWay(c, face), o \in table PROVE FALSE
  OBVIOUS
<1>3. /\ o.croix = c.croix /\ o.place \in Places /\ Position(o.place) \in Taken(c.place, face)
      /\ o = [croix |-> o.croix, place |-> o.place]
  BY <1>2 DEF InTheWay, Taken
<1>4. c.place \in Places /\ c = [croix |-> c.croix, place |-> c.place]
  BY DEF Cube
<1>5. o.place \in CheckedPlaces(c.place, face) \/ c.place \in CheckedPlaces(c.place, face)
  BY <1>3, <1>4, TakenChecked
<1>6. o \in Checked(c, face) \/ c \in Checked(c, face)
  <2>1. Checked(c, face) = Within(c.croix, CheckedPlaces(c.place, face))
    BY CheckedWithin
  <2> QED
    BY <1>3, <1>4, <1>5, <2>1 DEF Within
<1> QED
  BY <1>1, <1>2, <1>6

\* Cubes that leave the table make no other one impossible.
LEMMA PossibleKept ==
  ASSUME NEW table, NEW left \in SUBSET table, NEW bourrine \in BOOLEAN, NEW places,
         NEW c \in left, c \in getAllPossible(places, bourrine, table)
  PROVE  c \in getAllPossible(places, TRUE, left)
<1>1. PICK face \in Faces : isFacePossible(c, face, bourrine, table)
  BY DEF getAllPossible
<1>2. isFacePossible(c, face, TRUE, left)
  BY <1>1 DEF isFacePossible, isFacePossibleEnBourrinant
<1> QED
  BY <1>2 DEF getAllPossible

\* As long as there are cubes, one can be taken: one of the side by its outer face, or the middle
\* when it is alone.
LEMMA SomethingPossible ==
  ASSUME NEW table \in SUBSET Cube, table # {}
  PROVE  getAllPossible(Places, FALSE, table) # {}
<1>1. SUFFICES \E c \in table, face \in Faces :
         /\ Checked(c, face) \cap table = {}
         /\ \A cote \in BOOLEAN : getVoisin(getOrthogonal(face, cote), {c}) \cap table = {}
  BY DEF getAllPossible, isFacePossible, isFacePossibleEnBourrinant, Cube
<1>2. ASSUME NEW c \in Cube, NEW f PROVE getVoisin(f, {c}) = Within(c.croix, Near(f, {c.place}))
  <2>1. {c} = Within(c.croix, {c.place})
    BY CubeWithin
  <2> QED
    BY <2>1, VoisinWithin
<1>3. CASE \E c \in table : c.place # CENTRE
  <2>1. PICK c \in table : c.place # CENTRE
    BY <1>3
  <2> DEFINE face == (c.place + 2) % 4
             left == getOrthogonal(face, TRUE)
             right == getOrthogonal(face, FALSE)
  <2>2. /\ c \in Cube /\ c.place \in Places /\ face \in Faces /\ left \in Faces /\ right \in Faces
        /\ c.place # face /\ c.place # left /\ c.place # right
    <3>1. c \in Cube /\ c.place \in 0 .. 3
      BY <2>1 DEF Cube, Places, CENTRE
    <3> QED
      BY <3>1 DEF Places, Faces, getOrthogonal
  <2>3. \A f \in {face, left, right} : Near(f, {c.place}) = {}
    <3>1. \A f \in Faces : c.place # f => Near(f, {c.place}) = {}
      BY <2>1, <2>2, NearPlaces
    <3> HIDE DEF face, left, right
    <3> QED
      BY <2>2, <3>1
  <2>4. Near(left, {}) = {} /\ Near(right, {}) = {}
    BY DEF Near
  <2>5. CheckedPlaces(c.place, face) = {}
    <3>1. CheckedPlaces(c.place, face) = Near(right, Near(left, {c.place})) \cup Near(left, Near(right, {c.place}))
      BY <2>3 DEF CheckedPlaces
    <3> HIDE DEF face, left, right
    <3> QED
      BY <2>3, <2>4, <3>1
  <2>6. Checked(c, face) = {}
    BY <2>2, <2>5, CheckedWithin DEF Within
  <2>7. getVoisin(left, {c}) = {} /\ getVoisin(right, {c}) = {}
    BY <1>2, <2>2, <2>3 DEF Within
  <2> QED
    BY <1>1, <2>2, <2>6, <2>7
<1>4. CASE \A c \in table : c.place = CENTRE
  <2>1. PICK c \in table : c \in Cube /\ c.place = CENTRE
    BY <1>4
  <2>2. ASSUME NEW o \in Within(c.croix, Faces) PROVE o \notin table
    BY <1>4 DEF Within, Faces, CENTRE
  <2>0. ASSUME NEW p \in Faces PROVE Within(c.croix, {p}) \cap table = {}
    <3>1. Within(c.croix, {p}) \subseteq Within(c.croix, Faces)
      BY DEF Within
    <3> QED
      BY <2>2, <3>1
  <2>3. Near(0, {CENTRE}) = {2} /\ Near(1, {CENTRE}) = {3} /\ Near(3, {CENTRE}) = {1}
    BY NearPlaces DEF Faces, Places, CENTRE
  <2>4. getOrthogonal(0, TRUE) = 1 /\ getOrthogonal(0, FALSE) = 3
    BY DEF getOrthogonal
  <2>5. Near(0, {2}) = {} /\ Near(1, {2}) = {} /\ Near(3, {2}) = {}
    BY NearPlaces DEF Faces, Places, CENTRE
  <2>6. CheckedPlaces(CENTRE, 0) = {2}
    BY <2>3, <2>4, <2>5 DEF CheckedPlaces
  <2>7. Checked(c, 0) \cap table = {}
    <3>1. Checked(c, 0) = Within(c.croix, {2})
      <4>1. 0 \in Faces
        BY DEF Faces
      <4> QED
        BY <2>1, <2>6, <4>1, CheckedWithin
    <3> QED
      BY <2>0, <3>1 DEF Faces
  <2>8. getVoisin(1, {c}) \cap table = {} /\ getVoisin(3, {c}) \cap table = {}
    <3>1. getVoisin(1, {c}) = Within(c.croix, {3}) /\ getVoisin(3, {c}) = Within(c.croix, {1})
      BY <1>2, <2>1, <2>3
    <3> QED
      BY <2>0, <3>1 DEF Faces
  <2>9. ASSUME NEW cote \in BOOLEAN PROVE getVoisin(getOrthogonal(0, cote), {c}) \cap table = {}
    <3>1. CASE cote = TRUE
      BY <2>4, <2>8, <3>1
    <3>2. CASE cote = FALSE
      BY <2>4, <2>8, <3>2
    <3> QED
      BY <3>1, <3>2
  <2>10. 0 \in Faces
    BY DEF Faces
  <2> QED
    BY <1>1, <2>1, <2>7, <2>9, <2>10
<1> QED
  BY <1>3, <1>4

=============================================================================
