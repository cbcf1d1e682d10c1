------------------------- MODULE MatchScriptsProofs -------------------------
(***************************************************************************)
(* Proofs about MatchScripts for any crosses, pattern, configuration and   *)
(* number of attempts: its types, the height of the pile, the measures of  *)
(* the corrections, and the cubes, none of which is forgotten.             *)
(***************************************************************************)
EXTENDS MatchScripts, CubesProofs, FiniteSetTheorems, TLAPS

-----------------------------------------------------------------------------
(* The invariant                                                           *)

\* Where exec() and the script stand: a script is under way exactly while an entry of the plan
\* is, and has a line of its own.
Situated ==
  /\ etat \in {"running", "crashed"} /\ at \in 1 .. 21 /\ queue \subseteq Cube
  /\ usePattern \in BOOLEAN
  /\ script \in {"none", "search", "init", "prise", "depose", "dom", "bee", "recal"}
  /\ line \in Orders \cup {"plan", "travel", "measure", "approach", "back", "backBee", "pose"}
  /\ script \in {"none", "search"} <=> line = "plan"
  /\ line = "travel" => script = "prise"
  /\ script # "none" => at <= 20

\* The cubes: the robot drives to one at a time, the arm takes one only with empty pliers, and gets
\* one out only if there is one.
Carried ==
  /\ table \subseteq Cube /\ goal \subseteq Cube
  /\ IF line = "travel" THEN \E c \in Cube : goal = {c} ELSE goal = {}
  /\ inside \in BOOLEAN /\ top \in BOOLEAN /\ pile \in 0 .. 3
  /\ {pending, reussi, domotiqueDone, abeilleDone} \subseteq BOOLEAN
  /\ line \in {"travel", "take", "store"} => ~top
  /\ line = "unstore" => inside

Retries == tries \in 0 .. NbEssaiMax

\* Attempts are left while a cube is put down or the button pushed; there is room on the pile.
AttemptsLeft ==
  /\ attempts \in Nat
  /\ attempts <= NbEssaiPose \/ attempts <= NbEssaiBouton
  /\ line \in {"pose", "unstore", "put"} => pile < 3 /\ attempts < NbEssaiPose
  /\ line \in {"approach", "push"} => attempts < NbEssaiBouton

Sides ==
  enabled \subseteq {"AVANT", "ARRIERE", "LATERAL"} /\ dirty \subseteq enabled /\ cut \in BOOLEAN

\* A correction is on during the lines between its start and its end, or an exception has left
\* it on.
Corrected ==
  /\ StillMeasures
  /\ enabled # {} /\ ~cut => line \in {"pose", "unstore", "put", "push", "goto", "range"}

Inv == Situated /\ Carried /\ Retries /\ AttemptsLeft /\ Sides /\ Corrected

-----------------------------------------------------------------------------
(* Facts about the constants                                               *)

\* The plan has twenty entries, none of them "end".
LEMMA PlanFacts ==
  /\ Len(Plan) = 20
  /\ Planned # "end" => at \in 1 .. 20
<1>1. Len(Plan) = 20 /\ DOMAIN Plan = 1 .. 20
  BY DEF Plan
<1> QED
  BY <1>1 DEF Planned

\* The numbers of attempts.
LEMMA TriesFacts ==
  /\ NbEssaiMax \in Nat
  /\ NbEssaiPose \in Nat /\ 1 <= NbEssaiPose
  /\ NbEssaiBouton \in Nat /\ 1 <= NbEssaiBouton
  BY TriesAssumption

\* The invariant contains the types.
LEMMA InvTypes == Inv => TypeOK
<1> SUFFICES ASSUME Inv PROVE TypeOK
  OBVIOUS
<1> USE TriesFacts, PlanFacts DEF Inv
<1>1. /\ etat \in {"running", "crashed"} /\ at \in 1 .. Len(Plan) + 1 /\ queue \subseteq Cube
      /\ script \in {"none", "search", "init", "prise", "depose", "dom", "bee", "recal"}
      /\ line \in Orders \cup {"plan", "travel", "measure", "approach", "back", "backBee", "pose"}
      /\ usePattern \in BOOLEAN
  BY DEF Situated
<1>2. tries \in 0 .. NbEssaiMax
  BY DEF Retries
<1>3. attempts \in 0 .. NbEssaiPose \/ attempts \in 0 .. NbEssaiBouton
  BY DEF AttemptsLeft
<1>4. /\ {pending, reussi, inside, top, domotiqueDone, abeilleDone} \subseteq BOOLEAN
      /\ goal \subseteq Cube /\ table \subseteq Cube /\ pile \in 0 .. 3
  BY DEF Carried
<1>5. enabled \subseteq {"AVANT", "ARRIERE", "LATERAL"} /\ dirty \subseteq enabled /\ cut \in BOOLEAN
  BY DEF Sides
<1> QED
  BY <1>1, <1>2, <1>3, <1>4, <1>5 DEF TypeOK

-----------------------------------------------------------------------------
(* The invariant is inductive                                              *)

\* It holds at the beginning.
LEMMA InitInv == Init => Inv
<1> SUFFICES ASSUME Init PROVE Inv
  OBVIOUS
<1> USE TriesFacts DEF Init
<1>1. Situated
  BY DEF Situated, Orders
<1>2. Carried
  <2>1. inside \in BOOLEAN /\ top \in BOOLEAN
    OBVIOUS
  <2>2. /\ table \subseteq Cube /\ goal = {} /\ pile \in 0 .. 3 /\ line = "plan"
        /\ pending = FALSE /\ reussi = FALSE
    OBVIOUS
  <2>3. domotiqueDone \in BOOLEAN /\ abeilleDone \in BOOLEAN
    OBVIOUS
  <2> QED
    BY <2>1, <2>2, <2>3 DEF Carried
<1>3. Retries
  BY DEF Retries
<1>4. AttemptsLeft
  BY DEF AttemptsLeft
<1>5. Sides
  BY DEF Sides
<1>6. Corrected
  BY DEF Corrected, StillMeasures
<1> QED
  BY <1>1, <1>2, <1>3, <1>4, <1>5, <1>6 DEF Inv

\* An answer r of the arm preserves it.
LEMMA AnsweredInv ==
  ASSUME Inv, NEW r, Answer(r)
  PROVE  Inv'
<1> USE TriesFacts, PlanFacts
<1> USE DEF Inv, Situated, Carried, Retries, AttemptsLeft, Sides, Corrected, StillMeasures, Orders,
            planVars, scriptVars, cubeVars, tableVars, doneVars, correctionVars, Begin, NextPlan, End,
            Goto, Move
<1>1. CASE Take(r)
  <2>1. Situated'
    BY <1>1 DEF Take, Throw, Leave
  <2>2. Carried'
    BY <1>1 DEF Take, Throw, Leave
  <2>3. Retries'
    BY <1>1 DEF Take, Throw, Leave
  <2>4. AttemptsLeft'
    BY <1>1 DEF Take, Throw, Leave
  <2>5. Sides'
    BY <1>1 DEF Take, Throw, Leave
  <2>6. Corrected'
    BY <1>1 DEF Take, Throw, Leave
  <2> QED
    BY <2>1, <2>2, <2>3, <2>4, <2>5, <2>6
<1>2. CASE storeCube(r)
  <2>1. Situated'
    BY <1>2 DEF storeCube, Throw, Leave
  <2>2. Carried'
    BY <1>2 DEF storeCube, Throw, Leave
  <2>3. Retries'
    BY <1>2 DEF storeCube, Throw, Leave
  <2>4. AttemptsLeft'
    BY <1>2 DEF storeCube, Throw, Leave
  <2>5. Sides'
    BY <1>2 DEF storeCube, Throw, Leave
  <2>6. Corrected'
    BY <1>2 DEF storeCube, Throw, Leave
  <2> QED
    BY <2>1, <2>2, <2>3, <2>4, <2>5, <2>6
<1>3. CASE Unstore(r)
  <2>1. Situated'
    BY <1>3 DEF Unstore, PoseFailed
  <2>2. Carried'
    BY <1>3 DEF Unstore, PoseFailed
  <2>3. Retries'
    <3>1. CASE r = "OK"
      BY <1>3, <3>1 DEF Unstore
    <3>2. CASE r # "OK"
      BY <1>3, <3>2 DEF Unstore, PoseFailed
    <3> QED
      BY <3>1, <3>2
  <2>4. AttemptsLeft'
    <3>1. CASE r = "OK"
      BY <1>3, <3>1 DEF Unstore
    <3>2. CASE r # "OK"
      BY <1>3, <3>2 DEF Unstore, PoseFailed
    <3> QED
      BY <3>1, <3>2
  <2>5. Sides'
    BY <1>3 DEF Unstore, PoseFailed
  <2>6. Corrected'
    BY <1>3 DEF Unstore, PoseFailed
  <2> QED
    BY <2>1, <2>2, <2>3, <2>4, <2>5, <2>6
<1>4. CASE Put(r)
  <2>1. Situated'
    BY <1>4 DEF Put, PoseFailed
  <2>2. Carried'
    BY <1>4 DEF Put, PoseFailed
  <2>3. Retries'
    BY <1>4 DEF Put, PoseFailed
  <2>4. AttemptsLeft'
    BY <1>4 DEF Put, PoseFailed
  <2>5. Sides'
    BY <1>4 DEF Put, PoseFailed
  <2>6. Corrected'
    BY <1>4 DEF Put, PoseFailed
  <2> QED
    BY <2>1, <2>2, <2>3, <2>4, <2>5, <2>6
<1>5. CASE Push(r)
  <2>1. Situated'
    BY <1>5 DEF Push
  <2>2. Carried'
    BY <1>5 DEF Push
  <2>3. Retries'
    BY <1>5 DEF Push
  <2>4. AttemptsLeft'
    BY <1>5 DEF Push
  <2>5. Sides'
    BY <1>5 DEF Push
  <2>6. Corrected'
    BY <1>5 DEF Push
  <2> QED
    BY <2>1, <2>2, <2>3, <2>4, <2>5, <2>6
<1>6. CASE PushBee(r)
  <2>1. Situated'
    BY <1>6 DEF PushBee
  <2>2. Carried'
    BY <1>6 DEF PushBee
  <2>3. Retries'
    BY <1>6 DEF PushBee
  <2>4. AttemptsLeft'
    BY <1>6 DEF PushBee
  <2>5. Sides'
    BY <1>6 DEF PushBee
  <2>6. Corrected'
    BY <1>6 DEF PushBee
  <2> QED
    BY <2>1, <2>2, <2>3, <2>4, <2>5, <2>6
<1>7. CASE GoToAfterBee(r)
  <2>1. Situated'
    BY <1>7 DEF GoToAfterBee, Throw, Leave
  <2>2. Carried'
    BY <1>7 DEF GoToAfterBee, Throw, Leave
  <2>3. Retries'
    BY <1>7 DEF GoToAfterBee, Throw, Leave
  <2>4. AttemptsLeft'
    BY <1>7 DEF GoToAfterBee, Throw, Leave
  <2>5. Sides'
    BY <1>7 DEF GoToAfterBee, Throw, Leave
  <2>6. Corrected'
    BY <1>7 DEF GoToAfterBee, Throw, Leave
  <2> QED
    BY <2>1, <2>2, <2>3, <2>4, <2>5, <2>6
<1>8. CASE rangeBras(r)
  <2>1. Situated'
    BY <1>8 DEF rangeBras, endStaticCorrection, Leave
  <2>2. Carried'
    BY <1>8 DEF rangeBras, endStaticCorrection, Leave
  <2>3. Retries'
    BY <1>8 DEF rangeBras, endStaticCorrection, Leave
  <2>4. AttemptsLeft'
    BY <1>8 DEF rangeBras, endStaticCorrection, Leave
  <2>5. Sides'
    BY <1>8 DEF rangeBras, endStaticCorrection, Leave
  <2>6. Corrected'
    BY <1>8 DEF rangeBras, endStaticCorrection, Leave
  <2> QED
    BY <2>1, <2>2, <2>3, <2>4, <2>5, <2>6
<1>9. CASE RangeIgnored(r)
  <2>1. Situated'
    BY <1>9 DEF RangeIgnored, EndFailed
  <2>2. Carried'
    BY <1>9 DEF RangeIgnored, EndFailed
  <2>3. Retries'
    BY <1>9 DEF RangeIgnored, EndFailed
  <2>4. AttemptsLeft'
    BY <1>9 DEF RangeIgnored, EndFailed
  <2>5. Sides'
    BY <1>9 DEF RangeIgnored, EndFailed
  <2>6. Corrected'
    BY <1>9 DEF RangeIgnored, EndFailed
  <2> QED
    BY <2>1, <2>2, <2>3, <2>4, <2>5, <2>6
<1> QED
  BY <1>1, <1>2, <1>3, <1>4, <1>5, <1>6, <1>7, <1>8, <1>9 DEF Answer

\* So does every other step.
LEMMA NextInv == Inv /\ [Next]_vars => Inv'
<1> SUFFICES ASSUME Inv, [Next]_vars PROVE Inv'
  OBVIOUS
<1> USE TriesFacts, PlanFacts
<1> USE DEF Inv, Situated, Carried, Retries, AttemptsLeft, Sides, Corrected, StillMeasures, Orders,
            planVars, scriptVars, cubeVars, tableVars, doneVars, correctionVars, Begin, NextPlan, End,
            Goto, Move
<1>1. CASE InitialCorrection
  <2>1. Situated'
    BY <1>1 DEF InitialCorrection, Planning
  <2>2. Carried'
    BY <1>1 DEF InitialCorrection, Planning
  <2>3. Retries'
    BY <1>1 DEF InitialCorrection, Planning
  <2>4. AttemptsLeft'
    BY <1>1 DEF InitialCorrection, Planning
  <2>5. Sides'
    BY <1>1 DEF InitialCorrection, Planning
  <2>6. Corrected'
    BY <1>1 DEF InitialCorrection, Planning
  <2> QED
    BY <2>1, <2>2, <2>3, <2>4, <2>5, <2>6
<1>2. CASE InitialRange
  <2>1. Situated'
    BY <1>2 DEF InitialRange, Planning
  <2>2. Carried'
    BY <1>2 DEF InitialRange, Planning
  <2>3. Retries'
    BY <1>2 DEF InitialRange, Planning
  <2>4. AttemptsLeft'
    BY <1>2 DEF InitialRange, Planning
  <2>5. Sides'
    BY <1>2 DEF InitialRange, Planning
  <2>6. Corrected'
    BY <1>2 DEF InitialRange, Planning
  <2> QED
    BY <2>1, <2>2, <2>3, <2>4, <2>5, <2>6
<1>3. CASE NoGolden
  <2>1. Situated'
    BY <1>3 DEF NoGolden, Planning
  <2>2. Carried'
    BY <1>3 DEF NoGolden, Planning
  <2>3. Retries'
    BY <1>3 DEF NoGolden, Planning
  <2>4. AttemptsLeft'
    BY <1>3 DEF NoGolden, Planning
  <2>5. Sides'
    BY <1>3 DEF NoGolden, Planning
  <2>6. Corrected'
    BY <1>3 DEF NoGolden, Planning
  <2> QED
    BY <2>1, <2>2, <2>3, <2>4, <2>5, <2>6
<1>4. CASE IndexError
  <2>1. Situated'
    BY <1>4 DEF IndexError, Planning
  <2>2. Carried'
    BY <1>4 DEF IndexError, Planning
  <2>3. Retries'
    BY <1>4 DEF IndexError, Planning
  <2>4. AttemptsLeft'
    BY <1>4 DEF IndexError, Planning
  <2>5. Sides'
    BY <1>4 DEF IndexError, Planning
  <2>6. Corrected'
    BY <1>4 DEF IndexError, Planning
  <2> QED
    BY <2>1, <2>2, <2>3, <2>4, <2>5, <2>6
<1>5. CASE doScript
  <2>1. Situated'
    BY <1>5 DEF doScript, Planning, Wanted, faisable, First, isPileFull
  <2>2. Carried'
    BY <1>5 DEF doScript, Planning, Wanted, faisable, First, isPileFull
  <2>3. Retries'
    BY <1>5 DEF doScript, Planning, Wanted, faisable, First, isPileFull
  <2>4. AttemptsLeft'
    BY <1>5 DEF doScript, Planning, Wanted, faisable, First, isPileFull
  <2>5. Sides'
    BY <1>5 DEF doScript, Planning, Wanted, faisable, First, isPileFull
  <2>6. Corrected'
    BY <1>5 DEF doScript, Planning, Wanted, faisable, First, isPileFull
  <2> QED
    BY <2>1, <2>2, <2>3, <2>4, <2>5, <2>6
<1>6. CASE NotDone
  <2>1. Situated'
    BY <1>6 DEF NotDone, Planning, Wanted
  <2>2. Carried'
    BY <1>6 DEF NotDone, Planning, Wanted
  <2>3. Retries'
    BY <1>6 DEF NotDone, Planning, Wanted
  <2>4. AttemptsLeft'
    BY <1>6 DEF NotDone, Planning, Wanted
  <2>5. Sides'
    BY <1>6 DEF NotDone, Planning, Wanted
  <2>6. Corrected'
    BY <1>6 DEF NotDone, Planning, Wanted
  <2> QED
    BY <2>1, <2>2, <2>3, <2>4, <2>5, <2>6
<1>7. CASE Search
  <2>1. Situated'
    <3>1. queue' \subseteq Cube /\ usePattern' \in BOOLEAN
      BY <1>7 DEF Search, getFirstPatternColor, getSecondPatternColor, SearchOr, getAllPossible
    <3>2. /\ UNCHANGED <<etat, at>> /\ script' = "search" /\ line' = "plan"
          /\ at \in 1 .. 20 /\ etat \in {"running", "crashed"}
      BY <1>7 DEF Search, Planning
    <3> QED
      BY <3>1, <3>2
  <2>2. Carried'
    BY <1>7 DEF Search, Planning
  <2>3. Retries'
    BY <1>7 DEF Search, Planning
  <2>4. AttemptsLeft'
    BY <1>7 DEF Search, Planning
  <2>5. Sides'
    BY <1>7 DEF Search, Planning
  <2>6. Corrected'
    BY <1>7 DEF Search, Planning
  <2> QED
    BY <2>1, <2>2, <2>3, <2>4, <2>5, <2>6
<1>8. CASE TakeCube
  <2>1. Situated'
    BY <1>8 DEF TakeCube, Travelling
  <2>2. Carried'
    BY <1>8 DEF TakeCube, Travelling
  <2>3. Retries'
    BY <1>8 DEF TakeCube, Travelling
  <2>4. AttemptsLeft'
    BY <1>8 DEF TakeCube, Travelling
  <2>5. Sides'
    BY <1>8 DEF TakeCube, Travelling
  <2>6. Corrected'
    BY <1>8 DEF TakeCube, Travelling
  <2> QED
    BY <2>1, <2>2, <2>3, <2>4, <2>5, <2>6
<1>9. CASE NoMoreCubes
  <2>1. Situated'
    BY <1>9 DEF NoMoreCubes, Searching
  <2>2. Carried'
    BY <1>9 DEF NoMoreCubes, Searching
  <2>3. Retries'
    BY <1>9 DEF NoMoreCubes, Searching
  <2>4. AttemptsLeft'
    BY <1>9 DEF NoMoreCubes, Searching
  <2>5. Sides'
    BY <1>9 DEF NoMoreCubes, Searching
  <2>6. Corrected'
    BY <1>9 DEF NoMoreCubes, Searching
  <2> QED
    BY <2>1, <2>2, <2>3, <2>4, <2>5, <2>6
<1>10. CASE Again
  <2>1. Situated'
    BY <1>10 DEF Again, Planning, LoopStart
  <2>2. Carried'
    BY <1>10 DEF Again, Planning, LoopStart
  <2>3. Retries'
    BY <1>10 DEF Again, Planning, LoopStart
  <2>4. AttemptsLeft'
    BY <1>10 DEF Again, Planning, LoopStart
  <2>5. Sides'
    BY <1>10 DEF Again, Planning, LoopStart
  <2>6. Corrected'
    BY <1>10 DEF Again, Planning, LoopStart
  <2> QED
    BY <2>1, <2>2, <2>3, <2>4, <2>5, <2>6
<1>11. CASE Recalage
  <2>1. Situated'
    BY <1>11 DEF Recalage, Measured, endStaticCorrection
  <2>2. Carried'
    BY <1>11 DEF Recalage, Measured, endStaticCorrection
  <2>3. Retries'
    BY <1>11 DEF Recalage, Measured, endStaticCorrection
  <2>4. AttemptsLeft'
    BY <1>11 DEF Recalage, Measured, endStaticCorrection
  <2>5. Sides'
    BY <1>11 DEF Recalage, Measured, endStaticCorrection
  <2>6. Corrected'
    BY <1>11 DEF Recalage, Measured, endStaticCorrection
  <2> QED
    BY <2>1, <2>2, <2>3, <2>4, <2>5, <2>6
<1>12. CASE ApproachBee
  <2>1. Situated'
    BY <1>12 DEF ApproachBee, Measured, endStaticCorrection
  <2>2. Carried'
    BY <1>12 DEF ApproachBee, Measured, endStaticCorrection
  <2>3. Retries'
    BY <1>12 DEF ApproachBee, Measured, endStaticCorrection
  <2>4. AttemptsLeft'
    BY <1>12 DEF ApproachBee, Measured, endStaticCorrection
  <2>5. Sides'
    BY <1>12 DEF ApproachBee, Measured, endStaticCorrection
  <2>6. Corrected'
    BY <1>12 DEF ApproachBee, Measured, endStaticCorrection
  <2> QED
    BY <2>1, <2>2, <2>3, <2>4, <2>5, <2>6
<1>13. CASE BackFromBee
  <2>1. Situated'
    BY <1>13 DEF BackFromBee, startStaticCorrection
  <2>2. Carried'
    BY <1>13 DEF BackFromBee, startStaticCorrection
  <2>3. Retries'
    BY <1>13 DEF BackFromBee, startStaticCorrection
  <2>4. AttemptsLeft'
    BY <1>13 DEF BackFromBee, startStaticCorrection
  <2>5. Sides'
    BY <1>13 DEF BackFromBee, startStaticCorrection
  <2>6. Corrected'
    BY <1>13 DEF BackFromBee, startStaticCorrection
  <2> QED
    BY <2>1, <2>2, <2>3, <2>4, <2>5, <2>6
<1>14. CASE ApproachPanel
  <2>1. Situated'
    BY <1>14 DEF ApproachPanel, startStaticCorrection, Leave
  <2>2. Carried'
    BY <1>14 DEF ApproachPanel, startStaticCorrection, Leave
  <2>3. Retries'
    BY <1>14 DEF ApproachPanel, startStaticCorrection, Leave
  <2>4. AttemptsLeft'
    BY <1>14 DEF ApproachPanel, startStaticCorrection, Leave
  <2>5. Sides'
    BY <1>14 DEF ApproachPanel, startStaticCorrection, Leave
  <2>6. Corrected'
    BY <1>14 DEF ApproachPanel, startStaticCorrection, Leave
  <2> QED
    BY <2>1, <2>2, <2>3, <2>4, <2>5, <2>6
<1>15. CASE BackFromPanel
  <2>1. Situated'
    BY <1>15 DEF BackFromPanel
  <2>2. Carried'
    BY <1>15 DEF BackFromPanel
  <2>3. Retries'
    BY <1>15 DEF BackFromPanel
  <2>4. AttemptsLeft'
    BY <1>15 DEF BackFromPanel
  <2>5. Sides'
    BY <1>15 DEF BackFromPanel
  <2>6. Corrected'
    BY <1>15 DEF BackFromPanel
  <2> QED
    BY <2>1, <2>2, <2>3, <2>4, <2>5, <2>6
<1>16. CASE poseCubes
  <2>1. Situated'
    BY <1>16 DEF poseCubes
  <2>2. Carried'
    BY <1>16 DEF poseCubes
  <2>3. Retries'
    BY <1>16 DEF poseCubes
  <2>4. AttemptsLeft'
    BY <1>16 DEF poseCubes
  <2>5. Sides'
    BY <1>16 DEF poseCubes
  <2>6. Corrected'
    BY <1>16 DEF poseCubes
  <2> QED
    BY <2>1, <2>2, <2>3, <2>4, <2>5, <2>6
<1>17. CASE Retry
  <2>1. Situated'
    BY <1>17 DEF Retry
  <2>2. Carried'
    BY <1>17 DEF Retry
  <2>3. Retries'
    BY <1>17 DEF Retry
  <2>4. AttemptsLeft'
    BY <1>17 DEF Retry
  <2>5. Sides'
    BY <1>17 DEF Retry
  <2>6. Corrected'
    BY <1>17 DEF Retry
  <2> QED
    BY <2>1, <2>2, <2>3, <2>4, <2>5, <2>6
<1>18. CASE Answered
  BY <1>18, AnsweredInv DEF Answered
<1>19. CASE SetOut
  <2>1. Situated'
    BY <1>19 DEF SetOut, Searching, canTake
  <2>2. Carried'
    BY <1>19 DEF SetOut, Searching, canTake
  <2>3. Retries'
    BY <1>19 DEF SetOut, Searching, canTake
  <2>4. AttemptsLeft'
    BY <1>19 DEF SetOut, Searching, canTake
  <2>5. Sides'
    BY <1>19 DEF SetOut, Searching, canTake
  <2>6. Corrected'
    BY <1>19 DEF SetOut, Searching, canTake
  <2> QED
    BY <2>1, <2>2, <2>3, <2>4, <2>5, <2>6
<1>20. CASE SkipCube
  <2>1. Situated'
    BY <1>20 DEF SkipCube, Searching
  <2>2. Carried'
    BY <1>20 DEF SkipCube, Searching
  <2>3. Retries'
    BY <1>20 DEF SkipCube, Searching
  <2>4. AttemptsLeft'
    BY <1>20 DEF SkipCube, Searching
  <2>5. Sides'
    BY <1>20 DEF SkipCube, Searching
  <2>6. Corrected'
    BY <1>20 DEF SkipCube, Searching
  <2> QED
    BY <2>1, <2>2, <2>3, <2>4, <2>5, <2>6
<1>21. CASE NotReached
  <2>1. Situated'
    BY <1>21 DEF NotReached, Travelling, EndFailed
  <2>2. Carried'
    BY <1>21 DEF NotReached, Travelling, EndFailed
  <2>3. Retries'
    BY <1>21 DEF NotReached, Travelling, EndFailed
  <2>4. AttemptsLeft'
    BY <1>21 DEF NotReached, Travelling, EndFailed
  <2>5. Sides'
    BY <1>21 DEF NotReached, Travelling, EndFailed
  <2>6. Corrected'
    BY <1>21 DEF NotReached, Travelling, EndFailed
  <2> QED
    BY <2>1, <2>2, <2>3, <2>4, <2>5, <2>6
<1>22. CASE updateObstaclesMobiles
  <2>1. Situated'
    BY <1>22 DEF updateObstaclesMobiles
  <2>2. Carried'
    BY <1>22 DEF updateObstaclesMobiles
  <2>3. Retries'
    BY <1>22 DEF updateObstaclesMobiles
  <2>4. AttemptsLeft'
    BY <1>22 DEF updateObstaclesMobiles
  <2>5. Sides'
    BY <1>22 DEF updateObstaclesMobiles
  <2>6. Corrected'
    BY <1>22 DEF updateObstaclesMobiles
  <2> QED
    BY <2>1, <2>2, <2>3, <2>4, <2>5, <2>6
<1>23. CASE UNCHANGED vars
  BY <1>23 DEF vars
<1> QED
  BY <1>1, <1>2, <1>3, <1>4, <1>5, <1>6, <1>7, <1>8, <1>9, <1>10, <1>11, <1>12, <1>13, <1>14, <1>15,
     <1>16, <1>17, <1>18, <1>19, <1>20, <1>21, <1>22, <1>23 DEF Next, Main

-----------------------------------------------------------------------------
(* The cubes                                                               *)

\* There are finitely many cubes, so that they can be counted.
LEMMA CubesFinite ==
  ASSUME NEW cubes \in SUBSET Cube
  PROVE  IsFiniteSet(cubes) /\ Cardinality(cubes) \in Nat
<1>1. IsFiniteSet(Places)
  <2>1. 0 \in Int /\ 4 \in Int
    OBVIOUS
  <2>2. IsFiniteSet(0 .. 4)
    BY <2>1, FS_Interval, Zenon
  <2> QED
    BY <2>2 DEF Places
<1>2. IsFiniteSet(Croix \X Places)
  BY <1>1, CroixAssumption, FS_Product
<1> DEFINE f == [c \in Cube |-> <<c.croix, c.place>>]
<1>3. f \in Injection(Cube, Croix \X Places)
  <2>1. f \in [Cube -> Croix \X Places]
    BY DEF Cube
  <2>2. \A c, d \in Cube : f[c] = f[d] => c = d
    BY DEF Cube
  <2> QED
    BY <2>1, <2>2 DEF Injection, IsInjective
<1>4. IsFiniteSet(Cube)
  <2> HIDE DEF f
  <2> QED
    BY <1>2, <1>3, FS_Injection
<1>5. IsFiniteSet(cubes)
  BY <1>4, FS_Subset
<1> QED
  BY <1>5, FS_CardinalityType

\* Fewer cubes are not more.
LEMMA FewerCubes ==
  ASSUME NEW cubes \in SUBSET Cube, NEW fewer \in SUBSET cubes
  PROVE  /\ Cardinality(cubes) \in Nat /\ Cardinality(fewer) \in Nat
         /\ Cardinality(fewer) <= Cardinality(cubes)
<1>1. IsFiniteSet(cubes) /\ Cardinality(cubes) \in Nat /\ Cardinality(fewer) \in Nat
  BY CubesFinite
<1>2. Cardinality(fewer) <= Cardinality(cubes)
  BY <1>1, FS_Subset
<1> QED
  BY <1>1, <1>2

\* A cube is only given up when an answer r is an error, and an answer does not touch the table.
LEMMA AnsweredCubes ==
  ASSUME Inv, NEW r, Answer(r)
  PROVE  UNCHANGED tableVars /\ Held' <= Held /\ (Held' < Held => r # "OK")
<1>0. pile \in 0 .. 3 /\ inside \in BOOLEAN /\ top \in BOOLEAN
  BY DEF Inv, Carried
<1>1. UNCHANGED tableVars
  BY DEF Answer, Take, storeCube, Unstore, Put, Push, PushBee, GoToAfterBee, rangeBras, RangeIgnored,
         cubeVars
<1> USE <1>0, <1>1 DEF Held, Count
<1>2. CASE Take(r)
  <2>1. line = "take" /\ line' \in {"store", "rescue"} /\ (r = "OK" => line' = "store")
    BY <1>2 DEF Take, Throw, Goto
  <2>2. UNCHANGED <<inside, top, pile>>
    BY <1>2 DEF Take, cubeVars
  <2> QED
    BY <2>1, <2>2
<1>3. CASE storeCube(r)
  <2>1. line = "store" /\ ~top /\ pile' = pile
    BY <1>3 DEF storeCube, Inv, Carried
  <2>2. CASE r = "OK" /\ inside
    BY <1>3, <2>1, <2>2 DEF storeCube, End, Begin
  <2>3. CASE r = "OK" /\ ~inside
    BY <1>3, <2>1, <2>3 DEF storeCube, End, Begin
  <2>4. CASE r # "OK"
    <3>1. UNCHANGED <<inside, top>> /\ line' = "rescue"
      BY <1>3, <2>4 DEF storeCube, Throw, Goto
    <3> QED
      BY <2>1, <2>4, <3>1
  <2> QED
    BY <1>0, <2>2, <2>3, <2>4
<1>4. CASE Unstore(r)
  <2>1. line = "unstore" /\ inside /\ pile' = pile /\ top' = top
    BY <1>4 DEF Unstore, Inv, Carried
  <2>2. CASE r = "OK"
    BY <1>4, <2>1, <2>2 DEF Unstore, Goto
  <2>3. CASE r # "OK"
    BY <1>4, <2>1, <2>3 DEF Unstore, PoseFailed
  <2> QED
    BY <2>2, <2>3
<1>5. CASE Put(r)
  <2>1. line = "put" /\ inside' = inside /\ top' = top
    BY <1>5 DEF Put
  <2>2. CASE r = "OK"
    BY <1>5, <2>1, <2>2 DEF Put, Goto
  <2>3. CASE r # "OK"
    <3>1. pile' \in Nat /\ pile' <= pile /\ line' \in {"range", "pose"}
      BY <1>5, <2>3 DEF Put, Goto, PoseFailed
    <3>2. Held = Count(inside) + Count(top) + pile + 1 /\ Held' = Count(inside) + Count(top) + pile'
      BY <2>1, <3>1
    <3>3. Count(inside) \in Nat /\ Count(top) \in Nat /\ pile \in Nat
      OBVIOUS
    <3> HIDE DEF Held, Count
    <3> QED
      BY <2>3, <3>1, <3>2, <3>3
  <2> QED
    BY <2>2, <2>3
<1>6. CASE Push(r) \/ PushBee(r) \/ GoToAfterBee(r) \/ rangeBras(r) \/ RangeIgnored(r)
  <2>1. inside' = inside /\ top' = top /\ pile' = pile
    BY <1>6 DEF Push, PushBee, GoToAfterBee, rangeBras, RangeIgnored, cubeVars
  <2>2. line \notin {"take", "store", "put"} /\ line' \notin {"take", "store", "put"}
    BY <1>6 DEF Push, PushBee, GoToAfterBee, rangeBras, RangeIgnored, Throw, Goto, End, EndFailed,
                Begin
  <2> QED
    BY <2>1, <2>2
<1> QED
  BY <1>2, <1>3, <1>4, <1>5, <1>6 DEF Answer

\* The other steps of the main thread give up none, and no step makes the count rise.
LEMMA NextCubes ==
  ASSUME Inv, [Next]_vars
  PROVE  Known' <= Known /\ (Held' < Held => Refused)
<1>0. pile \in 0 .. 3 /\ inside \in BOOLEAN /\ top \in BOOLEAN /\ table \cup goal \in SUBSET Cube
  BY DEF Inv, Carried
<1>a. Held \in Nat /\ Cardinality(table \cup goal) \in Nat
  BY <1>0, FewerCubes DEF Held, Count
<1>b. ASSUME table' \cup goal' \subseteq table \cup goal, Held' \in Nat, Held' <= Held,
             Held' < Held => Refused
      PROVE  Known' <= Known /\ (Held' < Held => Refused)
  <2>1. /\ Cardinality(table' \cup goal') \in Nat
        /\ Cardinality(table' \cup goal') <= Cardinality(table \cup goal)
    BY <1>0, <1>b, FewerCubes
  <2> QED
    BY <1>a, <1>b, <2>1 DEF Known
<1>1. CASE Answered
  <2>1. UNCHANGED tableVars /\ Held' <= Held /\ (Held' < Held => Refused)
    <3>1. PICK r \in Results : Answer(r)
      BY <1>1 DEF Answered
    <3>2. UNCHANGED tableVars /\ Held' <= Held /\ (Held' < Held => r # "OK")
      BY <3>1, AnsweredCubes
    <3> QED
      BY <3>1, <3>2 DEF Refused
  <2>2. Held' \in Nat
    <3>1. Inv'
      BY NextInv
    <3>2. pile' \in 0 .. 3
      BY <3>1 DEF Inv, Carried
    <3>3. \A b : Count(b) \in Nat
      BY DEF Count
    <3>4. pile' \in Nat
      BY <3>2
    <3> QED
      BY <3>3, <3>4 DEF Held
  <2> QED
    BY <1>b, <2>1, <2>2 DEF tableVars
<1>2. CASE TakeCube
  <2>1. PICK c \in Cube : goal = {c}
    BY <1>2 DEF TakeCube, Travelling, Inv, Carried
  <2>2. table' \cup goal' = (table \cup goal) \ {c} /\ c \in table \cup goal
    BY <1>2, <2>1 DEF TakeCube, Travelling
  <2>3. Cardinality(table' \cup goal') = Cardinality(table \cup goal) - 1
    <3>1. IsFiniteSet(table \cup goal)
      BY <1>0, CubesFinite
    <3> QED
      BY <2>2, <3>1, FS_RemoveElement
  <2>4. Held' = Held + 1
    BY <1>0, <1>2 DEF TakeCube, Travelling, Goto, Held, Count
  <2> QED
    BY <1>a, <2>3, <2>4 DEF Known
<1>3. CASE poseCubes
  <2>1. UNCHANGED <<goal, table, pile, inside>> /\ line = "pose"
    BY <1>3 DEF poseCubes, tableVars
  <2>2. Held' = Held
    <3>1. CASE top
      BY <1>0, <1>3, <2>1, <3>1 DEF poseCubes, Goto, Held, Count
    <3>2. CASE ~top
      BY <1>0, <1>3, <2>1, <3>2 DEF poseCubes, Goto, Held, Count
    <3> QED
      BY <3>1, <3>2
  <2> QED
    BY <1>a, <1>b, <2>1, <2>2
<1>4. ASSUME table' \cup goal' \subseteq table \cup goal, UNCHANGED <<inside, top, pile>>,
             line \notin {"take", "store", "put"}, line' \notin {"take", "store", "put"}
      PROVE  Known' <= Known /\ (Held' < Held => Refused)
  <2>1. Held' = Held
    BY <1>4 DEF Held, Count
  <2> QED
    BY <1>a, <1>b, <1>4, <2>1
<1>5. CASE \/ InitialCorrection \/ InitialRange \/ NoGolden \/ IndexError \/ doScript \/ NotDone
           \/ Search \/ SkipCube \/ NoMoreCubes \/ Again
  <2>1. UNCHANGED cubeVars
    BY <1>5 DEF InitialCorrection, InitialRange, NoGolden, IndexError, doScript, NotDone, Search,
                SkipCube, NoMoreCubes, Again
  <2>2. line = "plan"
    BY <1>5 DEF InitialCorrection, InitialRange, NoGolden, IndexError, doScript, NotDone, Search,
                SkipCube, NoMoreCubes, Again, Planning, Searching, Inv, Situated
  <2>3. line' \notin {"take", "store", "put"}
    BY <1>5, <2>2 DEF InitialCorrection, InitialRange, NoGolden, IndexError, doScript, NotDone,
                Search, SkipCube, NoMoreCubes, Again, End, Begin, First, scriptVars
  <2> QED
    BY <1>4, <2>1, <2>2, <2>3 DEF cubeVars, tableVars
<1>6. CASE SetOut
  <2>1. /\ table' = table /\ goal' \subseteq table /\ UNCHANGED <<inside, top, pile>>
        /\ line = "plan" /\ line' = "travel"
    BY <1>6 DEF SetOut, Searching, canTake, Begin, Inv, Situated
  <2> QED
    BY <1>4, <2>1
<1>7. CASE NotReached
  <2>1. /\ table' = table /\ goal' = {} /\ UNCHANGED <<inside, top, pile>>
        /\ line = "travel" /\ line' = "plan"
    BY <1>7 DEF NotReached, Travelling, EndFailed, End, Begin
  <2> QED
    BY <1>4, <2>1
<1>8. CASE updateObstaclesMobiles
  <2>1. table' \subseteq table /\ goal' = goal /\ UNCHANGED <<inside, top, pile, line>>
    BY <1>8 DEF updateObstaclesMobiles, scriptVars
  <2>2. Held' = Held
    BY <2>1 DEF Held, Count
  <2> QED
    BY <1>a, <1>b, <2>1, <2>2
<1>9. CASE \/ Recalage \/ ApproachBee \/ BackFromBee \/ ApproachPanel \/ BackFromPanel
  <2>1. UNCHANGED cubeVars
    BY <1>9 DEF Recalage, ApproachBee, BackFromBee, ApproachPanel, BackFromPanel
  <2>2. line \notin {"take", "store", "put"}
    BY <1>9 DEF Recalage, ApproachBee, BackFromBee, ApproachPanel, BackFromPanel, Measured
  <2>3. line' \notin {"take", "store", "put"}
    BY <1>9 DEF Recalage, ApproachBee, BackFromBee, ApproachPanel, BackFromPanel, Goto, End, Begin
  <2> QED
    BY <1>4, <2>1, <2>2, <2>3 DEF cubeVars, tableVars
<1>10. CASE Retry \/ UNCHANGED vars
  <2>1. UNCHANGED <<goal, table, inside, top, pile, line>>
    BY <1>10 DEF Retry, vars, cubeVars, tableVars, scriptVars
  <2>2. Held' = Held
    BY <2>1 DEF Held, Count
  <2> QED
    BY <1>a, <1>b, <2>1, <2>2
<1> QED
  BY <1>1, <1>2, <1>3, <1>5, <1>6, <1>7, <1>8, <1>9, <1>10 DEF Next, Main

-----------------------------------------------------------------------------
(* The theorems                                                            *)

\* Every variable stays in its type: the pile never has more than three cubes and exec() stays
\* in its plan, whatever the arm answers (Match.exec, Robot.poseCubes).
THEOREM TypeCorrect == Spec => []TypeOK
  BY InitInv, NextInv, InvTypes, PTL DEF Spec

\* A correction only uses measures taken while the robot stood still, unless an exception has
\* left an earlier one on (CapteursProcess.endStaticCorrection).
THEOREM StillMeasuresHolds == Spec => []StillMeasures
<1>1. Inv => StillMeasures
  BY DEF Inv, Corrected
<1> QED
  BY <1>1, InitInv, NextInv, PTL DEF Spec

\* Through all exceptions and retries, and although the sensor thread strikes off cubes at any
\* time, no cube is invented, and one that is held or piled is only forgotten when the arm has
\* answered an order with an error (Robot.storeCube, poseCubes, ScriptPriseCube.run,
\* CapteursProcess.updateObstaclesMobiles).
THEOREM CubesAccountedHolds == Spec => CubesAccounted
<1>1. Inv /\ [Next]_vars => [Known' <= Known /\ (Held' < Held => Refused)]_vars
  BY NextCubes
<1> QED
  BY <1>1, InitInv, NextInv, PTL DEF Spec, CubesAccounted

-----------------------------------------------------------------------------
(* What stands in the way                                                  *)

\* The cubes of the queue that are still there can be taken; a pattern that is used is known.
QueuePossible ==
  /\ queue \cap table \subseteq getAllPossible(Places, TRUE, table)
  /\ usePattern => Pattern \in Places \X Places \X Places

\* A search only finds cubes that may be taken.
LEMMA FoundPossible ==
  ASSUME NEW places \in SUBSET Places, NEW bourrine \in BOOLEAN
  PROVE  getAllPossible(places, bourrine, table) \cap table \subseteq getAllPossible(Places, TRUE, table)
<1> SUFFICES ASSUME NEW c \in table, c \in getAllPossible(places, bourrine, table)
             PROVE  c \in getAllPossible(Places, TRUE, table)
  OBVIOUS
<1>1. c.place \in Places
  BY DEF getAllPossible
<1>2. PICK face \in Faces : isFacePossible(c, face, bourrine, table)
  BY DEF getAllPossible
<1>3. isFacePossible(c, face, TRUE, table)
  BY <1>2 DEF isFacePossible
<1> QED
  BY <1>1, <1>3 DEF getAllPossible

\* It is found on the table as it is then, and cubes that leave it later are in nobody's way.
LEMMA NextQueuePossible == Inv /\ QueuePossible /\ [Next]_vars => QueuePossible'
<1> SUFFICES ASSUME Inv, QueuePossible, [Next]_vars PROVE QueuePossible'
  OBVIOUS
<1>1. CASE queue' \subseteq queue /\ table' \subseteq table /\ usePattern' = usePattern
  <2>1. ASSUME NEW c \in queue' \cap table' PROVE c \in getAllPossible(Places, TRUE, table')
    BY <1>1, <2>1, PossibleKept DEF QueuePossible
  <2> QED
    BY <1>1, <2>1 DEF QueuePossible
<1>2. CASE Search
  <2>1. table' = table
    BY <1>2 DEF Search, cubeVars, tableVars
  <2> DEFINE possible == getAllPossible(Places, TRUE, table)
  <2>0. usePattern => {Pattern[1], Pattern[3]} \in SUBSET Places /\ {Pattern[2]} \in SUBSET Places
    BY DEF QueuePossible
  <2>2. \A places \in SUBSET Places, bourrine \in BOOLEAN :
           getAllPossible(places, bourrine, table) \cap table \subseteq possible
    BY FoundPossible
  <2>3. queue' \cap table \subseteq possible
    <3>1. CASE queue' = {}
      BY <3>1
    <3>2. CASE queue' = getAllPossible(Places, FALSE, table)
      BY <2>2, <3>2
    <3>3. CASE queue' = getAllPossible({Pattern[1], Pattern[3]}, FALSE, table) /\ usePattern
      BY <2>0, <2>2, <3>3
    <3>4. CASE queue' = getAllPossible({Pattern[2]}, FALSE, table)
                        \cup getAllPossible({Pattern[2]}, TRUE, table) /\ usePattern
      BY <2>0, <2>2, <3>4
    <3> QED
      BY <1>2, <3>1, <3>2, <3>3, <3>4
      DEF Search, getFirstPatternColor, getSecondPatternColor, SearchOr
  <2>4. usePattern' => usePattern
    BY <1>2 DEF Search, getFirstPatternColor, getSecondPatternColor, SearchOr
  <2> QED
    BY <2>1, <2>3, <2>4 DEF QueuePossible
<1>3. CASE ~Search
  <2>1. queue' \subseteq queue /\ table' \subseteq table /\ usePattern' = usePattern
    <3> USE DEF planVars, cubeVars, tableVars, NextPlan, End, Goto
    <3>1. CASE Answered
      BY <3>1 DEF Answered, Answer, Take, storeCube, Unstore, Put, PoseFailed, Push, PushBee, GoToAfterBee,
                  rangeBras, RangeIgnored, EndFailed, Throw
    <3>2. CASE \/ InitialCorrection \/ InitialRange \/ NoGolden \/ IndexError \/ doScript
               \/ NotDone \/ NoMoreCubes \/ Again
      BY <3>2 DEF InitialCorrection, InitialRange, NoGolden, IndexError, doScript, NotDone,
                  NoMoreCubes, Again
    <3>3. CASE \/ Recalage \/ ApproachBee \/ BackFromBee \/ ApproachPanel \/ BackFromPanel
               \/ poseCubes \/ Retry
      BY <3>3 DEF Recalage, ApproachBee, BackFromBee, ApproachPanel, BackFromPanel, poseCubes, Retry
    <3>4. CASE SetOut \/ SkipCube \/ TakeCube \/ NotReached
      BY <3>4 DEF SetOut, SkipCube, TakeCube, NotReached, EndFailed
    <3>5. CASE updateObstaclesMobiles \/ UNCHANGED vars
      BY <3>5 DEF updateObstaclesMobiles, vars
    <3> QED
      BY <1>3, <3>1, <3>2, <3>3, <3>4, <3>5 DEF Next, Main
  <2> QED
    BY <1>1, <2>1
<1> QED
  BY <1>2, <1>3

\* A face the search calls possible has nothing in the way of the arm, a cube of an old queue
\* can still be taken, and while there are cubes a search without a pattern finds one, for any
\* crosses and whatever was taken before (ScriptManager.isFacePossible, getAllPossible).
THEOREM NothingInTheWayHolds == Spec => []NothingInTheWay
<1>1. Init => QueuePossible
  <2>1. ASSUME Init PROVE queue = {} /\ (usePattern => Pattern \in Places \X Places \X Places)
    BY <2>1, PatternAssumption DEF Init
  <2> QED
    BY <2>1 DEF QueuePossible
<1>2. SafeSearch
  <2> SUFFICES ASSUME NEW t \in SUBSET Cube
               PROVE  /\ \A c \in t, face \in Faces :
                           isFacePossible(c, face, TRUE, t) => InTheWay(c, face) \cap t = {}
                      /\ t # {} => \E c \in t, face \in Faces : isFacePossible(c, face, FALSE, t)
    BY DEF SafeSearch
  <2>1. ASSUME NEW c \in t, NEW face \in Faces, isFacePossible(c, face, TRUE, t)
        PROVE  InTheWay(c, face) \cap t = {}
    BY <2>1, PossibleClear
  <2>2. t # {} => \E c \in t, face \in Faces : isFacePossible(c, face, FALSE, t)
    BY SomethingPossible DEF getAllPossible
  <2> QED
    BY <2>1, <2>2
<1>3. QueuePossible => NothingInTheWay
  BY <1>2 DEF QueuePossible, getAllPossible, NothingInTheWay
<1> QED
  BY <1>1, <1>3, InitInv, NextInv, NextQueuePossible, PTL DEF Spec

=============================================================================
