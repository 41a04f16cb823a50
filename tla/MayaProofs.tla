----------------------------- MODULE MayaProofs -----------------------------
(***************************************************************************)
(* Proofs about the two scripts of the plug-in.  A device is live only     *)
(* with a whole neutral face, and subtracts none that is half stored, for  *)
(* any number of landmarks and records, and whatever calibrations a        *)
(* division by zero has ended; a calibration always comes nearer its end.  *)
(* And in a finished rig each landmark moves one node, for any number of   *)
(* faces.                                                                  *)
(***************************************************************************)
EXTENDS MCMaya, SequenceTheorems, TLAPS

(* Calibration.                                                            *)

Types == TypeOK /\ (filling => pushed < LastFrame)

(* A record is there, or on its way, only of a device that has been live;  *)
(* and live has been unlocked only by a calibration that came to its end.  *)
Unlocked ==
  /\ live \/ filling \/ queue # << >> => ~locked
  /\ ~locked => \A p \in Point : neutralFace[p].round > 0

(* Records come out of the queue in the order they were pushed.            *)
Records ==
  /\ output.frame <= pushed
  /\ \A j \in 1 .. Len(queue) : output.frame < queue[j] /\ queue[j] <= pushed
  /\ \A j, k \in 1 .. Len(queue) : j < k => queue[j] < queue[k]

(* The landmarks the running script has stored.                            *)
StoredNow(p) == pc = "points" /\ p < i

(* They are of this round, and the outputs have since gone on without      *)
(* anchoring; all others are of one earlier round.                         *)
Storing ==
  /\ pc # "idle" => ~anchorLocally /\ round > 0
  /\ pc = "points" /\ amplify = 0 => i = 1
  /\ \A p \in Point : StoredNow(p) =>
       /\ neutralFace[p].round = round
       /\ neutralFace[p].of.frame <= output.frame
       /\ output.anchored => neutralFace[p].of.anchored
  /\ \A p \in Point : ~StoredNow(p) =>
       /\ neutralFace[p].round <= round
       /\ pc # "idle" => neutralFace[p].round < round
       /\ \A q \in Point :
            ~StoredNow(q) => neutralFace[q].round = neutralFace[p].round

CalibrationInv == Types /\ Unlocked /\ Records /\ Storing /\ NeutralInOrder

-----------------------------------------------------------------------------

LEMMA TypesOf ==
  Types =>
    /\ output \in Shown \cup {Zero} /\ output.frame \in Int
    /\ dirty \in SUBSET Point
    /\ queue \in Seq(1 .. LastFrame) /\ pushed \in Nat
    /\ anchorLocally \in BOOLEAN /\ amplifyAmount \in Amount
    /\ neutralFace \in [Point -> [of : Shown \cup {Zero}, by : Nat,
                                  round : Nat]]
    /\ pc \in {"idle", "liveOff", "amplify", "points"}
    /\ i \in Int /\ amplify \in Nat /\ round \in Nat
<1> SUFFICES ASSUME Types PROVE TypesOf!2
  OBVIOUS
<1>1. output \in Shown \cup {Zero} /\ queue \in Seq(1 .. LastFrame)
  BY DEF Types, TypeOK
<1>2. output.frame \in Int
  BY <1>1, CalibrationAssumption DEF Shown, Zero
<1>3. /\ dirty \in SUBSET Point /\ pushed \in Nat
      /\ anchorLocally \in BOOLEAN /\ amplifyAmount \in Amount
      /\ pc \in {"idle", "liveOff", "amplify", "points"}
      /\ amplify \in Nat
  BY CalibrationAssumption DEF Types, TypeOK
<1>4. neutralFace \in [Point -> [of : Shown \cup {Zero}, by : Nat, round : Nat]]
  BY DEF Types, TypeOK
<1>5. i \in Int /\ round \in Nat
  BY CalibrationAssumption DEF Types, TypeOK
<1> QED
  BY <1>1, <1>2, <1>3, <1>4, <1>5

LEMMA InitCalibrationInv == Init => CalibrationInv
<1> SUFFICES ASSUME Init PROVE CalibrationInv
  OBVIOUS
<1>1. \A p \in Point : neutralFace[p] = [of |-> Zero, by |-> 1, round |-> 0]
  BY DEF Init
<1>2. Types
  <2>1. neutralFace \in [Point -> [of : Shown \cup {Zero}, by : Nat,
                                   round : Nat]]
    BY DEF Init
  <2>2. queue \in Seq(1 .. LastFrame) /\ output \in Shown \cup {Zero}
    BY DEF Init
  <2>3. /\ {live, locked, anchorLocally, filling} \subseteq BOOLEAN
        /\ filling = FALSE
    BY DEF Init, Locked
  <2>4. /\ amplifyAmount \in Amount /\ dirty \in SUBSET Point
        /\ pushed \in 0 .. LastFrame
        /\ pc \in {"idle", "liveOff", "amplify", "points"}
        /\ i \in 1 .. DATA_POINTS + 1 /\ amplify \in Nat
        /\ round \in 0 .. MaxRounds
    BY CalibrationAssumption DEF Init
  <2> QED
    BY <2>1, <2>2, <2>3, <2>4 DEF Types, TypeOK
<1>3. Unlocked
  BY DEF Init, Unlocked, Locked
<1>4. Records
  BY DEF Init, Records, Zero
<1>5. Storing
  BY <1>1 DEF Init, Storing, StoredNow
<1>6. NeutralInOrder
  BY <1>1 DEF NeutralInOrder, Zero
<1> QED
  BY <1>2, <1>3, <1>4, <1>5, <1>6 DEF CalibrationInv

(* What compute does for one plug, whoever asks for it.                    *)
LEMMA EvaluateMoves ==
  ASSUME Types, Records, NEW p \in Point, Evaluate(p), UNCHANGED pushed
  PROVE  /\ output' \in Shown \cup {Zero}
         /\ dirty' \in SUBSET Point
         /\ queue' \in Seq(1 .. LastFrame)
         /\ queue = << >> => queue' = << >>
         /\ Records'
         /\ output.frame <= output'.frame
         /\ \/ output' = output
            \/ queue # << >> /\ output'.anchored = anchorLocally
<1>1. /\ output \in Shown \cup {Zero} /\ dirty \in SUBSET Point
      /\ queue \in Seq(1 .. LastFrame)
      /\ output.frame \in Int
      /\ anchorLocally \in BOOLEAN /\ amplifyAmount \in Amount
  BY TypesOf
<1>2. CASE UNCHANGED outputVars
  BY <1>1, <1>2 DEF outputVars, Records
<1>3. CASE /\ queue # << >>
           /\ output' = [frame |-> Head(queue), anchored |-> anchorLocally,
                         amount |-> amplifyAmount]
           /\ queue' = Tail(queue)
           /\ dirty' = dirty \ {p}
  <2>1. /\ Len(queue) \in Nat \ {0} /\ 1 \in 1 .. Len(queue)
        /\ Head(queue) = queue[1] /\ queue[1] \in 1 .. LastFrame
        /\ queue' \in Seq(1 .. LastFrame)
        /\ Len(queue') = Len(queue) - 1
        /\ \A j \in 1 .. Len(queue') :
             j + 1 \in 1 .. Len(queue) /\ queue'[j] = queue[j + 1]
    <3>1. Len(queue) \in Nat /\ Len(queue) # 0
      BY <1>1, <1>3, EmptySeq, LenProperties
    <3>2. 1 \in 1 .. Len(queue)
      BY <3>1
    <3>3. queue[1] \in 1 .. LastFrame
      BY <1>1, <3>2, ElementOfSeq
    <3>4. /\ queue' \in Seq(1 .. LastFrame)
          /\ Len(queue') = Len(queue) - 1
          /\ \A j \in 1 .. Len(queue') : queue'[j] = queue[j + 1]
      BY <1>1, <1>3, HeadTailProperties
    <3>5. Head(queue) = queue[1]
      OBVIOUS
    <3> QED
      BY <3>1, <3>2, <3>3, <3>4, <3>5
  <2>2. output' \in Shown
    BY <1>1, <1>3, <2>1 DEF Shown
  <2>3. output'.frame = queue[1] /\ output'.anchored = anchorLocally
    BY <1>3, <2>1
  <2>4. Records'
    <3>1. output'.frame <= pushed'
      BY <2>1, <2>3 DEF Records
    <3>2. \A j \in 1 .. Len(queue') :
            output'.frame < queue'[j] /\ queue'[j] <= pushed'
      BY <2>1, <2>3 DEF Records
    <3>3. \A j, k \in 1 .. Len(queue') : j < k => queue'[j] < queue'[k]
      BY <2>1 DEF Records
    <3> QED
      BY <3>1, <3>2, <3>3 DEF Records
  <2>5. output.frame <= output'.frame
    BY <1>1, <2>1, <2>3, CalibrationAssumption DEF Records
  <2> QED
    BY <1>1, <1>3, <2>1, <2>2, <2>3, <2>4, <2>5
<1> QED
  BY <1>2, <1>3 DEF Evaluate, Pop

-----------------------------------------------------------------------------
(* The device's thread.                                                    *)

LEMMA ThreadCalibrationInv ==
  ASSUME CalibrationInv, Acquire \/ Push
  PROVE  CalibrationInv'
<1>1. Types /\ Unlocked /\ Records /\ Storing /\ NeutralInOrder
  BY DEF CalibrationInv
<1>2. /\ UNCHANGED << live, locked, anchorLocally, amplifyAmount, neutralFace,
                      output, dirty, pc, i, amplify, round >>
  BY DEF Acquire, Push, deviceVars, outputVars, scriptVars
<1>3. Storing' /\ NeutralInOrder'
  BY <1>1, <1>2 DEF Storing, StoredNow, NeutralInOrder
<1>4. CASE Acquire
  <2>1. /\ live /\ pushed < LastFrame
        /\ filling' = TRUE /\ UNCHANGED << queue, pushed >>
    BY <1>4 DEF Acquire, outputVars
  <2>2. Types' /\ Unlocked' /\ Records'
    BY <1>1, <1>2, <2>1 DEF Types, TypeOK, Unlocked, Records
  <2> QED
    BY <1>3, <2>2 DEF CalibrationInv
<1>5. CASE Push
  <2>1. /\ filling /\ filling' = FALSE
        /\ pushed' = pushed + 1
        /\ queue' = Append(queue, pushed')
    BY <1>5 DEF Push
  <2>2. /\ pushed \in Nat /\ pushed' \in 1 .. LastFrame
        /\ queue \in Seq(1 .. LastFrame) /\ Len(queue) \in Nat
        /\ output.frame \in Int
    <3>1. pushed' \in 1 .. LastFrame
      BY <1>1, <2>1, CalibrationAssumption DEF Types, TypeOK
    <3>2. /\ pushed \in Nat /\ queue \in Seq(1 .. LastFrame)
          /\ output.frame \in Int
      BY <1>1, TypesOf
    <3> QED
      BY <3>1, <3>2
  <2>3. /\ queue' \in Seq(1 .. LastFrame)
        /\ Len(queue') = Len(queue) + 1
        /\ \A j \in 1 .. Len(queue) :
             queue'[j] = queue[j] /\ queue[j] \in 1 .. LastFrame
        /\ queue'[Len(queue) + 1] = pushed'
    <3>1. /\ queue' \in Seq(1 .. LastFrame)
          /\ Len(queue') = Len(queue) + 1
          /\ \A j \in 1 .. Len(queue) : queue'[j] = queue[j]
          /\ queue'[Len(queue) + 1] = pushed'
      BY <2>1, <2>2, AppendProperties
    <3>2. \A j \in 1 .. Len(queue) : queue[j] \in 1 .. LastFrame
      BY <2>2, ElementOfSeq
    <3> QED
      BY <3>1, <3>2
  <2>4. Types'
    <3>1. {live, locked, anchorLocally, filling}' \subseteq BOOLEAN
      BY <1>1, <1>2, <2>1 DEF Types, TypeOK
    <3>2. output' \in Shown \cup {Zero} /\ neutralFace' = neutralFace
      BY <1>1, <1>2 DEF Types, TypeOK
    <3>3. pushed' \in 0 .. LastFrame /\ filling' = FALSE
      BY <2>1, <2>2
    <3> QED
      BY <1>1, <1>2, <2>3, <3>1, <3>2, <3>3 DEF Types, TypeOK, Shown, Zero
  <2>5. Unlocked'
    BY <1>1, <1>2, <2>1 DEF Unlocked
  <2>6. Records'
    <3>1. ASSUME NEW j \in 1 .. Len(queue')
          PROVE  output'.frame < queue'[j] /\ queue'[j] <= pushed'
      <4>1. CASE j = Len(queue) + 1
        BY <1>1, <1>2, <2>1, <2>2, <2>3, <4>1 DEF Records
      <4>2. CASE j # Len(queue) + 1
        BY <1>1, <1>2, <2>1, <2>2, <2>3, <4>2 DEF Records
      <4> QED
        BY <4>1, <4>2
    <3>2. ASSUME NEW j \in 1 .. Len(queue'), NEW k \in 1 .. Len(queue'), j < k
          PROVE  queue'[j] < queue'[k]
      <4>1. j \in 1 .. Len(queue)
        BY <2>2, <2>3, <3>2
      <4>2. CASE k = Len(queue) + 1
        BY <1>1, <2>1, <2>2, <2>3, <4>1, <4>2 DEF Records
      <4>3. CASE k # Len(queue) + 1
        BY <1>1, <2>2, <2>3, <3>2, <4>1, <4>3 DEF Records
      <4> QED
        BY <4>2, <4>3
    <3>3. output'.frame <= pushed'
      BY <1>1, <1>2, <2>1, <2>2 DEF Records
    <3> QED
      BY <3>1, <3>2, <3>3 DEF Records
  <2> QED
    BY <1>3, <2>4, <2>5, <2>6 DEF CalibrationInv
<1> QED
  BY <1>4, <1>5

-----------------------------------------------------------------------------
(* Maya and its user.                                                      *)

LEMMA UserCalibrationInv ==
  ASSUME CalibrationInv,
         \/ Refresh \/ (\E b \in BOOLEAN : SetLive(b))
         \/ (\E al \in BOOLEAN, aa \in Amount : SetAttributes(al, aa))
  PROVE  CalibrationInv'
<1>1. Types /\ Unlocked /\ Records /\ Storing /\ NeutralInOrder
  BY DEF CalibrationInv
<1>2. /\ UNCHANGED << locked, neutralFace, output, queue, filling, pushed,
                      pc, i, amplify, round >>
      /\ pc = "idle"
      /\ dirty' \in {dirty, Point}
      /\ live' \in BOOLEAN /\ (live' => live \/ ~locked)
      /\ anchorLocally' \in BOOLEAN /\ amplifyAmount' \in Amount
  BY <1>1 DEF Refresh, SetLive, SetAttributes, deviceVars, outputVars,
              threadVars, scriptVars, Types, TypeOK
<1>3. Types'
  BY <1>1, <1>2 DEF Types, TypeOK
<1>4. Unlocked' /\ Records'
  BY <1>1, <1>2 DEF Unlocked, Records
<1>5. Storing' /\ NeutralInOrder'
  BY <1>1, <1>2 DEF Storing, StoredNow, NeutralInOrder
<1> QED
  BY <1>3, <1>4, <1>5 DEF CalibrationInv

LEMMA AskCalibrationInv ==
  ASSUME CalibrationInv, NEW p \in Point, Ask(p)
  PROVE  CalibrationInv'
<1>1. Types /\ Unlocked /\ Records /\ Storing /\ NeutralInOrder
  BY DEF CalibrationInv
<1>2. /\ pc = "idle" /\ Evaluate(p)
      /\ UNCHANGED << live, locked, anchorLocally, amplifyAmount, neutralFace,
                      filling, pushed, pc, i, amplify, round >>
  BY DEF Ask, deviceVars, threadVars, scriptVars
<1>3. /\ output' \in Shown \cup {Zero} /\ dirty' \in SUBSET Point
      /\ queue' \in Seq(1 .. LastFrame)
      /\ queue = << >> => queue' = << >>
      /\ Records'
  BY <1>1, <1>2, EvaluateMoves
<1>4. Types'
  BY <1>1, <1>2, <1>3 DEF Types, TypeOK
<1>5. Unlocked'
  BY <1>1, <1>2, <1>3 DEF Unlocked
<1>6. Storing' /\ NeutralInOrder'
  BY <1>1, <1>2 DEF Storing, StoredNow, NeutralInOrder
<1> QED
  BY <1>3, <1>4, <1>5, <1>6 DEF CalibrationInv

-----------------------------------------------------------------------------
(* calibrateNeutralFace.                                                   *)

(* A step of the script that neither stores a landmark nor asks for one.   *)
LEMMA CommandCalibrationInv ==
  ASSUME CalibrationInv, AnchorOff \/ LiveOff \/ ReadAmount
  PROVE  CalibrationInv'
<1>1. Types /\ Unlocked /\ Records /\ Storing /\ NeutralInOrder
  BY DEF CalibrationInv
<1>2. /\ UNCHANGED << locked, neutralFace, amplifyAmount, output, queue,
                      filling, pushed >>
      /\ live' \in BOOLEAN /\ (live' => live)
      /\ dirty' \in SUBSET Point
  <2>1. live \in BOOLEAN /\ dirty \in SUBSET Point
    BY <1>1 DEF Types, TypeOK
  <2>2. CASE AnchorOff
    BY <2>1, <2>2 DEF AnchorOff, outputVars, threadVars
  <2>3. CASE LiveOff
    <3>1. /\ live' = (live /\ ~LiveOffTaken)
          /\ dirty' \in {dirty, Point}
      BY <2>3 DEF LiveOff
    <3> QED
      BY <2>1, <2>3, <3>1 DEF LiveOff, threadVars
  <2>4. CASE ReadAmount
    BY <2>1, <2>4 DEF ReadAmount, deviceVars, outputVars, threadVars
  <2> QED
    BY <2>2, <2>3, <2>4
<1>3. Unlocked' /\ Records' /\ NeutralInOrder'
  BY <1>1, <1>2 DEF Unlocked, Records, NeutralInOrder
<1>4. \A p \in Point : neutralFace[p].round \in Nat
  BY <1>1, TypesOf
<1>5. round \in Nat /\ i \in Int
  BY <1>1, TypesOf
<1>6. CASE AnchorOff
  <2>1. /\ pc = "idle" /\ pc' = "liveOff" /\ round < MaxRounds
        /\ round' = round + 1 /\ anchorLocally' = FALSE
        /\ UNCHANGED << i, amplify >>
    BY <1>6 DEF AnchorOff, Go, SetAnchor
  <2>2. Types'
    <3>1. round' \in 0 .. MaxRounds
      BY <1>5, <2>1, CalibrationAssumption
    <3> QED
      BY <1>1, <1>2, <2>1, <3>1 DEF Types, TypeOK
  <2>3. Storing'
    BY <1>1, <1>2, <1>4, <1>5, <2>1 DEF Storing, StoredNow
  <2> QED
    BY <1>3, <2>2, <2>3 DEF CalibrationInv
<1>7. CASE LiveOff
  <2>1. /\ pc = "liveOff" /\ pc' = "amplify"
        /\ UNCHANGED << anchorLocally, i, amplify, round >>
    BY <1>7 DEF LiveOff, Go, threadVars
  <2>2. Types'
    BY <1>1, <1>2, <2>1 DEF Types, TypeOK
  <2>3. Storing'
    BY <1>1, <1>2, <2>1 DEF Storing, StoredNow
  <2> QED
    BY <1>3, <2>2, <2>3 DEF CalibrationInv
<1>8. CASE ReadAmount
  <2>1. CASE live
    <3>1. UNCHANGED << pc, i, amplify, anchorLocally, round >>
      BY <1>8, <2>1 DEF ReadAmount, deviceVars
    <3>2. Types' /\ Storing'
      BY <1>1, <1>2, <3>1 DEF Types, TypeOK, Storing, StoredNow
    <3> QED
      BY <1>3, <3>2 DEF CalibrationInv
  <2>2. CASE ~live
    <3>1. /\ pc = "amplify" /\ pc' = "points"
          /\ amplify' = amplifyAmount \div 2 /\ i' = 1
          /\ UNCHANGED << anchorLocally, round >>
      BY <1>8, <2>2 DEF ReadAmount, deviceVars
    <3>2. amplify' \in Nat
      <4>1. amplifyAmount \in Nat
        BY <1>1, TypesOf, CalibrationAssumption
      <4>2. \A n \in Nat : n \div 2 \in Nat
        OBVIOUS
      <4> QED
        BY <3>1, <4>1, <4>2
    <3>3. Types'
      <4>1. i' \in 1 .. DATA_POINTS + 1
        BY <3>1, CalibrationAssumption
      <4> QED
        BY <1>1, <1>2, <3>1, <3>2, <4>1 DEF Types, TypeOK
    <3>4. \A p \in Point : ~StoredNow(p) /\ ~StoredNow(p)'
      BY <3>1 DEF StoredNow, Point
    <3>5. Storing'
      BY <1>1, <1>2, <3>1, <3>4 DEF Storing
    <3> QED
      BY <1>3, <3>3, <3>5 DEF CalibrationInv
  <2> QED
    BY <2>1, <2>2
<1> QED
  BY <1>6, <1>7, <1>8

(* One landmark is stored.                                                 *)
LEMMA CopyPointCalibrationInv ==
  ASSUME CalibrationInv, CopyPoint
  PROVE  CalibrationInv'
<1>1. Types /\ Unlocked /\ Records /\ Storing /\ NeutralInOrder
  BY DEF CalibrationInv
<1>2. /\ pc = "points" /\ amplify # 0 /\ ~(i > DATA_POINTS)
      /\ Evaluate(i) /\ i' = i + 1
      /\ neutralFace' = [neutralFace EXCEPT
           ![i] = [of |-> output', by |-> amplify, round |-> round]]
      /\ UNCHANGED << live, locked, anchorLocally, amplifyAmount, filling,
                      pushed, pc, amplify, round >>
  BY DEF CopyPoint, LoopDone, threadVars
<1>3. i \in 1 .. DATA_POINTS /\ i \in Point /\ DATA_POINTS \in Nat
  BY <1>1, <1>2, CalibrationAssumption DEF Types, TypeOK, Point
<1>4. /\ output' \in Shown \cup {Zero} /\ dirty' \in SUBSET Point
      /\ queue' \in Seq(1 .. LastFrame)
      /\ queue = << >> => queue' = << >>
      /\ Records'
      /\ output.frame <= output'.frame
      /\ \/ output' = output
         \/ queue # << >> /\ output'.anchored = anchorLocally
  BY <1>1, <1>2, <1>3, EvaluateMoves
<1>5. ~anchorLocally /\ round > 0 /\ round \in Nat /\ amplify \in Nat
  BY <1>1, <1>2, TypesOf DEF Storing
<1>6. \A p \in Point :
        neutralFace'[p] = IF p = i
                          THEN [of |-> output', by |-> amplify, round |-> round]
                          ELSE neutralFace[p]
  BY <1>1, <1>2, TypesOf
<1>7. \A p \in Point : /\ p \in Int
                       /\ neutralFace[p].round \in Nat
                       /\ neutralFace[p].of \in Shown \cup {Zero}
                       /\ neutralFace[p].of.frame \in Int
  <2>1. \A p \in Point : /\ p \in Int
                         /\ neutralFace[p].round \in Nat
                         /\ neutralFace[p].of \in Shown \cup {Zero}
    BY <1>1, TypesOf DEF Point
  <2>2. \A o \in Shown \cup {Zero} : o.frame \in Int
    BY CalibrationAssumption DEF Shown, Zero
  <2> QED
    BY <2>1, <2>2
<1>8. output.frame \in Int /\ output'.frame \in Int
  <2>1. \A o \in Shown \cup {Zero} : o.frame \in Int
    BY CalibrationAssumption DEF Shown, Zero
  <2> QED
    BY <1>1, <1>4, <2>1, TypesOf
<1>9. \A p \in Point : /\ StoredNow(p) <=> p < i
                       /\ StoredNow(p)' <=> p <= i
  BY <1>2, <1>3, <1>7 DEF StoredNow
<1>10. Types'
  <2>1. neutralFace' \in [Point -> [of : Shown \cup {Zero}, by : Nat,
                                    round : Nat]]
    <3>1. [of |-> output', by |-> amplify, round |-> round]
            \in [of : Shown \cup {Zero}, by : Nat, round : Nat]
      BY <1>4, <1>5
    <3> QED
      BY <1>1, <1>2, <1>3, <3>1, TypesOf
  <2>2. i' \in 1 .. DATA_POINTS + 1
    BY <1>2, <1>3
  <2> QED
    BY <1>1, <1>2, <1>4, <2>1, <2>2 DEF Types, TypeOK
<1>11. Unlocked'
  BY <1>1, <1>2, <1>4, <1>5, <1>6 DEF Unlocked
<1>12. Storing'
  <2>1. ASSUME NEW p \in Point, p <= i
        PROVE  /\ neutralFace'[p].round = round
               /\ neutralFace'[p].of.frame <= output'.frame
               /\ output'.anchored => neutralFace'[p].of.anchored
    <3>1. CASE p = i
      BY <1>6, <1>8, <3>1
    <3>2. CASE p # i
      <4>1. /\ neutralFace'[p] = neutralFace[p]
            /\ StoredNow(p)
        BY <1>3, <1>6, <1>7, <1>9, <2>1, <3>2
      <4>2. /\ neutralFace[p].round = round
            /\ neutralFace[p].of.frame <= output.frame
            /\ output.anchored => neutralFace[p].of.anchored
        BY <1>1, <4>1 DEF Storing
      <4>3. neutralFace[p].of.frame <= output'.frame
        BY <1>4, <1>7, <1>8, <4>2
      <4> QED
        BY <1>4, <1>5, <4>1, <4>2, <4>3
    <3> QED
      BY <3>1, <3>2
  <2>2. ASSUME NEW p \in Point, ~(p <= i)
        PROVE  neutralFace'[p] = neutralFace[p] /\ ~StoredNow(p)
    BY <1>3, <1>6, <1>7, <1>9, <2>2
  <2>3. ASSUME NEW p \in Point, ~StoredNow(p)'
        PROVE  /\ neutralFace'[p].round <= round'
               /\ pc' # "idle" => neutralFace'[p].round < round'
               /\ \A q \in Point : ~StoredNow(q)' =>
                    neutralFace'[q].round = neutralFace'[p].round
    BY <1>1, <1>2, <1>9, <2>2, <2>3 DEF Storing
  <2> QED
    BY <1>2, <1>5, <1>9, <2>1, <2>3 DEF Storing
<1>13. NeutralInOrder'
  <2> SUFFICES ASSUME NEW p \in Point, NEW q \in Point, p < q,
                      neutralFace'[p].round = neutralFace'[q].round
               PROVE  /\ neutralFace'[p].of.frame <= neutralFace'[q].of.frame
                      /\ neutralFace'[q].of.anchored =>
                           neutralFace'[p].of.anchored
    BY DEF NeutralInOrder
  <2>1. CASE q = i
    <3>1. neutralFace'[q].of = output'
      BY <1>6, <2>1
    <3>2. StoredNow(p)'
      BY <1>3, <1>7, <1>9, <2>1
    <3>3. /\ neutralFace'[p].of.frame <= output'.frame
          /\ output'.anchored => neutralFace'[p].of.anchored
      BY <1>12, <3>2 DEF Storing
    <3> QED
      BY <3>1, <3>3
  <2>2. CASE p = i
    <3>1. neutralFace'[p].round = round /\ neutralFace'[q] = neutralFace[q]
      BY <1>3, <1>6, <1>7, <2>2
    <3>2. ~StoredNow(q)
      BY <1>3, <1>7, <1>9, <2>2
    <3>3. neutralFace[q].round < round
      BY <1>1, <1>2, <3>2 DEF Storing
    <3>4. neutralFace[q].round \in Nat /\ round \in Nat
      BY <1>5, <1>7
    <3>5. neutralFace[q].round = round
      BY <3>1
    <3> QED
      BY <3>3, <3>4, <3>5
  <2>3. CASE p # i /\ q # i
    BY <1>1, <1>6, <2>3 DEF NeutralInOrder
  <2> QED
    BY <2>1, <2>2, <2>3
<1> QED
  BY <1>4, <1>10, <1>11, <1>12, <1>13 DEF CalibrationInv

(* The script ends: by the error, before it has stored anything, or having *)
(* stored every landmark.                                                  *)
LEMMA EndCalibrationInv ==
  ASSUME CalibrationInv, DivideByZero \/ Finish
  PROVE  CalibrationInv'
<1>1. Types /\ Unlocked /\ Records /\ Storing /\ NeutralInOrder
  BY DEF CalibrationInv
<1>2. \A p \in Point : p \in Int /\ neutralFace[p].round \in Nat
  BY <1>1, TypesOf DEF Point
<1>3. round \in Nat /\ pc = "points" /\ pc' = "idle"
      /\ UNCHANGED << live, amplifyAmount, neutralFace, filling, pushed, i,
                      amplify, round >>
      /\ \A p \in Point : ~StoredNow(p)'
  BY <1>1, TypesOf DEF DivideByZero, Finish, Go, deviceVars, threadVars,
       StoredNow
<1>4. NeutralInOrder'
  BY <1>1, <1>3 DEF NeutralInOrder
<1>5. CASE DivideByZero
  <2>1. /\ amplify = 0 /\ Evaluate(i) /\ UNCHANGED << locked, anchorLocally >>
    BY <1>5 DEF DivideByZero, deviceVars
  <2>2. i = 1 /\ i \in Point
    BY <1>1, <1>3, <2>1, CalibrationAssumption DEF Storing, Point
  <2>3. /\ output' \in Shown \cup {Zero} /\ dirty' \in SUBSET Point
        /\ queue' \in Seq(1 .. LastFrame)
        /\ queue = << >> => queue' = << >>
        /\ Records'
    BY <1>1, <1>3, <2>1, <2>2, EvaluateMoves
  <2>4. Types'
    BY <1>1, <1>3, <2>1, <2>3 DEF Types, TypeOK
  <2>5. Unlocked'
    BY <1>1, <1>3, <2>1, <2>3 DEF Unlocked
  <2>6. \A p \in Point : ~StoredNow(p)
    BY <2>2 DEF StoredNow, Point
  <2>7. Storing'
    BY <1>1, <1>3, <2>6 DEF Storing
  <2> QED
    BY <1>4, <2>3, <2>4, <2>5, <2>7 DEF CalibrationInv
<1>6. CASE Finish
  <2>1. /\ i > DATA_POINTS /\ locked' = FALSE /\ anchorLocally' = TRUE
        /\ UNCHANGED << output, dirty, queue >>
    BY <1>6 DEF Finish, SetAnchor, LoopDone, outputVars
  <2>2. Types' /\ Records'
    BY <1>1, <1>3, <2>1 DEF Types, TypeOK, Records
  <2>3. \A p \in Point : StoredNow(p)
    <3>1. i \in Int /\ DATA_POINTS \in Nat
      BY <1>1, TypesOf, CalibrationAssumption
    <3> QED
      BY <1>3, <2>1, <3>1 DEF StoredNow, Point
  <2>4. \A p \in Point : neutralFace[p].round = round
    BY <1>1, <2>3 DEF Storing
  <2>5. round > 0
    BY <1>1, <1>3 DEF Storing
  <2>6. Unlocked'
    BY <1>3, <2>1, <2>4, <2>5 DEF Unlocked
  <2>7. Storing'
    BY <1>3, <2>4 DEF Storing
  <2> QED
    BY <1>4, <2>2, <2>6, <2>7 DEF CalibrationInv
<1> QED
  BY <1>5, <1>6

-----------------------------------------------------------------------------

LEMMA NextCalibrationInv ==
  ASSUME CalibrationInv, [Next]_vars
  PROVE  CalibrationInv'
<1>1. CASE Acquire \/ Push
  BY <1>1, ThreadCalibrationInv
<1>2. CASE \/ Refresh \/ (\E b \in BOOLEAN : SetLive(b))
           \/ (\E al \in BOOLEAN, aa \in Amount : SetAttributes(al, aa))
  BY <1>2, UserCalibrationInv
<1>3. CASE \E p \in Point : Ask(p)
  BY <1>3, AskCalibrationInv
<1>4. CASE AnchorOff \/ LiveOff \/ ReadAmount
  BY <1>4, CommandCalibrationInv
<1>5. CASE CopyPoint
  BY <1>5, CopyPointCalibrationInv
<1>6. CASE DivideByZero \/ Finish
  BY <1>6, EndCalibrationInv
<1>7. CASE UNCHANGED vars
  BY <1>7 DEF vars, deviceVars, outputVars, threadVars, scriptVars,
              CalibrationInv, Types, TypeOK, Unlocked, Records, Storing,
              StoredNow, NeutralInOrder
<1> QED
  BY <1>1, <1>2, <1>3, <1>4, <1>5, <1>6, <1>7 DEF Next, Script

(* calibrateNeutralFace and the node keep the types of their attributes.   *)
THEOREM CalibrationTypes == Spec => []TypeOK
<1>1. CalibrationInv => TypeOK
  BY DEF CalibrationInv, Types
<1> QED
  BY <1>1, InitCalibrationInv, NextCalibrationInv, PTL DEF Spec

(* README: the neutral face is defined before capture data is read.  The   *)
(* lock createStringlessDevice puts on live is taken off by a calibration  *)
(* that has stored every landmark, and only by one.                        *)
THEOREM CalibratedFirst == Spec => []LiveOnlyCalibrated
<1>1. CalibrationInv => LiveOnlyCalibrated
  BY DEF CalibrationInv, Unlocked, LiveOnlyCalibrated
<1> QED
  BY <1>1, InitCalibrationInv, NextCalibrationInv, PTL DEF Spec

(* The records a neutral face is put together from are used in the order   *)
(* the device's thread pushed them, once one without anchoring all so.     *)
THEOREM CalibrationInOrder == Spec => []NeutralInOrder
<1>1. CalibrationInv => NeutralInOrder
  BY DEF CalibrationInv
<1> QED
  BY <1>1, InitCalibrationInv, NextCalibrationInv, PTL DEF Spec

(* compute never subtracts a neutral face that is half stored, whatever    *)
(* calibrations a division by zero has ended before.                       *)
THEOREM AnchoredWhole == Spec => AnchoredToWholeNeutral
<1>1. ASSUME CalibrationInv, [Next]_vars, output' # output, output'.anchored
      PROVE  /\ \A p, q \in Point : neutralFace[p].round = neutralFace[q].round
             /\ neutralFace[1].round > 0
  <2>1. Types /\ Unlocked /\ Records /\ Storing
    BY <1>1 DEF CalibrationInv
  <2>2. PICK p \in Point : Evaluate(p) /\ pc \in {"idle", "points"}
    <3>1. (\E p \in Point : Ask(p)) \/ CopyPoint \/ DivideByZero
      BY <1>1 DEF Next, Script, vars, outputVars, Acquire, Push, Refresh,
           SetLive, SetAttributes, AnchorOff, LiveOff, ReadAmount, Finish
    <3>2. CopyPoint => i \in Point
      BY <2>1, CalibrationAssumption
         DEF CopyPoint, LoopDone, Types, TypeOK, Point
    <3>3. DivideByZero => i \in Point
      BY <2>1, CalibrationAssumption DEF DivideByZero, Go, Storing, Point
    <3> QED
      BY <3>1, <3>2, <3>3 DEF Ask, CopyPoint, DivideByZero, Go
  <2>3. queue # << >> /\ anchorLocally
    BY <1>1, <2>2 DEF Evaluate, outputVars
  <2>4. pc = "idle"
    BY <2>1, <2>2, <2>3 DEF Storing
  <2>5. \A p1, q \in Point : neutralFace[p1].round = neutralFace[q].round
    BY <2>1, <2>4 DEF Storing, StoredNow
  <2>6. 1 \in Point
    BY CalibrationAssumption DEF Point
  <2> QED
    BY <2>1, <2>3, <2>5, <2>6 DEF Unlocked
<1> QED
  BY <1>1, InitCalibrationInv, NextCalibrationInv, PTL
     DEF Spec, AnchoredToWholeNeutral

-----------------------------------------------------------------------------
(* That a calibration goes on.                                             *)

(* while (getAttr .live == on) {} holds Maya's main thread, and nothing    *)
(* else could then turn live off: it must find live off at once.           *)
NeverSpins == pc = "amplify" => ~live

(* The commands a calibration has before it, counted from above.           *)
CommandsLeft ==
  CASE pc = "liveOff" -> DATA_POINTS + 4
    [] pc = "amplify" -> DATA_POINTS + 3
    [] pc = "points" -> DATA_POINTS + 2 - i
    [] OTHER -> 0

(* A command of the script lowers that number, nothing else changes it     *)
(* until the script has ended.                                             *)
Advances ==
  [][pc # "idle" => IF Script THEN CommandsLeft' < CommandsLeft
                    ELSE CommandsLeft' = CommandsLeft]_vars

(* live has no connection and is unlocked when it is on, so catchQuiet has *)
(* nothing to catch when it matters.                                       *)
LEMMA NextNeverSpins ==
  ASSUME CalibrationInv, NeverSpins, [Next]_vars
  PROVE  NeverSpins'
<1>1. live \in BOOLEAN /\ (live => ~locked)
  BY DEF CalibrationInv, Types, TypeOK, Unlocked
<1>2. CASE LiveOff
  BY <1>1, <1>2 DEF LiveOff, LiveOffTaken, Go, NeverSpins
<1>3. CASE AnchorOff \/ ReadAmount \/ CopyPoint \/ DivideByZero \/ Finish
  BY <1>3 DEF AnchorOff, ReadAmount, CopyPoint, DivideByZero, Finish, Go,
              deviceVars, NeverSpins
<1>4. CASE \/ Acquire \/ Push \/ Refresh \/ (\E p \in Point : Ask(p))
           \/ (\E b \in BOOLEAN : SetLive(b))
           \/ (\E al \in BOOLEAN, aa \in Amount : SetAttributes(al, aa))
  BY <1>4 DEF Acquire, Push, Refresh, Ask, SetLive, SetAttributes,
              deviceVars, scriptVars, NeverSpins
<1>5. CASE UNCHANGED vars
  BY <1>5 DEF vars, deviceVars, scriptVars, NeverSpins
<1> QED
  BY <1>2, <1>3, <1>4, <1>5 DEF Next, Script

LEMMA CommandsLeftIs ==
  ASSUME CalibrationInv
  PROVE  /\ CommandsLeft \in Nat
         /\ pc # "idle" <=> CommandsLeft > 0
<1>1. /\ pc \in {"idle", "liveOff", "amplify", "points"}
      /\ i \in 1 .. DATA_POINTS + 1 /\ DATA_POINTS \in Nat
  BY CalibrationAssumption DEF CalibrationInv, Types, TypeOK
<1> QED
  BY <1>1 DEF CommandsLeft

LEMMA ScriptAdvances ==
  ASSUME CalibrationInv, NeverSpins, Script
  PROVE  CommandsLeft' < CommandsLeft
<1>1. i \in 1 .. DATA_POINTS + 1 /\ DATA_POINTS \in Nat
  BY CalibrationAssumption DEF CalibrationInv, Types, TypeOK
<1>2. \/ pc = "liveOff" /\ pc' = "amplify"
      \/ pc = "amplify" /\ pc' = "points" /\ i' = 1
      \/ pc = "points" /\ pc' = "points" /\ i' = i + 1
      \/ pc = "points" /\ pc' = "idle"
  BY DEF Script, LiveOff, ReadAmount, CopyPoint, DivideByZero, Finish, Go,
         NeverSpins
<1> QED
  BY <1>1, <1>2 DEF CommandsLeft

LEMMA OthersWait ==
  ASSUME pc # "idle", [Next]_vars, ~Script
  PROVE  CommandsLeft' = CommandsLeft
<1>1. UNCHANGED << pc, i >>
  BY DEF Next, Acquire, Push, Refresh, Ask, SetLive, SetAttributes, AnchorOff,
         Go, vars, scriptVars
<1> QED
  BY <1>1 DEF CommandsLeft

(* calibrateNeutralFace never waits in its empty loop, and each of its     *)
(* commands brings it nearer its end, whatever the device's thread pushes  *)
(* meanwhile.  CalibrationEnds rests on this and on the script's fairness. *)
THEOREM CalibrationAdvances == Spec => []NeverSpins /\ Advances
<1>1. Init => NeverSpins
  BY DEF Init, NeverSpins
<1>2. CalibrationInv /\ NeverSpins /\ [Next]_vars => NeverSpins'
  BY NextNeverSpins
<1>3. CalibrationInv /\ NeverSpins /\ [Next]_vars =>
        [pc # "idle" => IF Script THEN CommandsLeft' < CommandsLeft
                        ELSE CommandsLeft' = CommandsLeft]_vars
  BY ScriptAdvances, OthersWait
<1> QED
  BY <1>1, <1>2, <1>3, InitCalibrationInv, NextCalibrationInv, PTL
     DEF Spec, Advances

-----------------------------------------------------------------------------
(* The rig.                                                                *)

(* The names connectNodes goes through, and its indices.                   *)
Name == CreateRig!StringlessFaceNames
Index == 0 .. 67

(* The node the kth step of connectNodes connects.                         *)
Node(f, k) == << f, Name[k + 1] >>

RigPlaces ==
  /\ rig_pc \in {"idle", "rig", "device", "conversions", "connect", "command"}
  /\ rig_i \in Index
  /\ rig_pc \in {"idle", "device", "command"} => rig_i = 0
  /\ rig_pc \in {"rig", "device"} => face \notin device
  /\ rig_pc \in {"conversions", "connect", "command"} => face \in device

(* The nodes connectNodes asks for are there, those of a finished face and *)
(* as many of the face's under way as createStringlessRig has made.        *)
NodesMade ==
  /\ \A f \in device, k \in Index : Node(f, k) \in joint
  /\ rig_pc = "rig" /\ rig_i > 0 =>
       \A k \in 0 .. rig_i : Node(face, k) \in joint
  /\ rig_pc = "device" => \A k \in Index : Node(face, k) \in joint

ConversionsMade ==
  /\ \A f \in device, k \in Index :
       (f = face /\ rig_pc = "conversions") \/ << f, k >> \in conversion
  /\ rig_pc = "conversions" =>
       \A k \in 0 .. rig_i - 1 : << face, k >> \in conversion

(* How many nodes of a face with a device are driven.                      *)
Driven(f) ==
  IF f = face /\ rig_pc = "conversions" THEN 0
  ELSE IF f = face /\ rig_pc = "connect" THEN rig_i ELSE 68

(* They are driven by the landmarks in order, and no other node is.        *)
Connected ==
  /\ rotation = translation
  /\ \A m \in DOMAIN translation :
       \E f \in device : \E k \in 0 .. Driven(f) - 1 :
         m = Node(f, k) /\ translation[m] = << f, k >>
  /\ \A f \in device : \A k \in 0 .. Driven(f) - 1 :
       Node(f, k) \in DOMAIN translation /\ translation[Node(f, k)] = << f, k >>

RigInv == RigPlaces /\ NodesMade /\ ConversionsMade /\ Connected

(* The names connectNodes goes through are Face and the joints in order,   *)
(* but the last; no two are the same.                                      *)
LEMMA NamesAreJoints ==
  /\ Name[1] = "Face"
  /\ \A k \in 1 .. 67 : Name[k + 1] = CreateRig!Joint[k]
BY DEF Name, CreateRig!StringlessFaceNames, CreateRig!Joint

LEMMA NamesDiffer ==
  \A k, l \in 1 .. 68 : Name[k] = Name[l] => k = l
BY DEF Name, CreateRig!StringlessFaceNames

LEMMA NodesDiffer ==
  ASSUME NEW f, NEW g, NEW k \in Index, NEW l \in Index,
         Node(f, k) = Node(g, l)
  PROVE  f = g /\ k = l
<1>1. k + 1 \in 1 .. 68 /\ l + 1 \in 1 .. 68 /\ Name[k + 1] = Name[l + 1]
  BY DEF Index, Node
<1>2. k + 1 = l + 1
  BY <1>1, NamesDiffer
<1> QED
  BY <1>2 DEF Index, Node

LEMMA InitRigInv == CreateRig!Init => RigInv
BY DEF CreateRig!Init, RigInv, RigPlaces, NodesMade, ConversionsMade,
       Connected, Index

(* What a round of a loop does.                                            *)
LEMMA LoopIs ==
  ASSUME RigPlaces, NEW from, NEW to, CreateRig!Loop(from, to)
  PROVE  /\ rig_pc = from /\ face' = face
         /\ \/ rig_i < 67 /\ rig_i' = rig_i + 1 /\ rig_pc' = from
            \/ rig_i = 67 /\ rig_i' = 0 /\ rig_pc' = to
<1>1. rig_i \in 0 .. 67 /\ CreateRig!Landmarks = 68
  BY DEF RigPlaces, Index, CreateRig!Landmarks
<1>2. rig_i' = (rig_i + 1) % 68
  BY <1>1 DEF CreateRig!Loop
<1>3. rig_i < 67 => (rig_i + 1) % 68 = rig_i + 1
  BY <1>1
<1>4. rig_i = 67 => (rig_i + 1) % 68 = 0
  OBVIOUS
<1> QED
  BY <1>1, <1>2, <1>3, <1>4 DEF CreateRig!Loop

(* A step that connects nothing, and makes no device but with no node of   *)
(* its driven.                                                             *)
LEMMA ConnectedStays ==
  ASSUME Connected, UNCHANGED << translation, rotation >>,
         device \subseteq device',
         \A f \in device : Driven(f)' = Driven(f),
         \A f \in device' : f \in device \/ Driven(f)' = 0
  PROVE  Connected'
<1>1. ASSUME NEW m \in DOMAIN translation
      PROVE  \E f \in device' : \E k \in 0 .. Driven(f)' - 1 :
               m = Node(f, k) /\ translation[m] = << f, k >>
  <2>1. PICK f \in device :
               \E k \in 0 .. Driven(f) - 1 :
                 m = Node(f, k) /\ translation[m] = << f, k >>
    BY DEF Connected
  <2>2. f \in device' /\ Driven(f)' = Driven(f)
    OBVIOUS
  <2> QED
    BY <2>1, <2>2
<1>2. ASSUME NEW f \in device', NEW k \in 0 .. Driven(f)' - 1
      PROVE  Node(f, k) \in DOMAIN translation /\ translation[Node(f, k)] = << f, k >>
  <2>1. CASE f \in device
    <3>1. Driven(f)' = Driven(f)
      BY <2>1
    <3>2. k \in 0 .. Driven(f) - 1
      BY <3>1
    <3> QED
      BY <2>1, <3>2 DEF Connected
  <2>2. CASE Driven(f)' = 0
    <3>1. k \in 0 .. 0 - 1
      BY <2>2
    <3> QED
      BY <3>1
  <2> QED
    BY <2>1, <2>2
<1>3. translation' = translation /\ rotation' = translation
  BY DEF Connected
<1> QED
  BY <1>1, <1>2, <1>3 DEF Connected, Node

LEMMA CallRigInv ==
  ASSUME RigInv, NEW f \in Face, CreateRig!Call(f)
  PROVE  RigInv'
<1>1. /\ rig_pc = "idle" /\ f \notin device
      /\ face' = f /\ rig_pc' = "rig"
      /\ UNCHANGED << rig_i, joint, device, conversion, translation,
                      rotation >>
  BY DEF CreateRig!Call
<1>2. RigPlaces /\ NodesMade /\ ConversionsMade /\ Connected /\ rig_i = 0
  BY <1>1 DEF RigInv, RigPlaces
<1>3. RigPlaces'
  BY <1>1, <1>2 DEF RigPlaces, Index
<1>4. NodesMade'
  BY <1>1, <1>2 DEF NodesMade, Node
<1>5. ConversionsMade'
  BY <1>1, <1>2 DEF ConversionsMade
<1>6. ASSUME NEW g \in device
      PROVE  Driven(g)' = Driven(g)
  BY <1>1 DEF Driven
<1>7. Connected'
  BY <1>1, <1>2, <1>6, ConnectedStays
<1> QED
  BY <1>3, <1>4, <1>5, <1>7 DEF RigInv

LEMMA CreateJointRigInv ==
  ASSUME RigInv, CreateRig!CreateJoint
  PROVE  RigInv'
<1>1. /\ rig_pc = "rig" /\ face' = face
      /\ \/ rig_i < 67 /\ rig_i' = rig_i + 1 /\ rig_pc' = "rig"
         \/ rig_i = 67 /\ rig_i' = 0 /\ rig_pc' = "device"
  BY LoopIs DEF RigInv, CreateRig!CreateJoint
<1>2. /\ joint' = joint \cup {<< face, "Face" >>,
                              << face, CreateRig!Joint[rig_i + 1] >>}
      /\ UNCHANGED << device, conversion, translation, rotation >>
  BY DEF CreateRig!CreateJoint
<1>3. /\ RigPlaces /\ NodesMade /\ ConversionsMade /\ Connected
      /\ rig_i \in Index /\ face \notin device
  BY <1>1 DEF RigInv, RigPlaces
<1>4. NodesMade'
  <2>1. Node(face, 0) \in joint'
    BY <1>2, NamesAreJoints DEF Node
  <2>2. rig_i < 67 => Node(face, rig_i + 1) \in joint'
    <3>1. rig_i < 67 => rig_i + 1 \in 1 .. 67
      BY <1>3 DEF Index
    <3> QED
      BY <1>2, <3>1, NamesAreJoints DEF Node
  <2>3. \A k \in 0 .. rig_i : Node(face, k) \in joint'
    <3>1. rig_i > 0 => \A k \in 0 .. rig_i : Node(face, k) \in joint
      BY <1>1, <1>3 DEF NodesMade
    <3> QED
      BY <1>2, <1>3, <2>1, <3>1 DEF Index
  <2>4. \A f \in device', k \in Index : Node(f, k) \in joint'
    BY <1>2, <1>3 DEF NodesMade
  <2>5. rig_pc' = "rig" =>
          \A k \in 0 .. rig_i' : Node(face, k) \in joint'
    BY <1>1, <1>3, <2>2, <2>3 DEF Index
  <2>6. rig_pc' = "device" =>
          \A k \in Index : Node(face, k) \in joint'
    BY <1>1, <1>3, <2>3 DEF Index
  <2> QED
    BY <1>1, <2>4, <2>5, <2>6 DEF NodesMade, Node
<1>5. RigPlaces'
  BY <1>1, <1>2, <1>3 DEF RigPlaces, Index
<1>6. ConversionsMade'
  BY <1>1, <1>2, <1>3 DEF ConversionsMade
<1>7. ASSUME NEW f \in device
      PROVE  Driven(f)' = Driven(f)
  BY <1>1 DEF Driven
<1>8. Connected'
  BY <1>2, <1>3, <1>7, ConnectedStays
<1> QED
  BY <1>4, <1>5, <1>6, <1>8 DEF RigInv

LEMMA CreateDeviceRigInv ==
  ASSUME RigInv, CreateRig!CreateDevice
  PROVE  RigInv'
<1>1. /\ rig_pc = "device" /\ rig_pc' = "conversions"
      /\ device' = device \cup {face}
      /\ UNCHANGED << face, rig_i, joint, conversion, translation, rotation >>
  BY DEF CreateRig!CreateDevice
<1>2. /\ RigPlaces /\ NodesMade /\ ConversionsMade /\ Connected
      /\ rig_i = 0 /\ face \notin device
  BY <1>1 DEF RigInv, RigPlaces
<1>3. RigPlaces'
  BY <1>1, <1>2 DEF RigPlaces, Index
<1>4. NodesMade'
  BY <1>1, <1>2 DEF NodesMade, Node
<1>5. ConversionsMade'
  <2>1. \A k \in 0 .. rig_i' - 1 : << face', k >> \in conversion'
    BY <1>1, <1>2
  <2>2. ASSUME NEW f \in device', NEW k \in Index
        PROVE  \/ f = face' /\ rig_pc' = "conversions"
               \/ << f, k >> \in conversion'
    BY <1>1, <1>2 DEF ConversionsMade
  <2> QED
    BY <2>1, <2>2 DEF ConversionsMade
<1>6. ASSUME NEW f \in device
      PROVE  Driven(f)' = Driven(f)
  BY <1>1, <1>2 DEF Driven
<1>7. Driven(face)' = 0
  BY <1>1 DEF Driven
<1>8. Connected'
  BY <1>1, <1>2, <1>6, <1>7, ConnectedStays
<1> QED
  BY <1>3, <1>4, <1>5, <1>8 DEF RigInv

LEMMA CreateConversionRigInv ==
  ASSUME RigInv, CreateRig!CreateConversion
  PROVE  RigInv'
<1>1. /\ rig_pc = "conversions" /\ face' = face
      /\ \/ rig_i < 67 /\ rig_i' = rig_i + 1 /\ rig_pc' = "conversions"
         \/ rig_i = 67 /\ rig_i' = 0 /\ rig_pc' = "connect"
  BY LoopIs DEF RigInv, CreateRig!CreateConversion
<1>2. /\ conversion' = conversion \cup {<< face, rig_i >>}
      /\ UNCHANGED << joint, device, translation, rotation >>
  BY DEF CreateRig!CreateConversion, CreateRig!Conversion
<1>3. /\ RigPlaces /\ NodesMade /\ ConversionsMade /\ Connected
      /\ rig_i \in Index /\ face \in device
  BY <1>1 DEF RigInv, RigPlaces
<1>4. ConversionsMade'
  <2>1. ASSUME NEW k \in 0 .. rig_i
        PROVE  << face, k >> \in conversion'
    <3>1. k = rig_i \/ k \in 0 .. rig_i - 1
      BY <1>3 DEF Index
    <3> QED
      BY <1>1, <1>2, <1>3, <3>1 DEF ConversionsMade
  <2>2. ASSUME rig_pc' = "conversions"
        PROVE  \A k \in 0 .. rig_i' - 1 : << face, k >> \in conversion'
    <3>1. 0 .. rig_i' - 1 = 0 .. rig_i
      BY <1>1, <1>3, <2>2 DEF Index
    <3> QED
      BY <2>1, <3>1
  <2>3. ASSUME NEW f \in device', NEW k \in Index
        PROVE  \/ f = face /\ rig_pc' = "conversions"
               \/ << f, k >> \in conversion'
    <3>1. CASE f = face /\ rig_i = 67
      <4>1. k \in 0 .. rig_i
        BY <3>1 DEF Index
      <4> QED
        BY <2>1, <3>1, <4>1
    <3>2. CASE f = face /\ rig_i < 67
      BY <1>1, <3>2
    <3>3. CASE f # face
      BY <1>2, <1>3, <3>3 DEF ConversionsMade
    <3> QED
      BY <1>1, <3>1, <3>2, <3>3
  <2> QED
    BY <1>1, <2>2, <2>3 DEF ConversionsMade
<1>5. RigPlaces'
  BY <1>1, <1>2, <1>3 DEF RigPlaces, Index
<1>6. NodesMade'
  BY <1>1, <1>2, <1>3 DEF NodesMade, Node
<1>7. ASSUME NEW f \in device
      PROVE  Driven(f)' = Driven(f)
  BY <1>1 DEF Driven
<1>8. Connected'
  BY <1>2, <1>3, <1>7, ConnectedStays
<1> QED
  BY <1>4, <1>5, <1>6, <1>8 DEF RigInv

(* No connectAttr of connectNodes fails.                                   *)
LEMMA RigConnects ==
  ASSUME RigInv, rig_pc = "connect"
  PROVE  CreateRig!Connects
<1> DEFINE n == Node(face, rig_i)
<1>1. /\ RigPlaces /\ NodesMade /\ ConversionsMade /\ Connected
      /\ rig_i \in Index /\ face \in device
  BY DEF RigInv, RigPlaces
<1>2. \A f : Driven(f) = IF f = face THEN rig_i ELSE 68
  BY DEF Driven
<1>3. n \notin DOMAIN translation
  <2>1. SUFFICES ASSUME n \in DOMAIN translation
                 PROVE  FALSE
    OBVIOUS
  <2>2. PICK f \in device :
               \E k \in 0 .. Driven(f) - 1 :
                 n = Node(f, k) /\ translation[n] = << f, k >>
    BY <1>1, <2>1 DEF Connected
  <2>3. PICK k \in 0 .. Driven(f) - 1 : n = Node(f, k)
    BY <2>2
  <2>4. k \in Index
    BY <1>1, <1>2 DEF Index
  <2>5. f = face /\ k = rig_i
    BY <1>1, <2>3, <2>4, NodesDiffer
  <2>6. rig_i \in 0 .. rig_i - 1
    BY <1>2, <2>5
  <2> QED
    BY <1>1, <2>6 DEF Index
<1>4. n \in joint /\ << face, rig_i >> \in conversion
  BY <1>1 DEF NodesMade, ConversionsMade
<1>5. CreateRig!Named(rig_i) = n /\ CreateRig!Rotated(rig_i) = n
  BY DEF CreateRig!Rotated, CreateRig!Named, Node, Name
<1> QED
  BY <1>1, <1>3, <1>4, <1>5
  DEF CreateRig!Connects, CreateRig!Conversion, Connected

LEMMA ConnectRigInv ==
  ASSUME RigInv, CreateRig!Connect
  PROVE  RigInv'
<1>1. /\ rig_pc = "connect" /\ face' = face
      /\ \/ rig_i < 67 /\ rig_i' = rig_i + 1 /\ rig_pc' = "connect"
         \/ rig_i = 67 /\ rig_i' = 0 /\ rig_pc' = "command"
  BY LoopIs DEF RigInv, CreateRig!Connect
<1> DEFINE n == Node(face, rig_i)
<1>2. /\ translation' = CreateRig!ConnectAttr(translation, n, rig_i)
      /\ rotation' = CreateRig!ConnectAttr(rotation, n, rig_i)
      /\ UNCHANGED << joint, device, conversion >>
  BY DEF CreateRig!Connect, CreateRig!Rotated, CreateRig!Named, Node, Name
<1>3. /\ RigPlaces /\ NodesMade /\ ConversionsMade /\ Connected
      /\ rig_i \in Index /\ face \in device
  BY <1>1 DEF RigInv, RigPlaces
<1>4. ASSUME NEW f, f = face
      PROVE  Driven(f) = rig_i /\ Driven(f)' = rig_i + 1
  <2>1. Driven(f) = rig_i
    BY <1>1, <1>4 DEF Driven
  <2>2. CASE rig_i = 67
    <3>1. Driven(f)' = 68
      BY <1>1, <2>2 DEF Driven
    <3> QED
      BY <2>1, <2>2, <3>1
  <2>3. CASE rig_i < 67
    <3>1. rig_pc' = "connect" /\ rig_i' = rig_i + 1
      BY <1>1, <2>3
    <3>2. Driven(f)' = rig_i'
      BY <1>1, <1>4, <3>1 DEF Driven
    <3> QED
      BY <2>1, <3>1, <3>2
  <2> QED
    BY <1>1, <2>2, <2>3
<1>5. ASSUME NEW f, f # face
      PROVE  Driven(f) = 68 /\ Driven(f)' = 68
  BY <1>1, <1>5 DEF Driven
<1>6. n \notin DOMAIN translation
  BY DEF CreateRig!Connect, CreateRig!Connects, CreateRig!Named, Node, Name
<1>7. n = Node(face, rig_i)
  OBVIOUS
<1> HIDE DEF n
<1>8. /\ DOMAIN translation' = DOMAIN translation \cup {n}
      /\ translation'[n] = << face, rig_i >>
      /\ \A m \in DOMAIN translation : translation'[m] = translation[m]
  BY <1>2, <1>6 DEF CreateRig!ConnectAttr
<1>9. rotation' = translation'
  BY <1>2, <1>3 DEF Connected
<1>10. ASSUME NEW m \in DOMAIN translation'
       PROVE  \E f \in device : \E k \in 0 .. Driven(f)' - 1 :
                m = Node(f, k) /\ translation'[m] = << f, k >>
  <2>1. CASE m = n
    <3>1. PICK f \in device : f = face
      BY <1>3
    <3>2. rig_i \in 0 .. Driven(f)' - 1
      BY <1>3, <1>4, <3>1 DEF Index
    <3> QED
      BY <1>7, <1>8, <2>1, <3>1, <3>2
  <2>2. CASE m \in DOMAIN translation
    <3>1. PICK f \in device :
                 \E k \in 0 .. Driven(f) - 1 :
                   m = Node(f, k) /\ translation[m] = << f, k >>
      BY <1>3, <2>2 DEF Connected
    <3>2. CASE f = face
      <4>1. Driven(f) = rig_i /\ Driven(f)' = rig_i + 1
        BY <1>4, <3>2
      <4>2. 0 .. Driven(f) - 1 \subseteq 0 .. Driven(f)' - 1
        BY <1>3, <4>1 DEF Index
      <4> QED
        BY <1>8, <2>2, <3>1, <4>2
    <3>3. CASE f # face
      <4>1. Driven(f)' = Driven(f)
        BY <1>5, <3>3
      <4> QED
        BY <1>8, <2>2, <3>1, <4>1
    <3> QED
      BY <3>2, <3>3
  <2> QED
    BY <1>8, <2>1, <2>2
<1>11. ASSUME NEW f \in device, NEW k \in 0 .. Driven(f)' - 1
       PROVE  Node(f, k) \in DOMAIN translation'
              /\ translation'[Node(f, k)] = << f, k >>
  <2>1. CASE f = face /\ k = rig_i
    BY <1>7, <1>8, <2>1
  <2>2. CASE f = face /\ k # rig_i
    <3>1. Driven(f) = rig_i /\ Driven(f)' = rig_i + 1
      BY <1>4, <2>2
    <3>2. k \in 0 .. Driven(f) - 1
      BY <1>3, <2>2, <3>1 DEF Index
    <3> QED
      BY <1>3, <1>8, <3>2 DEF Connected
  <2>3. CASE f # face
    <3>1. k \in 0 .. Driven(f) - 1
      BY <1>5, <2>3
    <3> QED
      BY <1>3, <1>8, <3>1 DEF Connected
  <2> QED
    BY <2>1, <2>2, <2>3
<1>12. Connected'
  BY <1>2, <1>9, <1>10, <1>11 DEF Connected, Node
<1>13. RigPlaces'
  BY <1>1, <1>2, <1>3 DEF RigPlaces, Index
<1>14. NodesMade'
  BY <1>1, <1>2, <1>3 DEF NodesMade, Node
<1>15. ConversionsMade'
  BY <1>1, <1>2, <1>3 DEF ConversionsMade
<1> QED
  BY <1>12, <1>13, <1>14, <1>15 DEF RigInv

LEMMA CommandRigInv ==
  ASSUME RigInv, CreateRig!Command
  PROVE  RigInv'
<1>1. /\ rig_pc = "command" /\ rig_pc' = "idle"
      /\ UNCHANGED << face, rig_i, joint, device, conversion, translation,
                      rotation >>
  BY DEF CreateRig!Command
<1>2. RigPlaces /\ NodesMade /\ ConversionsMade /\ Connected
  BY DEF RigInv
<1>3. ASSUME NEW f \in device
      PROVE  Driven(f)' = Driven(f)
  BY <1>1 DEF Driven
<1>4. Connected'
  BY <1>1, <1>2, <1>3, ConnectedStays
<1>5. RigPlaces' /\ NodesMade' /\ ConversionsMade'
  BY <1>1, <1>2 DEF RigPlaces, NodesMade, ConversionsMade, Node
<1> QED
  BY <1>4, <1>5 DEF RigInv

LEMMA NextRigInv ==
  RigInv /\ [CreateRig!Next]_(CreateRig!vars) => RigInv'
<1> SUFFICES ASSUME RigInv, [CreateRig!Next]_(CreateRig!vars)
             PROVE  RigInv'
  OBVIOUS
<1>1. CASE UNCHANGED CreateRig!vars
  BY <1>1 DEF CreateRig!vars, RigInv, RigPlaces, NodesMade, ConversionsMade,
              Connected, Driven, Node
<1> QED
  BY <1>1, CallRigInv, CreateJointRigInv, CreateDeviceRigInv,
     CreateConversionRigInv, ConnectRigInv, CommandRigInv
  DEF CreateRig!Next

(* Which nodes follow a landmark of a finished rig.                        *)
LEMMA FollowIs ==
  ASSUME RigInv, rig_pc \in {"command", "idle"}, NEW f \in device,
         NEW k \in Index
  PROVE  CreateRig!Follow(translation, << f, k >>) =
           IF k = 0 THEN {n \in joint : n[1] = f}
           ELSE {<< f, CreateRig!Joint[k] >>}
<1> DEFINE s == << f, k >>
           F == CreateRig!Follow(translation, s)
<1>1. /\ Node(f, k) \in joint /\ Node(f, k) \in DOMAIN translation
      /\ translation[Node(f, k)] = s
  <2>1. \A g \in device : Driven(g) = 68
    BY DEF Driven
  <2> QED
    BY <2>1 DEF RigInv, NodesMade, Connected, Index
<1>2. ASSUME NEW m \in DOMAIN translation, translation[m] = s
      PROVE  m = Node(f, k)
  <2>1. PICK g \in device :
               \E l \in 0 .. Driven(g) - 1 :
                 m = Node(g, l) /\ translation[m] = << g, l >>
    BY DEF RigInv, Connected
  <2> QED
    BY <1>2, <2>1 DEF Node
<1>3. \A n : n \in F <=>
        n \in joint /\ (n = Node(f, k) \/ CreateRig!Parent(n) = Node(f, k))
  BY <1>1, <1>2 DEF CreateRig!Follow
<1>4. Node(f, 0) = << f, "Face" >>
  BY NamesAreJoints DEF Node
<1>5. CASE k = 0
  <2>1. \A n : CreateRig!Parent(n) = Node(f, k) <=> n[1] = f
    BY <1>4, <1>5 DEF CreateRig!Parent
  <2>2. Node(f, k)[1] = f
    BY DEF Node
  <2> HIDE DEF F
  <2>3. F = {n \in joint : n[1] = f}
    BY <1>3, <2>1, <2>2
  <2> QED
    BY <1>5, <2>3 DEF F
<1>6. CASE k # 0
  <2>1. k \in 1 .. 67
    BY <1>6 DEF Index
  <2>2. Node(f, k) = << f, CreateRig!Joint[k] >>
    BY <2>1, NamesAreJoints DEF Node
  <2>3. \A n : CreateRig!Parent(n) # Node(f, k)
    <3>1. Name[k + 1] # "Face"
      BY <2>1, NamesAreJoints, NamesDiffer
    <3> QED
      BY <3>1 DEF CreateRig!Parent, Node
  <2> HIDE DEF F
  <2>4. F = {Node(f, k)}
    BY <1>1, <1>3, <2>3
  <2> QED
    BY <1>6, <2>2, <2>4 DEF F
<1> QED
  BY <1>5, <1>6

(* createStringlessCap: the joints, the names connectNodes goes through    *)
(* and the unit conversions, three lists written out by hand, fit: in a    *)
(* finished rig landmark 0 moves and turns all of its face's nodes, and    *)
(* each of the 67 others one joint, for any number of faces.               *)
THEOREM RigLandmarks == CreateRig!Spec => []LandmarksDriveRig
<1>1. RigInv => LandmarksDriveRig
  <2> DEFINE led(f, k) == IF k = 0 THEN {n \in joint : n[1] = f}
                          ELSE {<< f, CreateRig!Joint[k] >>}
             Leads(f, k) == /\ << f, k >> \in conversion
                            /\ CreateRig!Follow(translation, << f, k >>) = led(f, k)
                            /\ CreateRig!Follow(rotation, << f, k >>) = led(f, k)
  <2>1. 0 .. CreateRig!Landmarks - 1 = Index
    BY DEF CreateRig!Landmarks, Index
  <2>2. LandmarksDriveRig =
          (rig_pc \in {"command", "idle"} =>
             \A f \in device, k \in 0 .. CreateRig!Landmarks - 1 : Leads(f, k))
    BY Zenon DEF LandmarksDriveRig, CreateRig!LandmarksDriveRig, CreateRig!Done
  <2> HIDE DEF Leads
  <2> SUFFICES ASSUME RigInv, rig_pc \in {"command", "idle"},
                      NEW f \in device, NEW k \in Index
               PROVE  Leads(f, k)
    BY <2>1, <2>2
  <2>3. << f, k >> \in conversion /\ rotation = translation
    BY DEF RigInv, ConversionsMade, Connected
  <2> QED
    BY <2>3, FollowIs DEF Leads
<1> QED
  BY <1>1, InitRigInv, NextRigInv, PTL DEF CreateRig!Spec

(* createStringlessCap comes to its end: the nodes connectNodes asks for   *)
(* are there when it does, and nothing drives them yet.                    *)
THEOREM RigComplete ==
  CreateRig!Spec => [](rig_pc = "connect" => CreateRig!Connects)
<1>1. RigInv => (rig_pc = "connect" => CreateRig!Connects)
  BY RigConnects
<1> QED
  BY <1>1, InitRigInv, NextRigInv, PTL DEF CreateRig!Spec

-----------------------------------------------------------------------------
(* The two scripts side by side.                                           *)

(* A step of the model is a step of a script, and the other stands still.  *)
LEMMA MayaParts == MayaSpec => Spec /\ CreateRig!Spec
<1>1. MayaInit => Init /\ CreateRig!Init
  BY DEF MayaInit
<1>2. [RigNext \/ CalibrationNext \/ Stop]_all =>
        [Next]_vars /\ [CreateRig!Next]_(CreateRig!vars)
  BY DEF RigNext, CalibrationNext, Stop, all, rigVars, CreateRig!vars, vars
<1> QED
  BY <1>1, <1>2, PTL DEF MayaSpec, Spec, CreateRig!Spec

(* So what is proved of the scripts holds of the model, for any numbers of *)
(* faces, landmarks and records.                                           *)
THEOREM MayaSafe ==
  MayaSpec =>
    /\ [](LiveOnlyCalibrated /\ NeutralInOrder /\ LandmarksDriveRig)
    /\ AnchoredToWholeNeutral
    /\ []NeverSpins /\ Advances
BY MayaParts, CalibratedFirst, CalibrationInOrder, AnchoredWhole,
   CalibrationAdvances, RigLandmarks, PTL

=============================================================================
