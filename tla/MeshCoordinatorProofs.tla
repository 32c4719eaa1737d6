------------------------ MODULE MeshCoordinatorProofs ------------------------
(* What the coordinator's lock guarantees for any number of peers, handlers *)
(* and reports: the types, the consistency of a room's maps, and the shape  *)
(* of its history; and what a room whose plans do not overlap promises.     *)
EXTENDS MCMeshCoordinator, SequenceTheorems, TLAPS

(* What appendHistory keeps is a suffix of what it was given.               *)
LEMMA LastPointsIsSuffix ==
  ASSUME NEW S, NEW s \in Seq(S)
  PROVE  /\ LastPoints(s) \in Seq(S)
         /\ Len(LastPoints(s)) <= MaxHistory
         /\ s # <<>> => LastPoints(s) # <<>>
         /\ s # <<>> => LastPoints(s)[Len(LastPoints(s))] = s[Len(s)]
         /\ \E k \in Nat : \A i \in 1..Len(LastPoints(s)) :
               i + k \in 1..Len(s) /\ LastPoints(s)[i] = s[i + k]
<1>0. MaxHistory \in Nat \ {0} /\ Len(s) \in Nat
  BY CoordinatorAssumption, LenProperties
<1>1. CASE Len(s) > MaxHistory
  <2> DEFINE k == Len(s) - MaxHistory
             t == SubSeq(s, k + 1, Len(s))
  <2>1. LastPoints(s) = t
    BY <1>1 DEF LastPoints
  <2>2. k \in Nat /\ k + 1 \in 1..Len(s) + 1 /\ Len(s) \in 0..Len(s)
    BY <1>0, <1>1
  <2>3. /\ t \in Seq(S)
        /\ Len(t) = MaxHistory
        /\ \A i \in 1..Len(t) : t[i] = s[k + i]
    BY <2>2, <1>0, <1>1, SubSeqProperties
  <2>4. \A i \in 1..Len(t) : i + k \in 1..Len(s) /\ t[i] = s[i + k]
    BY <2>2, <2>3, <1>0
  <2>5. t # <<>>
    BY <2>3, <1>0, EmptySeq
  <2>6. t[Len(t)] = s[Len(s)]
    BY <2>3, <1>0
  <2>7. \E j \in Nat : \A i \in 1..Len(t) : i + j \in 1..Len(s) /\ t[i] = s[i + j]
    BY <2>2, <2>4
  <2>8. t \in Seq(S) /\ Len(t) <= MaxHistory
    BY <2>3, <1>0
  <2> HIDE DEF t
  <2>9. QED
    BY <2>1, <2>5, <2>6, <2>7, <2>8
<1>2. CASE ~(Len(s) > MaxHistory)
  <2>1. LastPoints(s) = s
    BY <1>2 DEF LastPoints
  <2>2. \A i \in 1..Len(s) : i + 0 \in 1..Len(s) /\ s[i] = s[i + 0]
    BY <1>0
  <2>3. QED
    BY <2>1, <2>2, <1>2, <1>0
<1>3. QED
  BY <1>1, <1>2

(* The inductive invariant.  The roster must be known to be consistent for  *)
(* a report to keep it so, and the recorded generations to be bounded by    *)
(* the room's for a new point to come after them.                           *)
IInv == TypeOK /\ RosterConsistent /\ HistoryOnePerReport

LEMMA EmptyRoomIInv ==
  ASSUME EmptyRoom, exists' \in BOOLEAN, enabled' \in BOOLEAN,
         pc' \in [Handlers -> {"idle", "plan", "decide", "append", "hook"}],
         snap' \in [Handlers -> Snapshot], env' \in [Handlers -> Envelope],
         published' \in Envelope, crashed' \in SUBSET Peers
  PROVE  IInv'
<1>1. TypeOK'
  <2>1. 0 \in Stamp /\ 0 \in 0..StaleAfter + 1
    BY CoordinatorAssumption DEF Stamp
  <2>2. <<>> \in Seq(HistoryPoint)
    OBVIOUS
  <2>3. QED
    BY <2>1, <2>2 DEF EmptyRoom, TypeOK
<1>2. RosterConsistent'
  BY DEF EmptyRoom, RosterConsistent, Members
<1>3. HistoryOnePerReport'
  BY CoordinatorAssumption DEF EmptyRoom, HistoryOnePerReport
<1>4. QED
  BY <1>1, <1>2, <1>3 DEF IInv

(* The conjuncts about history survive every step that leaves the recorded  *)
(* generations alone and does not lower the room's.                         *)
LEMMA HistoryKept ==
  ASSUME TypeOK, HistoryOnePerReport, generation' \in Nat, generation <= generation',
         UNCHANGED <<lastHistoryGen, history>>
  PROVE  HistoryOnePerReport'
BY DEF TypeOK, Stamp, HistoryOnePerReport

LEMMA ReportIInv ==
  ASSUME IInv, NEW p \in Peers, Report(p), enabled' \in BOOLEAN,
         pc' \in [Handlers -> {"idle", "plan", "decide", "append", "hook"}],
         snap' \in [Handlers -> Snapshot], env' \in [Handlers -> Envelope],
         published' \in Envelope, crashed' \in SUBSET Peers
  PROVE  IInv'
<1> USE DEF IInv
<1>1. generation + 1 \in Stamp /\ generation \in Stamp /\ generation + 1 > 0
  BY CoordinatorAssumption DEF Report, TypeOK, Stamp
<1>2. TypeOK'
  BY <1>1, CoordinatorAssumption DEF Report, TypeOK
<1>3. RosterConsistent'
  <2>1. \A q \in Peers : reports'[q] = IF q = p THEN generation + 1 ELSE reports[q]
    BY DEF Report, TypeOK
  <2>2. \A q \in Peers :
          seat'[q] = IF q = p /\ reports[p] = 0 THEN generation + 1 ELSE seat[q]
    BY DEF Report, TypeOK
  <2>3. \A q \in Peers : reports[q] \in Nat /\ seat[q] \in Nat /\ reports[q] <= generation
    BY DEF TypeOK, Stamp, RosterConsistent
  <2>4. exists' = TRUE /\ generation' = generation + 1 /\ generation \in Nat
    BY <1>1 DEF Report, Stamp
  <2>5. \A q \in Peers : (seat'[q] = 0 <=> reports'[q] = 0) /\ seat'[q] <= reports'[q]
    BY <2>1, <2>2, <2>3, <2>4 DEF RosterConsistent
  <2>6. \A q \in Peers : reports'[q] <= generation'
    BY <2>1, <2>3, <2>4
  <2>7. \A q, r \in Peers : q # r /\ reports'[q] # 0 => reports'[q] # reports'[r]
    BY <2>1, <2>3, <2>4 DEF RosterConsistent
  <2>8. p \in Members'
    BY <2>1, <2>4, <2>5 DEF Members
  <2>9. QED
    BY <2>4, <2>5, <2>6, <2>7, <2>8 DEF RosterConsistent
<1>4. HistoryOnePerReport'
  BY <1>1, HistoryKept DEF Report, Stamp
<1>5. QED
  BY <1>2, <1>3, <1>4

(* Evicting silent peers one way or the other keeps the room consistent.    *)
LEMMA PruneIInv ==
  ASSUME IInv, exists, Prune, enabled' \in BOOLEAN,
         pc' \in [Handlers -> {"idle", "plan", "decide", "append", "hook"}],
         snap' \in [Handlers -> Snapshot], env' \in [Handlers -> Envelope],
         published' \in Envelope, crashed' \in SUBSET Peers
  PROVE  IInv'
<1> USE DEF IInv
<1>1. CASE Fresh = {}
  BY <1>1, EmptyRoomIInv DEF Prune, DeleteRoom
<1>2. CASE Fresh # {}
  <2>1. /\ reports' = [q \in Peers |-> IF q \in Members \ Fresh THEN 0 ELSE reports[q]]
        /\ age' = [q \in Peers |-> IF q \in Members \ Fresh THEN 0 ELSE age[q]]
        /\ seat' = [q \in Peers |-> IF reports'[q] = 0 THEN 0 ELSE seat[q]]
        /\ UNCHANGED <<exists, generation, lastHistoryGen, history, engaged>>
    BY <1>2 DEF Prune
  <2>2. TypeOK'
    BY <2>1, CoordinatorAssumption DEF TypeOK, Stamp
  <2>3. PICK f \in Peers : f \in Fresh
    BY <1>2 DEF Fresh, Members
  <2>4. f \in Members'
    <3>1. seat[f] # 0 /\ reports[f] # 0
      BY <2>3 DEF Fresh, Members, RosterConsistent
    <3>2. reports'[f] = reports[f] /\ seat'[f] = seat[f]
      BY <2>1, <2>3, <3>1
    <3>3. QED
      BY <3>1, <3>2 DEF Members
  <2>5. RosterConsistent'
    <3>1. \A q \in Peers : /\ reports'[q] \in {0, reports[q]}
                           /\ seat'[q] = IF reports'[q] = 0 THEN 0 ELSE seat[q]
      BY <2>1
    <3>2. \A q \in Peers : seat[q] \in Nat /\ reports[q] \in Nat /\ generation \in Nat
      BY DEF TypeOK, Stamp
    <3>3. \A q \in Peers : (seat'[q] = 0 <=> reports'[q] = 0) /\ seat'[q] <= reports'[q]
      BY <3>1, <3>2 DEF RosterConsistent
    <3>4. \A q \in Peers : reports'[q] <= generation'
      BY <2>1, <3>1, <3>2 DEF RosterConsistent
    <3>5. \A q, r \in Peers : q # r /\ reports'[q] # 0 => reports'[q] # reports'[r]
      BY <3>1, <3>2 DEF RosterConsistent
    <3>6. exists'
      BY <2>1
    <3>7. QED
      BY <3>3, <3>4, <3>5, <3>6, <2>4 DEF RosterConsistent
  <2>6. HistoryOnePerReport'
    BY <2>1, HistoryKept DEF TypeOK, Stamp
  <2>7. QED
    BY <2>2, <2>5, <2>6
<1>3. QED
  BY <1>1, <1>2

LEMMA RemoveIInv ==
  ASSUME IInv, NEW p \in Peers, Remove(p)
  PROVE  IInv'
<1> USE DEF IInv
<1>0. /\ enabled' \in BOOLEAN /\ published' \in Envelope /\ crashed' \in SUBSET Peers
      /\ pc' \in [Handlers -> {"idle", "plan", "decide", "append", "hook"}]
      /\ snap' \in [Handlers -> Snapshot] /\ env' \in [Handlers -> Envelope]
  BY DEF Remove, TypeOK, handlerVars
<1>1. CASE Members \subseteq {p}
  BY <1>0, <1>1, EmptyRoomIInv DEF Remove, DeleteRoom
<1>2. CASE ~(Members \subseteq {p})
  <2>1. /\ reports' = [reports EXCEPT ![p] = 0]
        /\ seat' = [seat EXCEPT ![p] = 0]
        /\ exists
        /\ UNCHANGED <<exists, age, generation, lastHistoryGen, history, engaged>>
    BY <1>2 DEF Remove
  <2>2. TypeOK'
    BY <1>0, <2>1, CoordinatorAssumption DEF TypeOK, Stamp
  <2>3. PICK q \in Peers : q # p /\ seat[q] # 0
    BY <1>2 DEF Members
  <2>4. q \in Members'
    BY <2>1, <2>3 DEF Members, TypeOK
  <2>5. RosterConsistent'
    <3>1. \A r \in Peers : /\ reports'[r] = IF r = p THEN 0 ELSE reports[r]
                           /\ seat'[r] = IF r = p THEN 0 ELSE seat[r]
      BY <2>1 DEF TypeOK
    <3>2. \A r \in Peers : reports[r] \in Nat /\ seat[r] \in Nat /\ generation \in Nat
      BY DEF TypeOK, Stamp
    <3>3. \A r \in Peers : (seat'[r] = 0 <=> reports'[r] = 0) /\ seat'[r] <= reports'[r]
      BY <3>1, <3>2 DEF RosterConsistent
    <3>4. \A r \in Peers : reports'[r] <= generation'
      BY <2>1, <3>1, <3>2 DEF RosterConsistent
    <3>5. \A r, t \in Peers : r # t /\ reports'[r] # 0 => reports'[r] # reports'[t]
      BY <3>1, <3>2 DEF RosterConsistent
    <3>6. QED
      BY <2>1, <3>3, <3>4, <3>5, <2>4 DEF RosterConsistent
  <2>6. HistoryOnePerReport'
    BY <2>1, HistoryKept DEF TypeOK, Stamp
  <2>7. QED
    BY <2>2, <2>5, <2>6
<1>3. QED
  BY <1>1, <1>2

(* A step that touches nothing of the room keeps what is known of it.       *)
LEMMA RoomUntouchedIInv ==
  ASSUME IInv, UNCHANGED <<exists, seat, reports, generation, lastHistoryGen, history>>,
         age' \in [Peers -> 0..StaleAfter + 1], engaged' \in BOOLEAN, engaged' => exists,
         enabled' \in BOOLEAN,
         pc' \in [Handlers -> {"idle", "plan", "decide", "append", "hook"}],
         snap' \in [Handlers -> Snapshot], env' \in [Handlers -> Envelope],
         published' \in Envelope, crashed' \in SUBSET Peers
  PROVE  IInv'
<1>1. TypeOK'
  BY DEF IInv, TypeOK
<1>2. RosterConsistent'
  BY DEF IInv, RosterConsistent, Members
<1>3. HistoryOnePerReport'
  BY DEF IInv, HistoryOnePerReport
<1>4. QED
  BY <1>1, <1>2, <1>3 DEF IInv

LEMMA EnvelopeTypes ==
  ASSUME NEW s \in Snapshot, NEW server \in BOOLEAN
  PROVE  BuildPlanFor(s, server) \in Envelope
<1>1. NoEnvelope \in Envelope
  BY CoordinatorAssumption DEF NoEnvelope, Envelope, Stamp
<1>2. [built |-> TRUE, order |-> s.order, server |-> server, gen |-> s.gen] \in Envelope
  BY DEF Envelope, Snapshot
<1>3. QED
  BY <1>1, <1>2 DEF BuildPlanFor

LEMMA NoSnapshotTypes == NoSnapshot \in Snapshot
BY CoordinatorAssumption DEF NoSnapshot, Snapshot, Stamp

LEMMA PlanBeginIInv ==
  ASSUME IInv, NEW h \in Handlers, PlanBegin(h)
  PROVE  IInv'
<1>1. exists' \in BOOLEAN /\ seat' \in [Peers -> Stamp] /\ reports' \in [Peers -> Stamp]
  <2>1. 0 \in Stamp
    BY CoordinatorAssumption DEF Stamp
  <2>2. CASE ~exists
    BY <2>2 DEF PlanBegin, roomVars, IInv, TypeOK
  <2>3. CASE exists /\ Fresh = {}
    BY <2>1, <2>3 DEF PlanBegin, Prune, DeleteRoom, EmptyRoom
  <2>4. CASE exists /\ Fresh # {}
    BY <2>1, <2>4 DEF PlanBegin, Prune, IInv, TypeOK
  <2>5. QED
    BY <2>2, <2>3, <2>4 DEF IInv, TypeOK
<1>2. snap' \in [Handlers -> Snapshot]
  <2>1. [order |-> {p \in Peers : seat'[p] # 0}, reports |-> reports',
         gen |-> generation, enabled |-> enabled, wasEngaged |-> engaged] \in Snapshot
    BY <1>1 DEF Snapshot, IInv, TypeOK
  <2>2. QED
    BY <2>1 DEF PlanBegin, IInv, TypeOK
<1>3. /\ pc' \in [Handlers -> {"idle", "plan", "decide", "append", "hook"}]
      /\ env' \in [Handlers -> Envelope] /\ enabled' \in BOOLEAN
      /\ published' \in Envelope /\ crashed' \in SUBSET Peers
  BY DEF PlanBegin, IInv, TypeOK
<1>4. CASE exists
  BY <1>2, <1>3, <1>4, PruneIInv DEF PlanBegin
<1>5. CASE ~exists
  <2>1. UNCHANGED roomVars
    BY <1>5 DEF PlanBegin
  <2>2. QED
    BY <1>2, <1>3, <1>5, <2>1, RoomUntouchedIInv DEF roomVars, IInv, TypeOK, RosterConsistent
<1>6. QED
  BY <1>4, <1>5 DEF IInv, TypeOK

LEMMA PlanDecideIInv ==
  ASSUME IInv, NEW h \in Handlers, PlanDecide(h)
  PROVE  IInv'
<1>1. PICK util \in Util :
        /\ env' = [env EXCEPT ![h] = IF Inject(snap[h], util)
                                       THEN BuildPlanFor(snap[h], TRUE)
                                       ELSE BuildPlanFor(snap[h], FALSE)]
        /\ SetServerEngaged(Inject(snap[h], util))
        /\ pc' = [pc EXCEPT ![h] = IF BuildPlanFor(snap[h], FALSE).built
                                     THEN "append" ELSE "hook"]
  BY DEF PlanDecide
<1>2. snap[h] \in Snapshot
  BY DEF IInv, TypeOK
<1>3. env' \in [Handlers -> Envelope]
  <2>1. BuildPlanFor(snap[h], TRUE) \in Envelope /\ BuildPlanFor(snap[h], FALSE) \in Envelope
    BY <1>2, EnvelopeTypes
  <2> HIDE DEF BuildPlanFor
  <2>2. QED
    BY <1>1, <2>1 DEF IInv, TypeOK
<1>4. engaged' \in BOOLEAN /\ (engaged' => exists)
  BY <1>1 DEF SetServerEngaged
<1>5. pc' \in [Handlers -> {"idle", "plan", "decide", "append", "hook"}]
  BY <1>1 DEF IInv, TypeOK
<1>6. snap' \in [Handlers -> Snapshot]
  BY NoSnapshotTypes DEF PlanDecide, IInv, TypeOK
<1>7. QED
  BY <1>3, <1>4, <1>5, <1>6, RoomUntouchedIInv DEF PlanDecide, IInv, TypeOK

LEMMA PlanAppendIInv ==
  ASSUME IInv, NEW h \in Handlers, PlanAppend(h)
  PROVE  IInv'
<1> USE DEF IInv
<1>0. /\ pc' \in [Handlers -> {"idle", "plan", "decide", "append", "hook"}]
      /\ UNCHANGED <<exists, seat, reports, age, generation, engaged,
                     enabled, snap, env, published, crashed>>
  BY DEF PlanAppend, TypeOK
<1>1. CASE ~exists \/ generation = lastHistoryGen
  BY <1>0, <1>1, RoomUntouchedIInv DEF PlanAppend, TypeOK, RosterConsistent
<1>2. CASE exists /\ generation # lastHistoryGen
  <2> DEFINE point == [at |-> generation, gen |-> env[h].gen, server |-> env[h].server]
             longer == Append(history, point)
  <2>1. lastHistoryGen' = generation /\ history' = LastPoints(longer)
    BY <1>2 DEF PlanAppend
  <2>2. point \in HistoryPoint /\ history \in Seq(HistoryPoint)
    BY DEF HistoryPoint, TypeOK, Envelope
  <2>3. /\ longer \in Seq(HistoryPoint) /\ Len(longer) = Len(history) + 1
        /\ \A i \in 1..Len(history) : longer[i] = history[i]
        /\ longer[Len(longer)] = point /\ longer # <<>> /\ Len(history) \in Nat
    BY <2>2, AppendProperties, LenProperties
  <2>4. generation \in Nat /\ lastHistoryGen \in Nat /\ lastHistoryGen < generation
    BY <1>2 DEF TypeOK, Stamp, HistoryOnePerReport
  <2>5. \A i \in 1..Len(history) : history[i].at < generation
    <3>1. \A i \in 1..Len(history) : history[i].at \in Nat
      <4>1. \A i \in 1..Len(history) : history[i] \in HistoryPoint
        BY <2>2, ElementOfSeq
      <4>2. QED
        BY <4>1 DEF HistoryPoint, Stamp
    <3>2. SUFFICES ASSUME NEW i \in 1..Len(history)
                   PROVE  history[i].at <= lastHistoryGen
      BY <2>4, <3>1
    <3>3. history # <<>> /\ Len(history) \in 1..Len(history)
      BY <2>2, <2>3, EmptySeq
    <3>4. history[Len(history)].at = lastHistoryGen
      BY <3>3 DEF HistoryOnePerReport
    <3>5. CASE i = Len(history)
      BY <3>4, <3>5, <2>4
    <3>6. CASE i # Len(history)
      BY <3>1, <3>3, <3>4, <3>6, <2>3, <2>4 DEF HistoryOnePerReport
    <3>7. QED
      BY <3>5, <3>6
  <2>6. \A i, j \in 1..Len(longer) : i < j => longer[i].at < longer[j].at
    <3> SUFFICES ASSUME NEW i \in 1..Len(longer), NEW j \in 1..Len(longer), i < j
                 PROVE  longer[i].at < longer[j].at
      OBVIOUS
    <3>1. i \in 1..Len(history) /\ longer[i] = history[i]
      BY <2>3
    <3>2. CASE j = Len(longer)
      BY <2>3, <2>5, <3>1, <3>2
    <3>3. CASE j # Len(longer)
      BY <2>3, <3>1, <3>3 DEF HistoryOnePerReport
    <3>4. QED
      BY <3>2, <3>3
  <2> HIDE DEF longer
  <2>7. /\ history' \in Seq(HistoryPoint)
        /\ Len(history') <= MaxHistory
        /\ history'[Len(history')] = point
    BY <2>1, <2>3, LastPointsIsSuffix
  <2>8. PICK k \in Nat : \A i \in 1..Len(history') :
                            i + k \in 1..Len(longer) /\ history'[i] = longer[i + k]
    BY <2>1, <2>3, LastPointsIsSuffix
  <2>9. \A i, j \in 1..Len(history') : i < j => history'[i].at < history'[j].at
    BY <2>6, <2>7, <2>8
  <2>10. HistoryOnePerReport'
    BY <1>0, <2>1, <2>4, <2>7, <2>9 DEF HistoryOnePerReport
  <2>11. TypeOK'
    BY <1>0, <2>1, <2>7 DEF TypeOK
  <2>12. RosterConsistent'
    BY <1>0, <1>2 DEF RosterConsistent, Members
  <2>13. QED
    BY <2>10, <2>11, <2>12
<1>3. QED
  BY <1>1, <1>2

LEMMA InitIInv == Init => IInv
<1>1. 0 \in Stamp /\ 0 \in 0..StaleAfter + 1 /\ NoEnvelope \in Envelope
  BY CoordinatorAssumption DEF Stamp, NoEnvelope, Envelope
<1>2. Init => TypeOK
  <2>1. <<>> \in Seq(HistoryPoint)
    OBVIOUS
  <2>2. QED
    BY <1>1, <2>1, NoSnapshotTypes DEF Init, TypeOK
<1>3. Init => RosterConsistent
  BY DEF Init, RosterConsistent, Members
<1>4. Init => HistoryOnePerReport
  BY CoordinatorAssumption DEF Init, HistoryOnePerReport
<1>5. QED
  BY <1>2, <1>3, <1>4 DEF IInv

LEMMA StepIInv == IInv /\ [Next]_vars => IInv'
<1> SUFFICES ASSUME IInv, [Next]_vars
             PROVE  IInv'
  OBVIOUS
<1> USE DEF handlerVars, roomVars
<1>0. NoEnvelope \in Envelope
  BY CoordinatorAssumption DEF Stamp, NoEnvelope, Envelope
<1>1. ASSUME NEW h \in Handlers, NEW p \in Peers, ReportLink(h, p)
      PROVE  IInv'
  BY <1>1, ReportIInv DEF ReportLink, IInv, TypeOK
<1>2. ASSUME NEW p \in Peers, Remove(p)
      PROVE  IInv'
  BY <1>2, RemoveIInv
<1>3. CASE ReportServerLink
  BY <1>3, EmptyRoomIInv DEF ReportServerLink, IInv, TypeOK
<1>4. CASE SetServerRelayEnabled
  BY <1>4, RoomUntouchedIInv DEF SetServerRelayEnabled, IInv, TypeOK, RosterConsistent
<1>5. ASSUME NEW h \in Handlers, GetPlan(h) \/ AdminPlan(h)
      PROVE  IInv'
  BY <1>5, PlanBeginIInv DEF GetPlan, AdminPlan
<1>6. ASSUME NEW h \in Handlers, PlanDecide(h)
      PROVE  IInv'
  BY <1>6, PlanDecideIInv
<1>7. ASSUME NEW h \in Handlers, PlanAppend(h)
      PROVE  IInv'
  BY <1>7, PlanAppendIInv
<1>8. ASSUME NEW h \in Handlers, PlanHook(h)
      PROVE  IInv'
  BY <1>0, <1>8, RoomUntouchedIInv DEF PlanHook, IInv, TypeOK, RosterConsistent
<1>9. CASE Tick
  <2>1. age' \in [Peers -> 0..StaleAfter + 1]
    BY <1>9, CoordinatorAssumption DEF Tick, Fresh, IInv, TypeOK
  <2>2. QED
    BY <1>9, <2>1, RoomUntouchedIInv DEF Tick, IInv, TypeOK, RosterConsistent
<1>10. ASSUME NEW p \in Peers, Crash(p)
       PROVE  IInv'
  BY <1>10, RoomUntouchedIInv DEF Crash, IInv, TypeOK, RosterConsistent
<1>11. CASE UNCHANGED vars
  BY <1>11, RoomUntouchedIInv DEF vars, IInv, TypeOK, RosterConsistent
<1>12. QED
  BY <1>1, <1>2, <1>3, <1>4, <1>5, <1>6, <1>7, <1>8, <1>9, <1>10, <1>11 DEF Next

(* Every behaviour of the coordinator satisfies the inductive invariant.    *)
THEOREM CoordinatorInvariant == Spec => []IInv
BY InitIInv, StepIInv, PTL DEF Spec

(* Type correctness of the coordinator.                                     *)
THEOREM CoordinatorTypes == Spec => []TypeOK
<1>1. IInv => TypeOK
  BY DEF IInv
<1>2. QED
  BY <1>1, CoordinatorInvariant, PTL

(* A room's ordering and its reports always name the same peers, and no     *)
(* emptied room stays in the map, for any number of peers and handlers.     *)
THEOREM CoordinatorRoster == Spec => []RosterConsistent
<1>1. IInv => RosterConsistent
  BY DEF IInv
<1>2. QED
  BY <1>1, CoordinatorInvariant, PTL

(* However many calls of Plan overlap, a room's history holds at most       *)
(* maxHistoryPoints plans, each recorded at a later report than the last.   *)
THEOREM CoordinatorHistory == Spec => []HistoryOnePerReport
<1>1. IInv => HistoryOnePerReport
  BY DEF IInv
<1>2. QED
  BY <1>1, CoordinatorInvariant, PTL

(* Peers that stay keep their relative order in every step.                 *)
THEOREM CoordinatorOrder == Spec => OrderStable
<1> DEFINE Kept == \A p, q \in Members :
         seat[p] < seat[q] /\ seat'[p] # 0 /\ seat'[q] # 0 => seat'[p] < seat'[q]
<1>1. IInv /\ [Next]_vars => [Kept]_vars
  <2> SUFFICES ASSUME IInv, Next, NEW p \in Members, NEW q \in Members,
                      seat[p] < seat[q], seat'[p] # 0, seat'[q] # 0
               PROVE  seat'[p] < seat'[q]
    OBVIOUS
  <2>0. p \in Peers /\ q \in Peers /\ seat[p] # 0 /\ seat[q] # 0
    BY DEF Members
  <2>1. SUFFICES seat'[p] = seat[p] /\ seat'[q] = seat[q]
    OBVIOUS
  <2>2. ASSUME NEW h \in Handlers, NEW r \in Peers, ReportLink(h, r)
        PROVE  seat'[p] = seat[p] /\ seat'[q] = seat[q]
    <3>1. reports[p] # 0 /\ reports[q] # 0
      BY <2>0 DEF IInv, RosterConsistent
    <3>2. QED
      BY <2>0, <2>2, <3>1 DEF ReportLink, Report, IInv, TypeOK
  <2>3. ASSUME EmptyRoom
        PROVE  FALSE
    BY <2>0, <2>3 DEF EmptyRoom
  <2>4. ASSUME NEW r \in Peers, Remove(r)
        PROVE  seat'[p] = seat[p] /\ seat'[q] = seat[q]
    BY <2>0, <2>3, <2>4 DEF Remove, DeleteRoom, IInv, TypeOK
  <2>5. ASSUME NEW h \in Handlers, PlanBegin(h)
        PROVE  seat'[p] = seat[p] /\ seat'[q] = seat[q]
    BY <2>0, <2>3, <2>5 DEF PlanBegin, Prune, DeleteRoom, roomVars
  <2>6. CASE UNCHANGED seat
    BY <2>6
  <2>7. QED
    BY <2>2, <2>3, <2>4, <2>5, <2>6 DEF Next, GetPlan, AdminPlan, ReportServerLink,
       SetServerRelayEnabled, PlanDecide, PlanAppend, PlanHook, Tick, Crash, roomVars
<1>2. QED
  BY <1>1, CoordinatorInvariant, PTL DEF Spec, OrderStable

-----------------------------------------------------------------------------
(* One handler.  What CalmPlansInOrder says between calls of Plan rests on  *)
(* what the handler carries during one: as long as the room has a report    *)
(* its copy, and then its envelope, are of the latest, since nobody else    *)
(* reports meanwhile, and a room that was deleted under it and made again   *)
(* has none.                                                                *)
Stages ==
  /\ \A h \in Handlers : h # TheHandler => pc[h] = "idle"
  /\ \A h \in Handlers : exists /\ generation > 0 =>
       /\ pc[h] = "decide" => snap[h].gen = generation
       /\ pc[h] = "append" => env[h].gen = generation
       /\ pc[h] \in {"append", "hook"} =>
            engaged = env[h].server /\ (env[h].built => env[h].gen = generation)

CalmInv == calm => Stages /\ EngagedIsPublished /\ PublishedIsLatest /\ TimelineTruthful

(* The room is another, or none, or has the reports it had.                 *)
LEMMA SameReports ==
  ASSUME IInv, CalmInv, calm, UNCHANGED <<pc, snap, env, published, calm>>,
         \/ UNCHANGED <<exists, generation, engaged, history>>
         \/ generation' = 0 /\ history' = <<>>
  PROVE  CalmInv'
<1>1. generation \in Nat /\ generation' \in Nat
  BY CoordinatorAssumption DEF IInv, TypeOK, Stamp
<1>2. Stages'
  BY <1>1 DEF CalmInv, Stages
<1>3. EngagedIsPublished' /\ PublishedIsLatest'
  BY <1>1 DEF CalmInv, EngagedIsPublished, PublishedIsLatest, Quiet
<1>4. TimelineTruthful'
  <2>1. Len(<<>>) = 0
    OBVIOUS
  <2>2. QED
    BY <2>1 DEF CalmInv, TimelineTruthful
<1>5. QED
  BY <1>2, <1>3, <1>4 DEF CalmInv

LEMMA CalmPlanBegin ==
  ASSUME IInv, CalmInv, calm, calm' = calm, PlanBegin(TheHandler), TheHandler \in Handlers
  PROVE  CalmInv'
<1> DEFINE t == TheHandler
<1>1. /\ generation \in Nat /\ pc \in [Handlers -> {"idle", "plan", "decide", "append", "hook"}]
      /\ snap \in [Handlers -> Snapshot] /\ env \in [Handlers -> Envelope] /\ exists \in BOOLEAN
      /\ ~exists => generation = 0
  BY CoordinatorAssumption DEF IInv, TypeOK, Stamp, RosterConsistent
<1>2. /\ UNCHANGED <<env, published>>
      /\ \/ exists' = exists /\ UNCHANGED <<generation, engaged, history>>
         \/ ~exists' /\ generation' = 0 /\ history' = <<>>
  BY DEF PlanBegin, Prune, DeleteRoom, EmptyRoom, roomVars
<1>3. /\ exists' => pc' = [pc EXCEPT ![t] = "decide"] /\ snap'[t].gen = generation
      /\ ~exists' => pc' = [pc EXCEPT ![t] = "hook"]
  <2>1. exists' => snap' = [snap EXCEPT ![t] =
          [order |-> {p \in Peers : seat'[p] # 0}, reports |-> reports',
           gen |-> generation, enabled |-> enabled, wasEngaged |-> engaged]]
    BY DEF PlanBegin
  <2>2. exists' => snap'[t].gen = generation
    BY <1>1, <2>1
  <2>3. QED
    BY <2>2 DEF PlanBegin
<1>4. \A h \in Handlers : h # t => pc'[h] = pc[h] /\ pc[h] = "idle"
  BY <1>1, <1>3 DEF CalmInv, Stages
<1>5. pc'[t] = (IF exists' THEN "decide" ELSE "hook")
  BY <1>1, <1>3
<1>6. Stages'
  BY <1>2, <1>3, <1>4, <1>5 DEF Stages
<1>7. ~Quiet'
  BY <1>5 DEF Quiet
<1>8. TimelineTruthful'
  <2>1. Len(<<>>) = 0
    OBVIOUS
  <2>2. QED
    BY <1>2, <2>1 DEF CalmInv, TimelineTruthful
<1>9. QED
  BY <1>6, <1>7, <1>8 DEF CalmInv, EngagedIsPublished, PublishedIsLatest

LEMMA CalmPlanDecide ==
  ASSUME IInv, CalmInv, calm, calm' = calm, PlanDecide(TheHandler), TheHandler \in Handlers
  PROVE  CalmInv'
<1> DEFINE t == TheHandler
           s == snap[t]
<1>1. /\ generation \in Nat /\ pc \in [Handlers -> {"idle", "plan", "decide", "append", "hook"}]
      /\ env \in [Handlers -> Envelope] /\ exists \in BOOLEAN
  BY CoordinatorAssumption DEF IInv, TypeOK, Stamp
<1>2. PICK util \in Util :
        /\ env' = [env EXCEPT ![t] = IF Inject(s, util) THEN BuildPlanFor(s, TRUE) ELSE BuildPlanFor(s, FALSE)]
        /\ SetServerEngaged(Inject(s, util))
        /\ pc' = [pc EXCEPT ![t] = IF BuildPlanFor(s, FALSE).built THEN "append" ELSE "hook"]
  BY DEF PlanDecide
<1>3. pc[t] = "decide" /\ UNCHANGED <<exists, generation, history, published>>
  BY DEF PlanDecide
<1>4. exists /\ generation > 0 => s.gen = generation
  BY <1>3 DEF CalmInv, Stages
<1>5. /\ env'[t] = IF Inject(s, util) THEN BuildPlanFor(s, TRUE) ELSE BuildPlanFor(s, FALSE)
      /\ pc'[t] = IF BuildPlanFor(s, FALSE).built THEN "append" ELSE "hook"
      /\ \A h \in Handlers : h # t => pc'[h] = pc[h] /\ pc[h] = "idle"
  BY <1>1, <1>2 DEF CalmInv, Stages
<1>6. \A b \in BOOLEAN :
        LET e == BuildPlanFor(s, b)
        IN  /\ e.built = BuildPlanFor(s, FALSE).built
            /\ e.built => e.server = b /\ e.gen = s.gen
            /\ ~e.built => e.server = FALSE
  BY DEF BuildPlanFor, NoEnvelope
<1>7. Inject(s, util) => BuildPlanFor(s, FALSE).built
  BY DEF Inject
<1>8. Inject(s, util) \in BOOLEAN
  BY DEF Inject
<1>9. /\ env'[t].built = BuildPlanFor(s, FALSE).built
      /\ env'[t].built => env'[t].gen = s.gen
      /\ env'[t].server <=> Inject(s, util)
  <2>1. CASE Inject(s, util)
    BY <1>5, <1>6, <1>7, <2>1
  <2>2. CASE ~Inject(s, util)
    BY <1>5, <1>6, <2>2
  <2>3. QED
    BY <2>1, <2>2
<1>10. env'[t].server \in BOOLEAN
  <2>1. CASE Inject(s, util)
    BY <1>5, <1>6, <1>7, <2>1
  <2>2. CASE ~Inject(s, util)
    BY <1>5, <1>6, <2>2
  <2>3. QED
    BY <2>1, <2>2
<1>11. exists => engaged' = env'[t].server
  BY <1>2, <1>8, <1>9, <1>10, Zenon DEF SetServerEngaged
<1>12. Stages'
  <2>1. pc'[t] \in {"append", "hook"} /\ (pc'[t] = "append" => env'[t].built)
    BY <1>5, <1>9
  <2>2. QED
    BY <1>3, <1>4, <1>5, <1>9, <1>11, <2>1 DEF Stages
<1>13. ~Quiet'
  BY <1>5 DEF Quiet
<1>14. TimelineTruthful'
  BY <1>3 DEF CalmInv, TimelineTruthful
<1>15. QED
  BY <1>12, <1>13, <1>14 DEF CalmInv, EngagedIsPublished, PublishedIsLatest

LEMMA CalmPlanAppend ==
  ASSUME IInv, CalmInv, calm, calm' = calm, PlanAppend(TheHandler), TheHandler \in Handlers
  PROVE  CalmInv'
<1> DEFINE t == TheHandler
           point == [at |-> generation, gen |-> env[t].gen, server |-> env[t].server]
<1>1. /\ generation \in Stamp /\ generation \in Nat /\ lastHistoryGen \in Nat
      /\ pc \in [Handlers -> {"idle", "plan", "decide", "append", "hook"}]
      /\ history \in Seq(HistoryPoint) /\ lastHistoryGen <= generation /\ env[t] \in Envelope
  BY CoordinatorAssumption DEF IInv, TypeOK, Stamp, HistoryOnePerReport
<1>2. /\ pc[t] = "append" /\ pc' = [pc EXCEPT ![t] = "hook"]
      /\ UNCHANGED <<exists, generation, engaged, env, published, snap>>
  BY DEF PlanAppend
<1>3. pc'[t] = "hook" /\ \A h \in Handlers : h # t => pc'[h] = pc[h] /\ pc[h] = "idle"
  BY <1>1, <1>2 DEF CalmInv, Stages
<1>4. Stages'
  BY <1>2, <1>3 DEF CalmInv, Stages
<1>5. ~Quiet'
  BY <1>3 DEF Quiet
<1>6. TimelineTruthful'
  <2>1. CASE ~exists \/ generation = lastHistoryGen
    BY <2>1 DEF PlanAppend, CalmInv, TimelineTruthful
  <2>2. CASE exists /\ generation # lastHistoryGen
    <3>1. env[t].gen = generation
      BY <1>1, <1>2, <2>2 DEF CalmInv, Stages
    <3>2. history' = LastPoints(Append(history, point))
      BY <2>2 DEF PlanAppend
    <3>3. point \in HistoryPoint /\ point.gen = point.at
      BY <1>1, <3>1 DEF HistoryPoint, Envelope
    <3> HIDE DEF point
    <3>4. /\ Append(history, point) \in Seq(HistoryPoint)
          /\ \A i \in 1..Len(Append(history, point)) :
               Append(history, point)[i].gen = Append(history, point)[i].at
      <4>1. /\ Append(history, point) \in Seq(HistoryPoint)
            /\ Len(Append(history, point)) = Len(history) + 1 /\ Len(history) \in Nat
            /\ Append(history, point)[Len(history) + 1] = point
            /\ \A i \in 1..Len(history) : Append(history, point)[i] = history[i]
        BY <1>1, <3>3
      <4>2. QED
        BY <3>3, <4>1 DEF CalmInv, TimelineTruthful
    <3>5. PICK k \in Nat : \A i \in 1..Len(LastPoints(Append(history, point))) :
             /\ i + k \in 1..Len(Append(history, point))
             /\ LastPoints(Append(history, point))[i] = Append(history, point)[i + k]
      BY <3>4, LastPointsIsSuffix
    <3>6. QED
      BY <3>2, <3>4, <3>5 DEF TimelineTruthful
  <2>3. QED
    BY <2>1, <2>2
<1>7. QED
  BY <1>4, <1>5, <1>6 DEF CalmInv, EngagedIsPublished, PublishedIsLatest

LEMMA CalmPlanHook ==
  ASSUME IInv, CalmInv, calm, calm' = calm, PlanHook(TheHandler), TheHandler \in Handlers
  PROVE  CalmInv'
<1> DEFINE t == TheHandler
<1>1. pc \in [Handlers -> {"idle", "plan", "decide", "append", "hook"}] /\ env \in [Handlers -> Envelope]
  BY DEF IInv, TypeOK
<1>2. /\ pc[t] = "hook" /\ pc' = [pc EXCEPT ![t] = "idle"] /\ published' = env[t]
      /\ UNCHANGED <<exists, generation, engaged, history>>
  BY DEF PlanHook, roomVars
<1>3. \A h \in Handlers : pc'[h] = "idle"
  BY <1>1, <1>2 DEF CalmInv, Stages
<1>4. exists /\ generation > 0 =>
        engaged = env[t].server /\ (env[t].built => env[t].gen = generation)
  BY <1>2 DEF CalmInv, Stages
<1>5. Stages'
  BY <1>3 DEF Stages
<1>6. EngagedIsPublished' /\ PublishedIsLatest'
  BY <1>2, <1>4 DEF EngagedIsPublished, PublishedIsLatest
<1>7. TimelineTruthful'
  BY <1>2 DEF CalmInv, TimelineTruthful
<1>8. QED
  BY <1>5, <1>6, <1>7 DEF CalmInv

LEMMA CalmStep == IInv /\ CalmInv /\ [MCNext]_mcVars => CalmInv'
<1> SUFFICES ASSUME IInv, CalmInv, [MCNext]_mcVars, calm PROVE CalmInv'
  BY DEF MCNext, mcVars, CalmInv
<1>1. pc \in [Handlers -> {"idle", "plan", "decide", "append", "hook"}]
  BY DEF IInv, TypeOK
<1>2. CASE UNCHANGED mcVars
  BY <1>2, SameReports DEF mcVars, vars, roomVars, handlerVars
<1>3. CASE MCNext
  <2>0. Next /\ calm' = calm /\ \A h \in Handlers \ {TheHandler} : pc'[h] = "idle"
    BY <1>3 DEF MCNext, OnlyTheHandler
  <2>1. ASSUME NEW h \in Handlers, NEW p \in Peers, ReportLink(h, p)
        PROVE  CalmInv'
    <3>1. pc' = [pc EXCEPT ![h] = "plan"] /\ pc'[h] = "plan" /\ h = TheHandler
      BY <1>1, <2>0, <2>1 DEF ReportLink
    <3>2. UNCHANGED history
      BY <2>1 DEF ReportLink, Report
    <3>3. Stages' /\ ~Quiet'
      BY <2>0, <3>1 DEF Stages, Quiet
    <3>4. TimelineTruthful'
      BY <3>2 DEF CalmInv, TimelineTruthful
    <3>5. QED
      BY <3>3, <3>4 DEF CalmInv, EngagedIsPublished, PublishedIsLatest
  <2>2. ASSUME NEW h \in Handlers, GetPlan(h) \/ AdminPlan(h)
        PROVE  CalmInv'
    <3>1. PlanBegin(h)
      BY <2>2 DEF GetPlan, AdminPlan
    <3>2. pc'[h] # "idle"
      BY <1>1, <3>1 DEF PlanBegin
    <3>3. h = TheHandler
      BY <2>0, <3>2
    <3>4. QED
      BY <2>0, <3>1, <3>3, CalmPlanBegin
  <2>3. ASSUME NEW h \in Handlers, PlanDecide(h) \/ PlanAppend(h) \/ PlanHook(h)
        PROVE  CalmInv'
    <3>1. pc[h] # "idle"
      BY <2>3 DEF PlanDecide, PlanAppend, PlanHook
    <3>2. h = TheHandler
      BY <3>1 DEF CalmInv, Stages
    <3>3. QED
      BY <2>0, <2>3, <3>2, CalmPlanDecide, CalmPlanAppend, CalmPlanHook
  <2>4. ASSUME NEW p \in Peers, Remove(p)
        PROVE  CalmInv'
    <3>1. /\ UNCHANGED <<pc, snap, env, published>>
          /\ \/ UNCHANGED <<exists, generation, engaged, history>>
             \/ generation' = 0 /\ history' = <<>>
      BY <2>4 DEF Remove, DeleteRoom, EmptyRoom, handlerVars
    <3>2. QED
      BY <2>0, <3>1, SameReports
  <2>5. CASE ReportServerLink
    <3>1. UNCHANGED <<pc, snap, env, published>> /\ generation' = 0 /\ history' = <<>>
      BY <2>5 DEF ReportServerLink, EmptyRoom, handlerVars
    <3>2. QED
      BY <2>0, <3>1, SameReports
  <2>6. CASE SetServerRelayEnabled \/ Tick \/ \E p \in Peers : Crash(p)
    <3>1. UNCHANGED <<pc, snap, env, published, exists, generation, engaged, history>>
      BY <2>6 DEF SetServerRelayEnabled, Tick, Crash, roomVars, handlerVars
    <3>2. QED
      BY <2>0, <3>1, SameReports
  <2>7. QED
    BY <2>0, <2>1, <2>2, <2>3, <2>4, <2>5, <2>6 DEF Next
<1>4. QED
  BY <1>2, <1>3

(* With one handler at a time, however the room is left, deleted and made   *)
(* again around it, the engaged flag and the plan the hooks hold are those  *)
(* of the latest report, and every point of the history was planned from    *)
(* the reports it is recorded under (Plan, setServerEngaged, appendHistory).*)
THEOREM CalmCoordinator == MCSpec => []CalmPlansInOrder
<1>1. MCInit => IInv /\ CalmInv
  <2> SUFFICES ASSUME MCInit PROVE IInv /\ CalmInv
    OBVIOUS
  <2>1. IInv
    BY InitIInv DEF MCInit
  <2>2. CalmInv
    BY DEF MCInit, Init, CalmInv, Stages, EngagedIsPublished, PublishedIsLatest, TimelineTruthful
  <2>3. QED
    BY <2>1, <2>2
<1>2. IInv /\ CalmInv /\ [MCNext]_mcVars => (IInv /\ CalmInv)'
  <2> SUFFICES ASSUME IInv, CalmInv, [MCNext]_mcVars PROVE IInv' /\ CalmInv'
    OBVIOUS
  <2>1. [Next]_vars
    BY DEF MCNext, mcVars
  <2>2. QED
    BY <2>1, StepIInv, CalmStep
<1>3. IInv /\ CalmInv => CalmPlansInOrder
  BY DEF CalmInv, CalmPlansInOrder
<1>4. QED
  BY <1>1, <1>2, <1>3, PTL DEF MCSpec

=============================================================================
