---------------------------- MODULE OutcomesProofs ----------------------------
(* Proofs about the outcome records and the recommendations made from them. *)
EXTENDS Outcomes, FiniteSetTheorems, WellFoundedInduction, TLAPS

-----------------------------------------------------------------------------
(* Types *)

\* What the operations make of a well-formed record is one.
LEMMA RecordsTyped ==
    ASSUME NEW r \in Record
    PROVE  /\ \A stage \in FunnelStages, x \in Arrays \cup {None}, cap \in Nat :
                 Appended(r, stage, x, cap) \in Record
           /\ \A x \in Arrays \cup {None}, n \in Nat, stage \in FunnelStages :
                 Written(r, x, n, stage) \in Record
           /\ \A x \in Arrays \cup {None}, cap \in Nat : InArray(r, x, cap) \in Record
           /\ Kept(r) \in Record
<1>1. /\ r.stages \in Seq(FunnelStages) /\ r.events \in Seq(FunnelStages)
      /\ r.final \in FinalStages \cup {None} /\ r.cap \in Nat
      /\ r.array \in Arrays \cup {None}
  BY DEF Record
<1>2. \A stage \in FunnelStages, x \in Arrays \cup {None}, cap \in Nat :
          Appended(r, stage, x, cap) \in Record
  BY <1>1 DEF Appended, FinalAfter, Record
<1>3. ASSUME NEW x \in Arrays \cup {None}, NEW n \in Nat, NEW stage \in FunnelStages
      PROVE  Written(r, x, n, stage) \in Record
  <2>1. Len(r.stages) > n => n + 1 \in 1..Len(r.stages)
    BY <1>1
  <2>2. ASSUME Len(r.stages) > n
        PROVE  [r EXCEPT !.stages = [@ EXCEPT ![n + 1] = stage]] \in Record
    <3> DEFINE s == [r.stages EXCEPT ![n + 1] = stage]
    <3>1. s \in [1..Len(r.stages) -> FunnelStages]
      BY <1>1, <2>1, <2>2
    <3>2. s \in Seq(FunnelStages)
      BY <1>1, <3>1
    <3> HIDE DEF s
    <3>3. [r EXCEPT !.stages = s] \in Record
      BY <3>2 DEF Record
    <3> QED
      BY <3>3 DEF s
  <2> QED
    BY <2>2 DEF Written
<1>4. \A x \in Arrays \cup {None}, cap \in Nat : InArray(r, x, cap) \in Record
  BY <1>1 DEF InArray, Record
<1>5. Kept(r) \in Record
  <2>1. Len(r.stages) \in Nat /\ None \in Arrays \cup {None}
    BY <1>1
  <2>2. InArray(r, None, Len(r.stages)) \in Record
    BY <1>4, <2>1
  <2> QED
    BY <2>2 DEF Kept
<1> QED
  BY <1>2, <1>3, <1>4, <1>5

LEMMA ClosedTyped ==
    ASSUME NEW a \in DOMAIN Archive PROVE Closed(a) \subseteq Record
<1> SUFFICES ASSUME NEW s \in Archive[a] \X (FinalStages \cup {None})
             PROVE  OnFile(s[1], s[2]) \in Record
  BY DEF Closed
<1>1. s[1] \in Seq(FunnelStages) /\ s[2] \in FinalStages \cup {None}
  BY ConstantsAssumption
<1> QED
  BY <1>1 DEF OnFile, Record

LEMMA TypeInit == Init => TypeOK
<1> SUFFICES ASSUME Init PROVE TypeOK
  OBVIOUS
<1>1. UNION {Closed(a) : a \in DOMAIN Archive} \subseteq Record
  BY ClosedTyped
<1> QED
  BY <1>1 DEF Init, TypeOK

\* A draft is a draft, and None is not.
LEMMA DraftFields ==
    ASSUME TypeOK, NEW h \in Handlers, draft[h] # None
    PROVE  draft[h] \in Draft /\ draft[h].rec \in Record /\ draft[h].app \in Applications
  BY DEF TypeOK, Draft

LEMMA TypeStep == TypeOK /\ [Next]_vars => TypeOK'
<1> SUFFICES ASSUME TypeOK, [Next]_vars PROVE TypeOK'
  OBVIOUS
<1>1. CASE UNCHANGED vars
  BY <1>1 DEF vars, TypeOK
<1>2. ASSUME NEW h \in Handlers, Step(h) PROVE TypeOK'
  <2> DEFINE Holds == \E a \in Applications, r \in Record : Hold(h, a, r)
  <2>a. Holds => draft' \in [Handlers -> Draft \cup {None}]
    BY DEF Hold, Draft, TypeOK
  <2>b. stored \in [Applications -> Record \cup {None}]
    BY DEF TypeOK
  <2>c. draft \in [Handlers -> Draft \cup {None}]
    BY DEF TypeOK
  <2>1. ASSUME NEW a \in Open, NewRecord(h, a) PROVE TypeOK'
    <3>1. [stages |-> <<>>, final |-> None, array |-> None, cap |-> 0,
           events |-> <<>>] \in Record
      BY DEF Record
    <3>2. a \in Applications
      BY DEF Open
    <3> QED
      BY <2>1, <2>a, <2>b, <3>1, <3>2 DEF NewRecord, TypeOK
  <2>2. ASSUME NEW a \in Open, GetRecord(h, a) PROVE TypeOK'
    <3>1. a \in Applications /\ stored[a] \in Record /\ Len(stored[a].stages) + 1 \in Nat
      BY <2>2, <2>b DEF GetRecord, Open, Record
    <3>2. CASE SharesMemory
      BY <2>2, <2>a, <3>1, <3>2 DEF GetRecord, TypeOK
    <3>3. CASE ~SharesMemory
      <4>1. \A x \in Arrays :
               InArray(stored[a], x, Len(stored[a].stages) + 1) \in Record
        BY <3>1, RecordsTyped
      <4>2. Holds
        BY <2>2, <3>1, <3>3, <4>1 DEF GetRecord, Fresh
      <4> QED
        BY <2>2, <2>a, <2>b, <4>2 DEF GetRecord, TypeOK
    <3> QED
      BY <3>2, <3>3
  <2>3. ASSUME NEW stage \in Observed, AppendStage(h, stage) PROVE TypeOK'
    <3> DEFINE r == draft[h].rec
    <3>1. /\ stage \in FunnelStages /\ r \in Record /\ draft[h].app \in Applications
          /\ r.cap \in Nat /\ r.array \in Arrays \cup {None} /\ Len(r.stages) \in Nat
      <4>1. r \in Record /\ draft[h].app \in Applications
        BY <2>3, DraftFields DEF AppendStage
      <4> QED
        BY <4>1, ConstantsAssumption DEF Record
    <3>2. CASE AppendToCopy(h, stage)
      <4>1. Grown(r.cap) \in Nat
        BY <3>1 DEF Grown
      <4>2. Holds
        BY <3>1, <3>2, <4>1, RecordsTyped DEF AppendToCopy, Fresh
      <4> QED
        BY <3>2, <2>a, <2>b, <4>2 DEF AppendToCopy, TypeOK
    <3>3. CASE AppendInPlace(h, stage)
      <4>1. ASSUME NEW a \in Applications, stored[a] # None
            PROVE  Written(stored[a], r.array, Len(r.stages), stage) \in Record
        <5>1. stored[a] \in Record
          BY <4>1, <2>b
        <5> QED
          BY <5>1, <3>1, RecordsTyped
      <4>2. stored' \in [Applications -> Record \cup {None}]
        BY <3>3, <4>1 DEF AppendInPlace
      <4>3. ASSUME NEW g \in Handlers, draft[g] # None
            PROVE  [app |-> draft[g].app,
                    rec |-> Written(draft[g].rec, r.array, Len(r.stages), stage)]
                      \in Draft
        <5>1. draft[g].rec \in Record /\ draft[g].app \in Applications
          BY <4>3, DraftFields
        <5>2. Written(draft[g].rec, r.array, Len(r.stages), stage) \in Record
          BY <5>1, <3>1, RecordsTyped
        <5> QED
          BY <5>1, <5>2 DEF Draft
      <4>4. [app |-> draft[h].app, rec |-> Appended(r, stage, r.array, r.cap)] \in Draft
        <5>1. Appended(r, stage, r.array, r.cap) \in Record
          BY <3>1, RecordsTyped
        <5> QED
          BY <5>1, <3>1 DEF Draft
      <4>5. draft' \in [Handlers -> Draft \cup {None}]
        BY <3>3, <4>3, <4>4 DEF AppendInPlace
      <4> QED
        BY <4>2, <4>5 DEF TypeOK
    <3> QED
      BY <2>3, <3>2, <3>3 DEF AppendStage
  <2>4. ASSUME SaveRecord(h) PROVE TypeOK'
    <3>1. Kept(draft[h].rec) \in Record /\ draft[h].app \in Applications
      BY <2>4, DraftFields, RecordsTyped DEF SaveRecord
    <3> QED
      BY <2>4, <2>b, <2>c, <3>1 DEF SaveRecord, TypeOK
  <2>5. ASSUME Drop(h) PROVE TypeOK'
    BY <2>5, <2>b, <2>c DEF Drop, TypeOK
  <2> QED
    BY <1>2, <2>1, <2>2, <2>3, <2>4, <2>5 DEF Step
<1> QED
  BY <1>1, <1>2 DEF Next

\* The stores only ever hold well-formed records, also when they share memory.
THEOREM TypeCorrect == Spec => []TypeOK
  BY TypeInit, TypeStep, PTL DEF Spec

-----------------------------------------------------------------------------
(* Histories, when the store does not share memory with the handlers *)

\* What AppendStage makes of the final outcome is what the longer history tells.
LEMMA AppendTells ==
    ASSUME NEW s \in Seq(FunnelStages), NEW final, Tells(s, final),
           NEW stage \in FunnelStages
    PROVE  Tells(Append(s, stage), FinalAfter(final, stage))
<1> DEFINE t == Append(s, stage)
<1>1. /\ DOMAIN s = 1..Len(s) /\ DOMAIN t = 1..(Len(s) + 1) /\ Len(s) \in Nat
      /\ t[Len(s) + 1] = stage
      /\ \A i \in 1..Len(s) : t[i] = s[i]
  OBVIOUS
<1> HIDE DEF t
<1>2. CASE stage \in FinalStages
  <2>1. /\ Len(s) + 1 \in DOMAIN t
        /\ \A j \in DOMAIN t : ~(j > Len(s) + 1)
    BY <1>1
  <2> QED
    BY <1>1, <1>2, <2>1 DEF Tells, FinalAfter, t
<1>3. CASE stage \notin FinalStages /\ final = None /\ \A i \in DOMAIN s : s[i] \notin FinalStages
  <2>1. \A i \in DOMAIN t : t[i] \notin FinalStages
    BY <1>1, <1>3
  <2> QED
    BY <1>3, <2>1 DEF Tells, FinalAfter, t
<1>4. ASSUME stage \notin FinalStages, NEW i \in DOMAIN s, s[i] = final,
             final \in FinalStages,
             \A j \in DOMAIN s : j > i => s[j] \notin FinalStages
      PROVE  Tells(t, FinalAfter(final, stage))
  <2>1. i \in DOMAIN t /\ t[i] = final
    BY <1>1, <1>4
  <2>2. \A j \in DOMAIN t : j > i => t[j] \notin FinalStages
    BY <1>1, <1>4
  <2> QED
    BY <1>4, <2>1, <2>2 DEF Tells, FinalAfter
<1> QED
  BY <1>2, <1>3, <1>4 DEF Tells, t

\* A record that nobody tampered with.
Sound(r) == r.stages = r.events /\ Tells(r.stages, r.final)

\* Records on file are nowhere in memory; drafts are in different arrays, and
\* one that is in none has no room for another stage.
Apart ==
    /\ \A a \in Applications : stored[a] # None => stored[a].array = None
    /\ \A g, h \in Handlers :
          /\ g # h /\ draft[g] # None /\ draft[h] # None
          /\ draft[g].rec.array # None
          => draft[h].rec.array # draft[g].rec.array
    /\ \A h \in Handlers :
          draft[h] # None /\ draft[h].rec.array = None => draft[h].rec.cap = 0

AllSound ==
    /\ \A a \in Applications : stored[a] # None => Sound(stored[a])
    /\ \A h \in Handlers : draft[h] # None => Sound(draft[h].rec)

IInv == TypeOK /\ Apart /\ AllSound

LEMMA SoundCopies ==
    ASSUME NEW r \in Record, Sound(r)
    PROVE  /\ \A x, cap : Sound(InArray(r, x, cap))
           /\ Sound(Kept(r))
           /\ \A stage \in FunnelStages : \A x, cap : Sound(Appended(r, stage, x, cap))
<1>1. r.stages \in Seq(FunnelStages)
  BY DEF Record
<1>2. \A x, cap : Sound(InArray(r, x, cap))
  BY DEF Sound, InArray
<1>3. \A stage \in FunnelStages : \A x, cap : Sound(Appended(r, stage, x, cap))
  BY <1>1, AppendTells DEF Sound, Appended
<1> QED
  BY <1>2, <1>3 DEF Kept

LEMMA HistoryInit == Init => IInv
<1> SUFFICES ASSUME Init PROVE IInv
  OBVIOUS
<1>1. ASSUME NEW a \in Applications, stored[a] # None
      PROVE  stored[a].array = None /\ Sound(stored[a])
  <2>1. stored[a] \in Closed(a)
    BY <1>1 DEF Init
  <2>2. PICK s \in Archive[a] \X (FinalStages \cup {None}) :
           Tells(s[1], s[2]) /\ stored[a] = OnFile(s[1], s[2])
    BY <2>1 DEF Closed
  <2> QED
    BY <2>2 DEF OnFile, Sound
<1> QED
  BY <1>1, TypeInit DEF Init, IInv, Apart, AllSound

\* A handler that takes up a record in memory of its own disturbs nobody.
LEMMA HoldApart ==
    ASSUME IInv, NEW h \in Handlers, NEW a \in Applications, NEW r \in Record,
           Sound(r), Hold(h, a, r), UNCHANGED stored,
           \/ r.array = None /\ r.cap = 0
           \/ r.array \in Fresh(h)
    PROVE  Apart' /\ AllSound'
<1>1. draft' \in [Handlers -> Draft \cup {None}] /\ draft'[h] = [app |-> a, rec |-> r]
  BY DEF IInv, TypeOK, Hold, Draft
<1>2. \A g \in Handlers : g # h => draft'[g] = draft[g]
  BY DEF IInv, TypeOK, Hold
<1>3. draft'[h].rec = r
  BY <1>1
<1>4. r.array \in Fresh(h) => r.array # None
  BY ConstantsAssumption DEF Fresh
<1>5. ASSUME NEW g \in Handlers, g # h, draft[g] # None, draft[g].rec.array # None
      PROVE  r.array # draft[g].rec.array
  BY <1>5 DEF Fresh
<1>6. Apart'
  <2>1. ASSUME NEW f \in Handlers, NEW g \in Handlers, f # g, draft'[f] # None,
               draft'[g] # None, draft'[f].rec.array # None
        PROVE  draft'[g].rec.array # draft'[f].rec.array
    <3>1. CASE f = h
      <4>1. CASE draft[g].rec.array = None
        BY <2>1, <3>1, <4>1, <1>2, <1>3
      <4>2. CASE draft[g].rec.array # None
        BY <2>1, <3>1, <4>2, <1>2, <1>3, <1>5
      <4> QED
        BY <4>1, <4>2
    <3>2. CASE g = h
      BY <2>1, <3>2, <1>2, <1>3, <1>5
    <3>3. CASE f # h /\ g # h
      BY <2>1, <3>3, <1>2 DEF IInv, Apart
    <3> QED
      BY <3>1, <3>2, <3>3
  <2>2. ASSUME NEW g \in Handlers, draft'[g] # None, draft'[g].rec.array = None
        PROVE  draft'[g].rec.cap = 0
    <3>1. CASE g = h
      BY <2>2, <3>1, <1>3, <1>4
    <3>2. CASE g # h
      BY <2>2, <3>2, <1>2 DEF IInv, Apart
    <3> QED
      BY <3>1, <3>2
  <2> QED
    BY <2>1, <2>2 DEF IInv, Apart
<1>7. AllSound'
  <2>1. ASSUME NEW g \in Handlers, draft'[g] # None
        PROVE  Sound(draft'[g].rec)
    BY <2>1, <1>2, <1>3 DEF IInv, AllSound
  <2> QED
    BY <2>1 DEF IInv, AllSound, Sound
<1> QED
  BY <1>6, <1>7

\* So does one that gives up its draft, whatever it saves of it.
LEMMA ReleaseApart ==
    ASSUME IInv, ~SharesMemory, NEW h \in Handlers, draft[h] # None,
           draft' = [draft EXCEPT ![h] = None],
           stored' \in {stored, [stored EXCEPT ![draft[h].app] = Kept(draft[h].rec)]}
    PROVE  Apart' /\ AllSound'
<1>1. draft[h].rec \in Record /\ draft[h].app \in Applications /\ Sound(draft[h].rec)
  BY DraftFields DEF IInv, AllSound
<1>2. Sound(Kept(draft[h].rec)) /\ Kept(draft[h].rec).array = None
  BY <1>1, SoundCopies DEF Kept, InArray
<1>3. \A g \in Handlers : draft'[g] = IF g = h THEN None ELSE draft[g]
  BY DEF IInv, TypeOK
<1>4. ASSUME NEW a \in Applications
      PROVE  stored'[a] \in {stored[a], Kept(draft[h].rec)}
  BY <1>1 DEF IInv, TypeOK
<1>5. Apart'
  BY <1>2, <1>3, <1>4 DEF IInv, Apart
<1>6. \A a \in Applications : stored'[a] # None => Sound(stored'[a])
  BY <1>2, <1>4 DEF IInv, AllSound
<1>7. \A g \in Handlers : draft'[g] # None => Sound(draft'[g].rec)
  BY <1>3 DEF IInv, AllSound
<1> QED
  BY <1>5, <1>6, <1>7 DEF AllSound, Sound

\* Nobody else sees an append to an array that only its own draft holds.
LEMMA InPlaceApart ==
    ASSUME IInv, NEW h \in Handlers, draft[h] # None, NEW stage \in FunnelStages,
           AppendInPlace(h, stage)
    PROVE  Apart' /\ AllSound'
<1> DEFINE r == draft[h].rec
<1> DEFINE n == Len(r.stages)
<1>1. r \in Record /\ Sound(r) /\ n \in Nat /\ r.cap \in Nat
  BY DraftFields DEF IInv, AllSound, Record
<1>2. r.array # None
  BY <1>1 DEF IInv, Apart, AppendInPlace
<1>3. stored' = stored
  <2>1. \A a \in Applications : stored[a] # None => Written(stored[a], r.array, n, stage) = stored[a]
    BY <1>2 DEF IInv, Apart, Written
  <2> QED
    BY <2>1 DEF AppendInPlace, IInv, TypeOK
<1>4. ASSUME NEW g \in Handlers, g # h, draft[g] # None
      PROVE  draft'[g].rec = draft[g].rec
  <2>1. draft[g].rec.array # r.array
    BY <1>2, <1>4 DEF IInv, Apart
  <2>2. Written(draft[g].rec, r.array, n, stage) = draft[g].rec
    BY <2>1 DEF Written
  <2> QED
    BY <1>4, <2>2 DEF AppendInPlace
<1>5. draft'[h].rec = Appended(r, stage, r.array, r.cap)
  BY DEF AppendInPlace
<1>6. draft'[h].rec.array = r.array /\ draft'[h].rec.cap = r.cap
  BY <1>5 DEF Appended
<1>7. \A g \in Handlers : g # h /\ draft[g] = None => draft'[g] = None
  BY DEF AppendInPlace
<1>8. \A g \in Handlers : draft'[g] # None =>
          /\ draft[g] # None
          /\ draft'[g].rec.array = draft[g].rec.array
          /\ draft'[g].rec.cap = draft[g].rec.cap
  BY <1>4, <1>6, <1>7
<1>9. Apart'
  BY <1>3, <1>8 DEF IInv, Apart
<1>10. ASSUME NEW g \in Handlers, draft'[g] # None
       PROVE  Sound(draft'[g].rec)
  <2>1. CASE g = h
    BY <1>1, <1>5, <2>1, SoundCopies
  <2>2. CASE g # h
    BY <1>4, <1>8, <1>10, <2>2 DEF IInv, AllSound
  <2> QED
    BY <2>1, <2>2
<1>11. \A a \in Applications : stored'[a] # None => Sound(stored'[a])
  BY <1>3 DEF IInv, AllSound
<1> QED
  BY <1>9, <1>10, <1>11 DEF AllSound, Sound

LEMMA HistoryStep == ~SharesMemory /\ IInv /\ [Next]_vars => IInv'
<1> SUFFICES ASSUME ~SharesMemory, IInv, [Next]_vars PROVE IInv'
  OBVIOUS
<1>1. TypeOK'
  BY TypeStep DEF IInv
<1>2. CASE UNCHANGED vars
  BY <1>1, <1>2 DEF vars, IInv, Apart, AllSound
<1>3. ASSUME NEW h \in Handlers, Step(h) PROVE Apart' /\ AllSound'
  <2>1. ASSUME NEW a \in Open, NewRecord(h, a) PROVE Apart' /\ AllSound'
    <3> DEFINE r == [stages |-> <<>>, final |-> None, array |-> None, cap |-> 0,
                     events |-> <<>>]
    <3>1. r \in Record /\ a \in Applications /\ r.array = None /\ r.cap = 0
      BY DEF Record, Open
    <3>2. Sound(r)
      BY DEF Sound, Tells
    <3>3. Hold(h, a, r) /\ UNCHANGED stored
      BY <2>1 DEF NewRecord
    <3> HIDE DEF r
    <3> QED
      BY <3>1, <3>2, <3>3, HoldApart
  <2>2. ASSUME NEW a \in Open, GetRecord(h, a) PROVE Apart' /\ AllSound'
    <3>1. a \in Applications /\ stored[a] \in Record /\ Sound(stored[a])
      BY <2>2 DEF GetRecord, Open, IInv, TypeOK, AllSound
    <3> DEFINE cap == Len(stored[a].stages) + 1
    <3>2. cap \in Nat
      BY <3>1 DEF Record
    <3>3. PICK x \in Fresh(h) : Hold(h, a, InArray(stored[a], x, cap))
      BY <2>2 DEF GetRecord
    <3> DEFINE r == InArray(stored[a], x, cap)
    <3>4. r \in Record /\ Sound(r)
      BY <3>1, <3>2, <3>3, RecordsTyped, SoundCopies DEF Fresh
    <3>5. r.array \in Fresh(h)
      BY <3>3 DEF InArray
    <3>6. Hold(h, a, r) /\ UNCHANGED stored
      BY <2>2, <3>3 DEF GetRecord
    <3> HIDE DEF r
    <3> QED
      BY <3>1, <3>4, <3>5, <3>6, HoldApart
  <2>3. ASSUME NEW stage \in Observed, AppendStage(h, stage) PROVE Apart' /\ AllSound'
    <3>1. stage \in FunnelStages /\ draft[h] # None
      BY <2>3, ConstantsAssumption DEF AppendStage
    <3>2. CASE AppendInPlace(h, stage)
      BY <3>1, <3>2, InPlaceApart
    <3>3. CASE AppendToCopy(h, stage)
      <4>1. draft[h].rec \in Record /\ Sound(draft[h].rec) /\ draft[h].app \in Applications
        BY <3>1, DraftFields DEF IInv, AllSound
      <4>2. PICK x \in Fresh(h) :
               Hold(h, draft[h].app, Appended(draft[h].rec, stage, x, Grown(draft[h].rec.cap)))
        BY <3>3 DEF AppendToCopy
      <4> DEFINE a == draft[h].app
      <4> DEFINE r == Appended(draft[h].rec, stage, x, Grown(draft[h].rec.cap))
      <4>3. Grown(draft[h].rec.cap) \in Nat
        BY <4>1 DEF Record, Grown
      <4>4. r \in Record /\ Sound(r)
        BY <3>1, <4>1, <4>2, <4>3, RecordsTyped, SoundCopies DEF Fresh
      <4>5. r.array \in Fresh(h)
        BY <4>2 DEF Appended
      <4>6. Hold(h, a, r) /\ UNCHANGED stored /\ a \in Applications
        BY <3>3, <4>1, <4>2 DEF AppendToCopy
      <4> HIDE DEF r, a
      <4> QED
        BY <4>4, <4>5, <4>6, HoldApart
    <3> QED
      BY <2>3, <3>2, <3>3 DEF AppendStage
  <2>4. ASSUME SaveRecord(h) PROVE Apart' /\ AllSound'
    BY <2>4, ReleaseApart DEF SaveRecord
  <2>5. ASSUME Drop(h) PROVE Apart' /\ AllSound'
    BY <2>5, ReleaseApart DEF Drop
  <2> QED
    BY <1>3, <2>1, <2>2, <2>3, <2>4, <2>5 DEF Step
<1> QED
  BY <1>1, <1>2, <1>3 DEF Next, IInv

\* What holds of sound records: both of the properties of the history.
LEMMA SoundRecords == IInv => FinalOutcomeDerived /\ HistoryNotRewritten
  BY DEF IInv, AllSound, Sound, FinalOutcomeDerived, HistoryNotRewritten

\* With a store that writes records out and reads them back, the record on file
\* names the last final stage of its history, however handlers overlap
\* (AppendStage, outcome.go:89-98).
THEOREM FinalOutcomeFollows ==
    ASSUME ~SharesMemory PROVE Spec => []FinalOutcomeDerived
<1>1. Init => IInv
  BY HistoryInit
<1>2. IInv /\ [Next]_vars => IInv'
  BY HistoryStep
<1> QED
  BY <1>1, <1>2, SoundRecords, PTL DEF Spec

\* With such a store, no history on file is ever rewritten (outcome.go:86-88);
\* the assumption is what a store in memory breaks.
THEOREM HistoryKept ==
    ASSUME ~SharesMemory PROVE Spec => []HistoryNotRewritten
<1>1. Init => IInv
  BY HistoryInit
<1>2. IInv /\ [Next]_vars => IInv'
  BY HistoryStep
<1> QED
  BY <1>1, <1>2, SoundRecords, PTL DEF Spec

-----------------------------------------------------------------------------
(* What the analytics make of any number of records *)

\* A part's rate that is below the whole's is below the rest's.
LEMMA BelowTheRest ==
    ASSUME NEW a \in Nat, NEW b \in Nat, NEW c \in Nat, NEW d \in Nat,
           a <= b, c <= d, Below(computeRate(a, b), computeRate(a + c, b + d))
    PROVE  Below(computeRate(a, b), computeRate(c, d))
<1>1. b + d > 0 /\ IF b = 0 THEN a + c > 0 ELSE a * (b + d) < (a + c) * b
  BY DEF Below, computeRate
<1>2. CASE b = 0
  BY <1>1, <1>2 DEF Below, computeRate
<1>3. CASE b # 0
  <2>1. a * d \in Nat /\ c * b \in Nat /\ a * b \in Nat
    OBVIOUS
  <2>2. a * (b + d) = a * b + a * d /\ (a + c) * b = a * b + c * b
    OBVIOUS
  <2>3. a * d < c * b
    BY <1>1, <1>3, <2>1, <2>2
  <2>4. c # 0
    BY <2>1, <2>3
  <2> QED
    BY <1>3, <2>3, <2>4 DEF Below, computeRate
<1> QED
  BY <1>2, <1>3

\* Two parts of a finite set add up to it.
LEMMA PartsAddUp ==
    ASSUME NEW D, IsFiniteSet(D), NEW P, NEW Q, D = P \cup Q, P \cap Q = {}
    PROVE  /\ Cardinality(P) \in Nat /\ Cardinality(Q) \in Nat
           /\ Cardinality(D) = Cardinality(P) + Cardinality(Q)
<1>1. IsFiniteSet(P) /\ IsFiniteSet(Q)
  <2>1. P \subseteq D /\ Q \subseteq D
    OBVIOUS
  <2> QED
    BY <2>1, FS_Subset
<1>2. Cardinality(P) \in Nat /\ Cardinality(Q) \in Nat
  BY <1>1, FS_CardinalityType
<1>3. Cardinality(P \cap Q) = 0
  BY FS_EmptySet
<1>4. Cardinality(P \cup Q) = Cardinality(P) + Cardinality(Q) - Cardinality(P \cap Q)
  BY <1>1, FS_Union
<1> QED
  BY <1>2, <1>3, <1>4

\* If every response has its submission, a rate is at most 1.
LEMMA AtMostSubmissions ==
    ASSUME NEW records, NEW S, IsFiniteSet(S),
           \A a \in S : HasStage(records[a], "responded") => HasStage(records[a], "submitted")
    PROVE  Funnel(records, S)["responded"] <= Funnel(records, S)["submitted"]
<1>1. Reached(records, S, "responded") \subseteq Reached(records, S, "submitted")
  BY DEF Reached
<1>2. IsFiniteSet(Reached(records, S, "submitted"))
  BY FS_Subset DEF Reached
<1>3. "responded" \in FunnelStages /\ "submitted" \in FunnelStages
  BY DEF FunnelStages
<1> QED
  BY <1>1, <1>2, <1>3, FS_Subset DEF Funnel

\* The part of the records that has a version, and the rest.
LEMMA FlaggedBelowTheRest ==
    ASSUME NEW records, NEW D, D = DOMAIN records, IsFiniteSet(D),
           \A a \in D : HasStage(records[a], "responded") => HasStage(records[a], "submitted"),
           NEW minSubmissions,
           NEW v \in RecommendLowPerformingResumeVersions(records, minSubmissions)
    PROVE  Below(ByResumeVersion(records)[v].responseRate,
                 ResponseRate(records, {a \in D : records[a].version # v}))
<1> DEFINE G == {a \in D : records[a].version = v}
<1> DEFINE O == {a \in D : records[a].version # v}
<1>1. v \in DOMAIN ByResumeVersion(records)
      /\ Below(ByResumeVersion(records)[v].responseRate, ResponseRate(records, D))
  BY DEF RecommendLowPerformingResumeVersions, Flagged
<1>2. ByResumeVersion(records)[v].responseRate = ResponseRate(records, G)
  BY <1>1 DEF ByResumeVersion, GroupBy, Performance
<1>3. IsFiniteSet(G) /\ IsFiniteSet(O) /\ G \cap O = {} /\ G \cup O = D
  BY FS_Subset
<1>4. "responded" \in FunnelStages /\ "submitted" \in FunnelStages
  BY DEF FunnelStages
<1> DEFINE a == Funnel(records, G)["responded"]
<1> DEFINE b == Funnel(records, G)["submitted"]
<1> DEFINE c == Funnel(records, O)["responded"]
<1> DEFINE d == Funnel(records, O)["submitted"]
<1>5. a <= b /\ c <= d
  BY <1>3, AtMostSubmissions
<1>6. /\ a \in Nat /\ b \in Nat /\ c \in Nat /\ d \in Nat
      /\ Funnel(records, D)["responded"] = a + c
      /\ Funnel(records, D)["submitted"] = b + d
  <2> DEFINE R(S, stage) == Reached(records, S, stage)
  <2>1. \A stage \in FunnelStages :
           /\ IsFiniteSet(R(D, stage))
           /\ R(D, stage) = R(G, stage) \cup R(O, stage)
           /\ R(G, stage) \cap R(O, stage) = {}
    BY FS_Subset DEF Reached
  <2>2. \A S : \A stage \in FunnelStages : Funnel(records, S)[stage] = Cardinality(R(S, stage))
    BY DEF Funnel
  <2> HIDE DEF G, O, R
  <2>3. /\ a = Cardinality(R(G, "responded")) /\ b = Cardinality(R(G, "submitted"))
        /\ c = Cardinality(R(O, "responded")) /\ d = Cardinality(R(O, "submitted"))
        /\ Funnel(records, D)["responded"] = Cardinality(R(D, "responded"))
        /\ Funnel(records, D)["submitted"] = Cardinality(R(D, "submitted"))
    BY <1>4, <2>2
  <2> HIDE DEF a, b, c, d
  <2>4. ASSUME NEW stage \in FunnelStages
        PROVE  /\ Cardinality(R(G, stage)) \in Nat /\ Cardinality(R(O, stage)) \in Nat
               /\ Cardinality(R(D, stage))
                    = Cardinality(R(G, stage)) + Cardinality(R(O, stage))
    <3> DEFINE P == R(G, stage)
    <3> DEFINE Q == R(O, stage)
    <3> DEFINE W == R(D, stage)
    <3>1. IsFiniteSet(W) /\ W = P \cup Q /\ P \cap Q = {}
      BY <2>1
    <3> HIDE DEF P, Q, W
    <3>2. /\ Cardinality(P) \in Nat /\ Cardinality(Q) \in Nat
          /\ Cardinality(W) = Cardinality(P) + Cardinality(Q)
      BY <3>1, PartsAddUp
    <3> QED
      BY <3>2 DEF P, Q, W
  <2> QED
    BY <1>4, <2>3, <2>4
<1>7. /\ ResponseRate(records, G) = computeRate(a, b)
      /\ ResponseRate(records, O) = computeRate(c, d)
      /\ ResponseRate(records, D) = computeRate(a + c, b + d)
  BY <1>6 DEF ResponseRate
<1> HIDE DEF a, b, c, d
<1>8. Below(computeRate(a, b), computeRate(c, d))
  BY <1>1, <1>2, <1>5, <1>6, <1>7, BelowTheRest
<1> QED
  BY <1>2, <1>7, <1>8

\* Whatever is on record, a resume version is flagged only when the other
\* versions, taken together, are answered better
\* (RecommendLowPerformingResumeVersions, recommendation.go:24-43).
THEOREM FlaggedVersionsAreOutperformed == Spec => []FlaggedIsOutperformed
<1>1. FlaggedIsOutperformed
  <2> DEFINE D == DOMAIN ListRecords
  <2>1. IsFiniteSet(D)
    BY ConstantsAssumption, FS_Subset DEF ListRecords
  <2> QED
    BY <2>1, FlaggedBelowTheRest DEF FlaggedIsOutperformed, ResponsesFollowSubmissions
<1> QED
  BY <1>1, PTL

\* Every score, in 0-100 or not, is in one of the buckets, and one in 0-100 is in
\* the bucket that announces it (ScoreCalibration, analytics.go:152-181).
THEOREM ScoresHaveTheirBucket ==
    ASSUME NEW score \in Int
    PROVE  /\ BucketOf(score) \in Buckets
           /\ score \in 0..100 => score \in ScoreRange(BucketOf(score))
           /\ \A b \in Buckets : score \in ScoreRange(b) => b = BucketOf(score)
  BY DEF BucketOf, Buckets, ScoreRange

-----------------------------------------------------------------------------
(* Sums over the groups of the records *)

\* Induction over the subsets of a finite set: a set of them that has the empty
\* one, and each other one if it has it without some member, has them all.
LEMMA SubsetInduction ==
    ASSUME NEW K, IsFiniteSet(K), NEW T, {} \in T,
           \A s \in SUBSET K : s # {} => \E x \in s : s \ {x} \in T => s \in T
    PROVE  SUBSET K \subseteq T
<1> DEFINE C == (SUBSET K) \ T
<1>1. IsWellFoundedOn(StrictSubsetOrdering(K), SUBSET K)
  <2>1. FiniteSubsetsOf(K) = SUBSET K
    BY FS_FiniteSubsetsOfFinite
  <2> QED
    BY <2>1, FS_StrictSubsetOrderingWellFounded
<1> SUFFICES ASSUME C # {} PROVE FALSE
  OBVIOUS
<1>2. PICK s \in C : \A y \in C : <<y, s>> \notin StrictSubsetOrdering(K)
  <2>1. C \subseteq SUBSET K
    OBVIOUS
  <2> HIDE DEF C
  <2> QED
    BY <1>1, <2>1, WFMin
<1>3. s \in SUBSET K /\ s \notin T /\ s # {}
  <2>1. s \in C
    BY <1>2
  <2>2. s \in SUBSET K /\ s \notin T
    BY <2>1
  <2> QED
    BY <2>2
<1>4. PICK x \in s : s \ {x} \in T => s \in T
  BY <1>3
<1>5. s \ {x} \in C /\ <<s \ {x}, s>> \in StrictSubsetOrdering(K)
  BY <1>3, <1>4 DEF StrictSubsetOrdering
<1> QED
  BY <1>2, <1>5

\* The members of Q whose key is in s.
Of(Q, key, s) == {a \in Q : key[a] \in s}

\* Those with one key, and those with another key of s.
LEMMA OfParts ==
    ASSUME NEW Q, IsFiniteSet(Q), NEW key, NEW s, NEW x \in s
    PROVE  /\ Cardinality(Of(Q, key, {x})) \in Nat
           /\ Cardinality(Of(Q, key, s \ {x})) \in Nat
           /\ Cardinality(Of(Q, key, s))
                = Cardinality(Of(Q, key, {x})) + Cardinality(Of(Q, key, s \ {x}))
<1> DEFINE D == Of(Q, key, s)
<1> DEFINE A == Of(Q, key, {x})
<1> DEFINE B == Of(Q, key, s \ {x})
<1>1. D \subseteq Q /\ D = A \cup B /\ A \cap B = {}
  BY DEF Of
<1>2. IsFiniteSet(D)
  BY <1>1, FS_Subset
<1> HIDE DEF D, A, B
<1>3. /\ Cardinality(A) \in Nat /\ Cardinality(B) \in Nat
      /\ Cardinality(D) = Cardinality(A) + Cardinality(B)
  BY <1>1, <1>2, PartsAddUp
<1> QED
  BY <1>3 DEF D, A, B

\* A sum of cardinalities over the keys counts the members with one of them.
LEMMA SumOfParts ==
    ASSUME NEW F, IsFiniteSet(DOMAIN F), NEW Q, IsFiniteSet(Q), NEW key,
           \A k \in DOMAIN F : F[k].count = Cardinality(Of(Q, key, {k}))
    PROVE  Bucketed(F) = Cardinality(Of(Q, key, DOMAIN F))
<1> DEFINE K == DOMAIN F
<1>a. IsFiniteSet(K) /\ \A k \in K : F[k].count = Cardinality(Of(Q, key, {k}))
  OBVIOUS
<1> DEFINE pick(s) == CHOOSE x \in s : TRUE
<1> DEFINE Fold(it) == [s \in SUBSET K |->
              IF s = {} THEN 0 ELSE F[pick(s)].count + it[s \ {pick(s)}]]
<1> DEFINE iter == CHOOSE it : it = Fold(it)
<1> DEFINE g == [s \in SUBSET K |-> Cardinality(Of(Q, key, s))]
<1>1. Bucketed(F) = iter[K]
  BY DEF Bucketed, MapThenSumSet, MapThenFoldSet
<1>2. \A s \in SUBSET K : s # {} => pick(s) \in s
  OBVIOUS
<1> HIDE DEF pick, K
<1>3. g[{}] = 0
  BY FS_EmptySet DEF Of
<1>4. ASSUME NEW s \in SUBSET K, s # {}
      PROVE  /\ F[pick(s)].count = Cardinality(Of(Q, key, {pick(s)}))
             /\ g[s] = F[pick(s)].count + g[s \ {pick(s)}]
  <2>1. pick(s) \in s /\ pick(s) \in K /\ s \ {pick(s)} \in SUBSET K
    BY <1>2, <1>4
  <2>2. g[s] = Cardinality(Of(Q, key, s))
        /\ g[s \ {pick(s)}] = Cardinality(Of(Q, key, s \ {pick(s)}))
    BY <2>1
  <2>3. Cardinality(Of(Q, key, s))
          = Cardinality(Of(Q, key, {pick(s)})) + Cardinality(Of(Q, key, s \ {pick(s)}))
    BY <2>1, OfParts
  <2> HIDE DEF g
  <2> QED
    BY <1>a, <2>1, <2>2, <2>3
<1>5. g = Fold(g)
  BY <1>3, <1>4
<1>6. iter = Fold(iter)
  BY <1>5
<1> HIDE DEF iter
<1>7. iter[{}] = 0 /\ \A s \in SUBSET K : s # {} => iter[s] = F[pick(s)].count + iter[s \ {pick(s)}]
  BY <1>6
<1> HIDE DEF g
<1> DEFINE T == {s \in SUBSET K : iter[s] = g[s]}
<1>8. {} \in T
  BY <1>3, <1>7
<1>9. ASSUME NEW s \in SUBSET K, s # {}
      PROVE  \E x \in s : s \ {x} \in T => s \in T
  BY <1>2, <1>4, <1>7, <1>9
<1>10. SUBSET K \subseteq T
  <2> HIDE DEF T
  <2> QED
    BY <1>8, <1>9, <1>a, SubsetInduction
<1>11. iter[K] = g[K]
  BY <1>10
<1> QED
  BY <1>1, <1>11 DEF g, K

\* The four counts that are reported of a group, for four sets of records.
CountsOf(Q, key, s) ==
    <<Cardinality(Of(Q[1], key, s)), Cardinality(Of(Q[2], key, s)),
      Cardinality(Of(Q[3], key, s)), Cardinality(Of(Q[4], key, s))>>

\* The same for the four counts at once.
LEMMA CountsOfParts ==
    ASSUME NEW F, IsFiniteSet(DOMAIN F),
           NEW Q, \A i \in 1..4 : IsFiniteSet(Q[i]), NEW key,
           \A k \in DOMAIN F : Counts(F[k]) = CountsOf(Q, key, {k})
    PROVE  Total(F) = CountsOf(Q, key, DOMAIN F)
<1> DEFINE K == DOMAIN F
<1>a. IsFiniteSet(K) /\ \A k \in K : Counts(F[k]) = CountsOf(Q, key, {k})
  OBVIOUS
<1> DEFINE pick(s) == CHOOSE x \in s : TRUE
<1> DEFINE Fold(it) == [s \in SUBSET K |->
              IF s = {} THEN <<0, 0, 0, 0>>
              ELSE Plus(Counts(F[pick(s)]), it[s \ {pick(s)}])]
<1> DEFINE iter == CHOOSE it : it = Fold(it)
<1> DEFINE g == [s \in SUBSET K |-> CountsOf(Q, key, s)]
<1>1. Total(F) = iter[K]
  BY DEF Total, MapThenFoldSet
<1>2. \A s \in SUBSET K : s # {} => pick(s) \in s
  OBVIOUS
<1> HIDE DEF pick, K
<1>3. g[{}] = <<0, 0, 0, 0>>
  <2>1. \A i \in 1..4 : Of(Q[i], key, {}) = {}
    BY DEF Of
  <2>2. CountsOf(Q, key, {}) = <<0, 0, 0, 0>>
    <3>1. /\ Of(Q[1], key, {}) = {} /\ Of(Q[2], key, {}) = {}
          /\ Of(Q[3], key, {}) = {} /\ Of(Q[4], key, {}) = {}
      BY <2>1
    <3> QED
      BY <3>1, FS_EmptySet DEF CountsOf
  <2> QED
    BY <2>2
<1>4. ASSUME NEW s \in SUBSET K, NEW x \in s
      PROVE  CountsOf(Q, key, s) = Plus(Counts(F[x]), CountsOf(Q, key, s \ {x}))
  <2>1. \A i \in 1..4 : Cardinality(Of(Q[i], key, s))
          = Cardinality(Of(Q[i], key, {x})) + Cardinality(Of(Q[i], key, s \ {x}))
    BY OfParts
  <2>2. Counts(F[x]) = CountsOf(Q, key, {x})
    BY <1>a
  <2> QED
    BY <2>1, <2>2 DEF CountsOf, Plus
<1>5. g = Fold(g)
  <2>1. ASSUME NEW s \in SUBSET K, s # {}
        PROVE  g[s] = Plus(Counts(F[pick(s)]), g[s \ {pick(s)}])
    BY <1>2, <1>4, <2>1
  <2> QED
    BY <1>3, <2>1
<1>6. iter = Fold(iter)
  BY <1>5
<1> HIDE DEF iter
<1>7. /\ iter[{}] = <<0, 0, 0, 0>>
      /\ \A s \in SUBSET K :
            s # {} => iter[s] = Plus(Counts(F[pick(s)]), iter[s \ {pick(s)}])
  BY <1>6
<1>8. \A s \in SUBSET K : s # {} => g[s] = Plus(Counts(F[pick(s)]), g[s \ {pick(s)}])
  BY <1>2, <1>4
<1> HIDE DEF g
<1> DEFINE T == {s \in SUBSET K : iter[s] = g[s]}
<1>9. {} \in T
  BY <1>3, <1>7
<1>10. ASSUME NEW s \in SUBSET K, s # {}
       PROVE  \E x \in s : s \ {x} \in T => s \in T
  BY <1>2, <1>7, <1>8, <1>10
<1>11. SUBSET K \subseteq T
  <2> HIDE DEF T
  <2> QED
    BY <1>9, <1>10, <1>a, SubsetInduction
<1>12. iter[K] = g[K]
  BY <1>11
<1> QED
  BY <1>1, <1>12 DEF g, K

\* A finite number of records, cut into groups by the keys they have: the counts
\* of the groups add up to those of all records.
LEMMA GroupsAdd ==
    ASSUME NEW records, IsFiniteSet(DOMAIN records),
           NEW key, NEW groups, IsFiniteSet(DOMAIN groups),
           \A a \in DOMAIN records : key[a] \in DOMAIN groups,
           \A k \in DOMAIN groups :
              Counts(groups[k])
                = Counts(Performance(records, {a \in DOMAIN records : key[a] = k}))
    PROVE  Total(groups) = Counts(Performance(records, DOMAIN records))
<1> DEFINE D == DOMAIN records
<1> DEFINE Q == <<Reached(records, D, "submitted"), Reached(records, D, "responded"),
                  Reached(records, D, "interview"), Reached(records, D, "offer")>>
<1>1. \A i \in 1..4 : IsFiniteSet(Q[i])
  <2>1. \A stage : Reached(records, D, stage) \subseteq D
    BY DEF Reached
  <2> QED
    BY <2>1, FS_Subset
<1>2. ASSUME NEW S \in SUBSET D
      PROVE  Counts(Performance(records, S))
               = <<Cardinality(Reached(records, S, "submitted")),
                   Cardinality(Reached(records, S, "responded")),
                   Cardinality(Reached(records, S, "interview")),
                   Cardinality(Reached(records, S, "offer"))>>
  BY DEF Counts, Performance, ResponseRate, InterviewRate, computeRate, Funnel, FunnelStages
<1>3. ASSUME NEW k \in DOMAIN groups
      PROVE  Counts(groups[k]) = CountsOf(Q, key, {k})
  <2> DEFINE S == {a \in D : key[a] = k}
  <2>1. \A stage : Reached(records, S, stage) = Of(Reached(records, D, stage), key, {k})
    BY DEF Reached, Of
  <2>2. Counts(groups[k]) = Counts(Performance(records, S)) /\ S \in SUBSET D
    OBVIOUS
  <2> QED
    BY <1>2, <2>1, <2>2 DEF CountsOf
<1>4. Counts(Performance(records, D)) = CountsOf(Q, key, DOMAIN groups)
  <2>1. \A stage : Reached(records, D, stage)
                     = Of(Reached(records, D, stage), key, DOMAIN groups)
    BY DEF Reached, Of
  <2> QED
    BY <1>2, <2>1 DEF CountsOf
<1>5. Total(groups) = CountsOf(Q, key, DOMAIN groups)
  <2> HIDE DEF Q
  <2> QED
    BY <1>1, <1>3, CountsOfParts
<1> QED
  BY <1>4, <1>5

\* There are no more keys than records.
LEMMA FiniteKeys ==
    ASSUME NEW D, IsFiniteSet(D), NEW key, key = [a \in D |-> key[a]]
    PROVE  IsFiniteSet({key[a] : a \in D})
<1> DEFINE R == {key[a] : a \in D}
<1>1. key \in Surjection(D, R)
  BY DEF Surjection
<1> QED
  BY <1>1, FS_Surjection

\* The groups that a report makes of a finite number of records, by the keys they have.
LEMMA ReportAdds ==
    ASSUME NEW records, IsFiniteSet(DOMAIN records), NEW key, DOMAIN key = DOMAIN records,
           key = [a \in DOMAIN records |-> key[a]], NEW groups,
           groups = [k \in {key[a] : a \in DOMAIN records} |->
                        Performance(records, {a \in DOMAIN records : key[a] = k})]
    PROVE  Total(groups) = Counts(Performance(records, DOMAIN records))
<1>1. IsFiniteSet(DOMAIN groups)
  BY FiniteKeys
<1> QED
  BY <1>1, GroupsAdd

LEMMA FiniteBuckets == IsFiniteSet(Buckets)
<1>1. Buckets \in SUBSET Nat /\ \A b \in Buckets : b <= 9
  BY DEF Buckets
<1> QED
  BY <1>1, FS_BoundedSetOfNaturals

\* Whatever is on record, no record is missing from a report and none is counted
\* twice: the groups of each report, and the score buckets, add up to all records
\* (ByResumeVersion, BySource, ByRole, ScoreCalibration, analytics.go:99-250).
THEOREM ReportsAddUp == Spec => []GroupsAddUp
<1>1. GroupsAddUp
  <2> DEFINE records == ListRecords
  <2> DEFINE D == DOMAIN records
  <2> DEFINE all == Counts(Performance(records, D))
  <2>1. IsFiniteSet(D)
    BY ConstantsAssumption, FS_Subset DEF ListRecords
  <2>2. \A a \in D : records[a].score \in Int
    BY ContextAssumption DEF ListRecords
  <2> HIDE DEF records
  <2>3. Total(ByResumeVersion(records)) = all
    <3> DEFINE key == [a \in D |-> records[a].version]
    <3>1. ByResumeVersion(records)
            = [k \in {key[a] : a \in D} |-> Performance(records, {a \in D : key[a] = k})]
      BY DEF ByResumeVersion, GroupBy
    <3>2. DOMAIN key = D /\ key = [a \in D |-> key[a]]
      OBVIOUS
    <3> HIDE DEF key
    <3> QED
      BY <2>1, <3>1, <3>2, ReportAdds
  <2>4. Total(BySource(records)) = all
    <3> DEFINE key == [a \in D |-> records[a].source]
    <3>1. BySource(records)
            = [k \in {key[a] : a \in D} |-> Performance(records, {a \in D : key[a] = k})]
      BY DEF BySource, GroupBy
    <3>2. DOMAIN key = D /\ key = [a \in D |-> key[a]]
      OBVIOUS
    <3> HIDE DEF key
    <3> QED
      BY <2>1, <3>1, <3>2, ReportAdds
  <2>5. Total(ByRole(records)) = all
    <3> DEFINE key == [a \in D |-> records[a].role]
    <3>1. ByRole(records)
            = [k \in {key[a] : a \in D} |-> Performance(records, {a \in D : key[a] = k})]
      BY DEF ByRole, GroupBy
    <3>2. DOMAIN key = D /\ key = [a \in D |-> key[a]]
      OBVIOUS
    <3> HIDE DEF key
    <3> QED
      BY <2>1, <3>1, <3>2, ReportAdds
  <2> DEFINE bucket == [a \in D |-> BucketOf(records[a].score)]
  <2> DEFINE buckets == ScoreCalibration(records)
  <2>6. \A a \in D : bucket[a] \in Buckets
    BY <2>2 DEF BucketOf, Buckets
  <2>7. IsFiniteSet(Buckets)
    BY FiniteBuckets
  <2>8. Total([b \in Buckets |-> buckets[b].performance]) = all
    <3> DEFINE groups == [b \in Buckets |-> buckets[b].performance]
    <3>1. DOMAIN groups = Buckets
      OBVIOUS
    <3>2. \A b \in Buckets : groups[b] = Performance(records, {a \in D : bucket[a] = b})
      BY DEF ScoreCalibration
    <3> HIDE DEF groups, bucket
    <3>3. Total(groups) = all
      BY <2>1, <2>6, <2>7, <3>1, <3>2, GroupsAdd
    <3> QED
      BY <3>3 DEF groups
  <2>9. Bucketed(buckets) = Cardinality(D)
    <3>1. DOMAIN buckets = Buckets
      BY DEF ScoreCalibration
    <3>2. \A b \in Buckets : buckets[b].count = Cardinality(Of(D, bucket, {b}))
      <4>1. ASSUME NEW b \in Buckets
            PROVE  Of(D, bucket, {b}) = {a \in D : BucketOf(records[a].score) = b}
        BY DEF Of
      <4> QED
        BY <4>1 DEF ScoreCalibration
    <3>3. Of(D, bucket, Buckets) = D
      BY <2>6 DEF Of
    <3> HIDE DEF buckets, bucket
    <3>4. Bucketed(buckets) = Cardinality(Of(D, bucket, Buckets))
      BY <2>1, <2>7, <3>1, <3>2, SumOfParts
    <3> QED
      BY <3>3, <3>4
  <2> HIDE DEF bucket
  <2> QED
    BY <2>3, <2>4, <2>5, <2>8, <2>9 DEF GroupsAddUp, records
<1> QED
  BY <1>1, PTL
=============================================================================
