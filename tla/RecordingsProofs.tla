---------------------------- MODULE RecordingsProofs ----------------------------
(***************************************************************************)
(* Proofs about Recordings, for every set of uploads and retention workers *)
(* and every number of days and faults.                                    *)
(***************************************************************************)
EXTENDS Recordings, TLAPS

PassType ==
    {p \in [step: {"idle", "object", "mark"}, todo: Seq(Uploads)] :
        (p.step = "idle") <=> (p.todo = <<>>)}

\* TypeOK, with the shape of a pass folded into its type.
TypeInv ==
    /\ clock \in 0..MaxDay
    /\ rows \in [Uploads -> Row]
    /\ linked \subseteq Range(CallOf)
    /\ objects \subseteq Range(KeyOf)
    /\ upload \in [Uploads -> {"idle", "stored", "tx", "created", "done"}]
    /\ tx \in [Uploads -> SUBSET Uploads]
    /\ delete \in [Uploads -> {"idle", "marked", "done"}]
    /\ pass \in [Workers -> PassType]
    /\ left \subseteq Uploads
    /\ faults \in 0..MaxFaults

LEMMA TypeInvImplies == TypeInv => TypeOK
BY DEF TypeInv, TypeOK, PassType

LEMMA RangeType ==
    ASSUME NEW u \in Uploads
    PROVE  CallOf[u] \in Range(CallOf) /\ KeyOf[u] \in Range(KeyOf)
BY ConstantsAssumption DEF Range

\* The updates of one row.
LEMMA RowType ==
    ASSUME NEW row \in Row
    PROVE  /\ \A who \in {"operator", "retention"} : [row EXCEPT !.deleted = who] \in Row
           /\ [row EXCEPT !.status = "archived"] \in Row
BY DEF Row

LEMMA NewRowType ==
    ASSUME TypeInv, NEW days \in Days \cup {0}
    PROVE  /\ NewRow(days) \in Row
           /\ NewRow(days).status = "available" /\ NewRow(days).deleted = "no"
<1>1. days \in Nat /\ clock \in Nat
  BY ConstantsAssumption DEF TypeInv
<1> QED
  BY <1>1 DEF NewRow, Row

LEMMA FaultType == TypeInv /\ Fault => faults' \in 0..MaxFaults
BY ConstantsAssumption DEF TypeInv, Fault

\* A pass that goes on drops the head of its list.
LEMMA ContinueType ==
    ASSUME TypeInv, NEW w \in Workers, pass[w].step # "idle", Continue(w)
    PROVE  /\ pass' \in [Workers -> PassType]
           /\ pass'[w].step \in {"idle", "object"}
           /\ \/ pass'[w].todo = Tail(pass[w].todo)
              \/ pass'[w].todo = <<>>
           /\ \A x \in Workers \ {w} : pass'[x] = pass[x]
<1>1. pass[w].todo \in Seq(Uploads) /\ pass[w].todo # <<>>
  BY DEF TypeInv, PassType
<1>2. Tail(pass[w].todo) \in Seq(Uploads)
  BY <1>1
<1> DEFINE rest == Tail(pass[w].todo)
           next == IF rest = <<>> THEN Idle ELSE [step |-> "object", todo |-> rest]
<1>3. pass' = [pass EXCEPT ![w] = next]
  BY DEF Continue
<1>4. /\ next \in PassType /\ next.step \in {"idle", "object"}
      /\ next.todo = Tail(pass[w].todo) \/ next.todo = <<>>
  BY <1>2 DEF PassType, Idle
<1> HIDE DEF next
<1> QED
  BY <1>3, <1>4 DEF TypeInv

\* The head of a pass that is under way.
LEMMA HeadType ==
    ASSUME TypeInv, NEW w \in Workers, pass[w].step # "idle"
    PROVE  /\ Head(pass[w].todo) \in Uploads
           /\ pass[w].todo \in Seq(Uploads) /\ pass[w].todo # <<>>
BY DEF TypeInv, PassType

LEMMA PassListsEffect ==
    ASSUME TypeInv, NEW w \in Workers, PassLists(w)
    PROVE  \E s \in Seq(ListExpiredRecordings) :
              /\ s # <<>> /\ s \in Seq(Uploads)
              /\ pass' = [pass EXCEPT ![w] = [step |-> "object", todo |-> s]]
<1>1. PICK s \in Batches(ListExpiredRecordings) :
        pass' = [pass EXCEPT ![w] = [step |-> "object", todo |-> s]]
  BY DEF PassLists
<1>2. PICK n \in 1..BatchSize : s \in [1..n -> ListExpiredRecordings]
  BY <1>1 DEF Batches
<1>3. n \in Nat \ {0}
  BY ConstantsAssumption
<1>4. s \in Seq(ListExpiredRecordings) /\ Len(s) = n
  BY <1>2, <1>3
<1>5. ListExpiredRecordings \subseteq Uploads
  BY DEF ListExpiredRecordings
<1>6. s \in Seq(Uploads)
  <2>1. s \in [1..n -> Uploads]
    BY <1>2, <1>5
  <2> QED
    BY <1>3, <2>1
<1>7. s # <<>>
  BY <1>3, <1>4
<1> QED
  BY <1>1, <1>4, <1>6, <1>7

LEMMA TypeStep == TypeInv /\ [Next]_vars => TypeInv'
<1> SUFFICES ASSUME TypeInv, [Next]_vars PROVE TypeInv'
  OBVIOUS
<1>1. CASE NewDay
  BY <1>1, ConstantsAssumption DEF NewDay, TypeInv
<1>2. ASSUME NEW u \in Uploads, UploadRefused(u) PROVE TypeInv'
  BY <1>2 DEF UploadRefused, TypeInv
<1>3. ASSUME NEW u \in Uploads, UploadStores(u) PROVE TypeInv'
  BY <1>3, RangeType DEF UploadStores, PutObject, TypeInv
<1>4. ASSUME NEW u \in Uploads, UploadArchives(u) PROVE TypeInv'
  <2>1. Superseded(u) \in SUBSET Uploads
    BY DEF Superseded
  <2> QED
    BY <1>4, <2>1 DEF UploadArchives, TypeInv
<1>5. ASSUME NEW u \in Uploads, UploadCommits(u) PROVE TypeInv'
  <2>1. PICK days \in Days \cup {0} :
          rows' = [v \in Uploads |->
                      IF v = u THEN NewRow(days)
                      ELSE IF v \in tx[u] THEN [rows[v] EXCEPT !.status = "archived"]
                      ELSE rows[v]]
    BY <1>5 DEF UploadCommits
  <2>2. \A v \in Uploads : rows[v] \in Row
    BY DEF TypeInv
  <2>3. rows' \in [Uploads -> Row]
    BY <2>1, <2>2, NewRowType, RowType
  <2> QED
    BY <1>5, <2>3 DEF UploadCommits, TypeInv
<1>6. ASSUME NEW u \in Uploads, UploadLinks(u) PROVE TypeInv'
  BY <1>6, RangeType DEF UploadLinks, TypeInv
<1>7. ASSUME NEW u \in Uploads, UploadStoreFails(u) PROVE TypeInv'
  BY <1>7, RangeType, FaultType DEF UploadStoreFails, PutObject, TypeInv
<1>8. ASSUME NEW u \in Uploads, UploadFails(u) PROVE TypeInv'
  BY <1>8, FaultType DEF UploadFails, TypeInv
<1>9. ASSUME NEW u \in Uploads, DeleteMarks(u) PROVE TypeInv'
  <2>1. rows' \in [Uploads -> Row]
    BY <1>9, RowType DEF DeleteMarks, SoftDeleteCallRecording, TypeInv
  <2> QED
    BY <1>9, <2>1 DEF DeleteMarks, TypeInv
<1>10. ASSUME NEW u \in Uploads, DeleteErases(u) PROVE TypeInv'
  BY <1>10 DEF DeleteErases, DeleteObject, TypeInv
<1>11. ASSUME NEW u \in Uploads, DeleteFails(u) PROVE TypeInv'
  BY <1>11, FaultType DEF DeleteFails, DeleteObject, TypeInv
<1>12. ASSUME NEW w \in Workers, PassLists(w) PROVE TypeInv'
  <2>1. PICK s \in Seq(Uploads) :
          s # <<>> /\ pass' = [pass EXCEPT ![w] = [step |-> "object", todo |-> s]]
    BY <1>12, PassListsEffect
  <2>2. [step |-> "object", todo |-> s] \in PassType
    BY <2>1 DEF PassType
  <2> QED
    BY <1>12, <2>1, <2>2 DEF PassLists, TypeInv
<1>13. ASSUME NEW w \in Workers, PassErases(w) PROVE TypeInv'
  <2>1. pass[w] \in PassType /\ pass[w].step = "object"
    BY <1>13 DEF PassErases, TypeInv
  <2>2. [pass[w] EXCEPT !.step = "mark"] \in PassType
    BY <2>1 DEF PassType
  <2> QED
    BY <1>13, <2>2 DEF PassErases, DeleteObject, TypeInv
<1>14. ASSUME NEW w \in Workers, PassEraseFails(w) PROVE TypeInv'
  BY <1>14, ContinueType, FaultType DEF PassEraseFails, DeleteObject, TypeInv
<1>15. ASSUME NEW w \in Workers, PassMarks(w) PROVE TypeInv'
  <2>1. rows' \in [Uploads -> Row]
    <3> DEFINE u == Head(pass[w].todo)
    <3>1. u \in Uploads
      BY <1>15, HeadType DEF PassMarks
    <3>2. UNCHANGED rows \/ rows' = [rows EXCEPT ![u].deleted = "retention"]
      BY <1>15 DEF PassMarks, SoftDeleteCallRecording
    <3> HIDE DEF u
    <3>3. rows[u] \in Row
      BY <3>1 DEF TypeInv
    <3>4. [rows[u] EXCEPT !.deleted = "retention"] \in Row
      BY <3>3, RowType
    <3> QED
      BY <3>1, <3>2, <3>4 DEF TypeInv
  <2> QED
    BY <1>15, <2>1, ContinueType DEF PassMarks, TypeInv
<1>16. ASSUME NEW w \in Workers, PassMarkFails(w) PROVE TypeInv'
  BY <1>16, ContinueType, FaultType DEF PassMarkFails, TypeInv
<1>17. ASSUME NEW w \in Workers, PassEnds(w) PROVE TypeInv'
  <2>1. Idle \in PassType
    BY DEF Idle, PassType
  <2> QED
    BY <1>17, <2>1, FaultType DEF PassEnds, TypeInv
<1>18. CASE UNCHANGED vars
  BY <1>18 DEF vars, TypeInv
<1> QED
  BY <1>1, <1>2, <1>3, <1>4, <1>5, <1>6, <1>7, <1>8, <1>9, <1>10, <1>11, <1>12,
     <1>13, <1>14, <1>15, <1>16, <1>17, <1>18
     DEF Next, UploadStep, DeleteStep, PassStep

LEMMA TypeInit == Init => TypeInv
BY ConstantsAssumption DEF Init, TypeInv, NoRow, Row, Idle, PassType

\* Type correctness of the recordings: every reachable state satisfies TypeOK, a
\* pass that is under way always has a recording to work on.
THEOREM TypeCorrect == Spec => []TypeOK
<1>1. Spec => []TypeInv
  BY TypeInit, TypeStep, PTL DEF Spec
<1> QED
  BY <1>1, TypeInvImplies, PTL

-----------------------------------------------------------------------------
(* Rows against objects *)

\* The key is made of the call and the second of the upload: no two uploads
\* share one unless a call's sessions end within one second.
DistinctKeys == \A u, v \in Uploads : KeyOf[u] = KeyOf[v] => u = v

\* One upload: its row, its object, and who is working on them.
RowOk(u) ==
    \* The row is made once, when its object is already there.
    /\ upload[u] \in {"idle", "stored", "tx"} => ~Exists(u)
    /\ ~Exists(u) => rows[u] = NoRow
    /\ upload[u] \in {"stored", "tx"} => KeyOf[u] \in objects
    /\ \A v \in Uploads : v \in tx[u] => Exists(v)
    /\ delete[u] # "idle" => Exists(u) /\ rows[u].deleted # "no"
    /\ Live(u) /\ ~PastDue(u) => KeyOf[u] \in objects
    /\ rows[u].deleted = "retention" => KeyOf[u] \notin objects
    /\ KeyOf[u] \in objects =>
         Live(u) \/ upload[u] \in {"stored", "tx"} \/ delete[u] = "marked" \/ u \in left

\* A recording on a pass's list, however old the list, is past due for good, and
\* the one about to be marked has lost its object.
PassOk(w) ==
    /\ \A u \in Range(pass[w].todo) : Exists(u) /\ PastDue(u)
    /\ pass[w].step = "mark" => KeyOf[Head(pass[w].todo)] \notin objects

RecInv == TypeInv /\ (\A u \in Uploads : RowOk(u)) /\ (\A w \in Workers : PassOk(w))

\* A row once made keeps its due date, and time goes on.
LEMMA DueForGood ==
    ASSUME RecInv, [Next]_vars, NEW u \in Uploads, Exists(u)
    PROVE  Exists(u)' /\ (PastDue(u) => PastDue(u)')
<1>0. /\ clock \in Nat /\ rows \in [Uploads -> Row] /\ rows[u].due \in Nat
  BY ConstantsAssumption DEF RecInv, TypeInv, Row
<1>1. ASSUME UNCHANGED rows, clock' \in {clock, clock + 1}
      PROVE  Exists(u)' /\ (PastDue(u) => PastDue(u)')
  BY <1>0, <1>1 DEF Exists, PastDue
<1>2. ASSUME NEW v \in Uploads, NEW who, SoftDeleteCallRecording(v, who), UNCHANGED clock
      PROVE  Exists(u)' /\ (PastDue(u) => PastDue(u)')
  <2>1. rows'[u].status = rows[u].status /\ rows'[u].due = rows[u].due
    BY <1>0, <1>2 DEF SoftDeleteCallRecording, Row
  <2> QED
    BY <1>2, <2>1 DEF Exists, PastDue
<1>3. ASSUME NEW v \in Uploads, UploadCommits(v)
      PROVE  Exists(u)' /\ (PastDue(u) => PastDue(u)')
  <2>1. u # v
    BY <1>3 DEF UploadCommits, RecInv, RowOk
  <2>2. rows'[u] = rows[u] \/ rows'[u] = [rows[u] EXCEPT !.status = "archived"]
    BY <1>3, <2>1 DEF UploadCommits
  <2>3. rows'[u].due = rows[u].due /\ rows'[u].status \in {rows[u].status, "archived"}
    BY <1>0, <2>2 DEF Row
  <2>4. UNCHANGED clock
    BY <1>3 DEF UploadCommits
  <2> QED
    BY <2>3, <2>4 DEF Exists, PastDue
<1>4. CASE NewDay \/ UNCHANGED vars
  BY <1>1, <1>4 DEF NewDay, vars
<1>5. ASSUME NEW v \in Uploads, UploadStep(v)
      PROVE  UploadCommits(v) \/ UNCHANGED <<rows, clock>>
  BY <1>5 DEF UploadStep, UploadRefused, UploadStores, UploadArchives, UploadLinks,
     UploadStoreFails, UploadFails
<1>6. ASSUME NEW v \in Uploads, DeleteStep(v)
      PROVE  \/ SoftDeleteCallRecording(v, "operator") /\ UNCHANGED clock
             \/ UNCHANGED <<rows, clock>>
  BY <1>6 DEF DeleteStep, DeleteMarks, DeleteErases, DeleteFails
<1>7. ASSUME NEW w \in Workers, PassStep(w)
      PROVE  \/ \E v \in Uploads : SoftDeleteCallRecording(v, "retention") /\ UNCHANGED clock
             \/ UNCHANGED <<rows, clock>>
  <2>1. CASE PassMarks(w)
    <3>1. Head(pass[w].todo) \in Uploads
      BY <2>1, HeadType DEF PassMarks, RecInv
    <3> QED
      BY <2>1, <3>1 DEF PassMarks
  <2> QED
    BY <1>7, <2>1 DEF PassStep, PassLists, PassErases, PassEraseFails, PassMarkFails,
       PassEnds
<1> QED
  BY <1>1, <1>2, <1>3, <1>4, <1>5, <1>6, <1>7 DEF Next

\* What a step does to a pass: nothing, a new list of expired recordings, the
\* next recording of the list, or the erasure of the one at its head.
LEMMA PassMoves ==
    ASSUME TypeInv, [Next]_vars, NEW w \in Workers
    PROVE  \/ pass'[w] = pass[w]
           \/ pass'[w].todo \in Seq(ListExpiredRecordings) /\ pass'[w].step = "object"
           \/ /\ pass[w].step # "idle" /\ pass'[w].step \in {"idle", "object"}
              /\ pass'[w].todo \in {Tail(pass[w].todo), <<>>}
           \/ /\ pass[w].step = "object" /\ pass'[w].step = "mark"
              /\ pass'[w].todo = pass[w].todo
              /\ DeleteObject(Head(pass[w].todo))
<1> DEFINE Goal ==
      \/ pass'[w] = pass[w]
      \/ pass'[w].todo \in Seq(ListExpiredRecordings) /\ pass'[w].step = "object"
      \/ /\ pass[w].step # "idle" /\ pass'[w].step \in {"idle", "object"}
         /\ pass'[w].todo \in {Tail(pass[w].todo), <<>>}
      \/ /\ pass[w].step = "object" /\ pass'[w].step = "mark"
         /\ pass'[w].todo = pass[w].todo
         /\ DeleteObject(Head(pass[w].todo))
<1>0. pass \in [Workers -> PassType] /\ pass[w] \in PassType
  BY DEF TypeInv
<1>1. ASSUME UNCHANGED pass PROVE Goal
  BY <1>1
<1>2. ASSUME NEW x \in Workers, x # w, PassStep(x) PROVE pass'[w] = pass[w]
  <2>1. CASE PassLists(x) \/ PassErases(x) \/ PassEnds(x)
    BY <1>0, <1>2, <2>1 DEF PassLists, PassErases, PassEnds
  <2>2. CASE PassEraseFails(x) \/ PassMarks(x) \/ PassMarkFails(x)
    BY <1>2, <2>2, ContinueType DEF PassEraseFails, PassMarks, PassMarkFails
  <2> QED
    BY <1>2, <2>1, <2>2 DEF PassStep
<1>3. CASE PassLists(w)
  BY <1>0, <1>3, PassListsEffect
<1>4. CASE PassErases(w)
  <2>1. pass'[w] = [pass[w] EXCEPT !.step = "mark"]
    BY <1>0, <1>4 DEF PassErases
  <2>2. pass'[w].step = "mark" /\ pass'[w].todo = pass[w].todo
    BY <1>0, <2>1 DEF PassType
  <2> QED
    BY <1>4, <2>2 DEF PassErases
<1>5. CASE PassEraseFails(w) \/ PassMarks(w) \/ PassMarkFails(w)
  BY <1>5, ContinueType DEF PassEraseFails, PassMarks, PassMarkFails
<1>6. CASE PassEnds(w)
  <2>1. pass'[w] = Idle /\ pass[w].step # "idle"
    BY <1>0, <1>6 DEF PassEnds
  <2> QED
    BY <2>1 DEF Idle
<1>7. ASSUME NEW u \in Uploads, UploadStep(u) \/ DeleteStep(u) PROVE UNCHANGED pass
  BY <1>7 DEF UploadStep, UploadRefused, UploadStores, UploadArchives, UploadCommits,
     UploadLinks, UploadStoreFails, UploadFails,
     DeleteStep, DeleteMarks, DeleteErases, DeleteFails
<1>8. ASSUME NewDay \/ UNCHANGED vars PROVE UNCHANGED pass
  BY <1>8 DEF NewDay, vars
<1>9. Goal
  BY <1>1, <1>2, <1>3, <1>4, <1>5, <1>6, <1>7, <1>8 DEF Next, PassStep
<1> QED
  BY <1>9

\* Only an upload that has no row yet brings an object in.
LEMMA PutStep ==
    ASSUME DistinctKeys, RecInv, [Next]_vars, NEW u \in Uploads, Exists(u),
           KeyOf[u] \notin objects
    PROVE  KeyOf[u] \notin objects'
<1>1. ASSUME NEW v \in Uploads, upload[v] = "idle", PutObject(v)
      PROVE  KeyOf[u] \notin objects'
  <2>1. v # u
    BY <1>1 DEF RecInv, RowOk
  <2> QED
    BY <1>1, <2>1 DEF DistinctKeys, PutObject
<1>2. ASSUME NEW v, DeleteObject(v) PROVE KeyOf[u] \notin objects'
  BY <1>2 DEF DeleteObject
<1>3. CASE UNCHANGED objects
  BY <1>3
<1>4. ASSUME NEW v \in Uploads, UploadStep(v)
      PROVE  UNCHANGED objects \/ (upload[v] = "idle" /\ PutObject(v))
  BY <1>4 DEF UploadStep, UploadRefused, UploadStores, UploadArchives, UploadCommits,
     UploadLinks, UploadStoreFails, UploadFails
<1>5. ASSUME NEW v \in Uploads, DeleteStep(v) PROVE UNCHANGED objects \/ DeleteObject(v)
  BY <1>5 DEF DeleteStep, DeleteMarks, DeleteErases, DeleteFails
<1>6. ASSUME NEW w \in Workers, PassStep(w)
      PROVE  UNCHANGED objects \/ DeleteObject(Head(pass[w].todo))
  BY <1>6 DEF PassStep, PassLists, PassErases, PassEraseFails, PassMarks, PassMarkFails,
     PassEnds
<1>7. CASE NewDay \/ UNCHANGED vars
  BY <1>3, <1>7 DEF NewDay, vars
<1> QED
  BY <1>1, <1>2, <1>3, <1>4, <1>5, <1>6, <1>7 DEF Next

\* The list of a pass, and what is left of it.
LEMMA PassList ==
    ASSUME NEW s \in Seq(Uploads)
    PROVE  /\ Range(s) \subseteq Uploads
           /\ s # <<>> => /\ Head(s) \in Range(s)
                          /\ Tail(s) \in Seq(Uploads)
                          /\ Range(Tail(s)) \subseteq Range(s)
<1>1. Range(s) \subseteq Uploads
  BY DEF Range
<1>2. ASSUME s # <<>> PROVE Head(s) \in Range(s)
  <2>1. Head(s) = s[1] /\ 1 \in DOMAIN s
    BY <1>2
  <2> QED
    BY <2>1 DEF Range
<1>3. ASSUME s # <<>>, NEW i \in DOMAIN Tail(s) PROVE Tail(s)[i] \in Range(s)
  <2>1. i + 1 \in DOMAIN s /\ Tail(s)[i] = s[i + 1]
    BY <1>3
  <2> QED
    BY <2>1 DEF Range
<1>4. ASSUME s # <<>> PROVE Range(Tail(s)) \subseteq Range(s)
  BY <1>3, <1>4 DEF Range
<1> QED
  BY <1>1, <1>2, <1>4

LEMMA PassOkStep ==
    ASSUME DistinctKeys, RecInv, [Next]_vars, NEW w \in Workers
    PROVE  PassOk(w)'
<1>0. /\ TypeInv /\ PassOk(w) /\ pass[w] \in PassType /\ pass[w].todo \in Seq(Uploads)
  BY DEF RecInv, TypeInv, PassType
<1>1. \A u \in Range(pass[w].todo) : u \in Uploads /\ Exists(u)' /\ PastDue(u)'
  BY <1>0, PassList, DueForGood DEF PassOk
<1>2. ASSUME pass[w].step # "idle"
      PROVE  /\ pass[w].todo # <<>>
             /\ Head(pass[w].todo) \in Uploads /\ Exists(Head(pass[w].todo))
  <2>1. pass[w].todo # <<>>
    BY <1>0, <1>2 DEF PassType
  <2> QED
    BY <1>0, <2>1, PassList DEF PassOk
<1>3. CASE pass'[w] = pass[w]
  <2>1. ASSUME pass[w].step = "mark" PROVE KeyOf[Head(pass[w].todo)] \notin objects'
    <3>1. PICK u \in Uploads : u = Head(pass[w].todo) /\ Exists(u) /\ KeyOf[u] \notin objects
      BY <1>0, <1>2, <2>1 DEF PassOk
    <3> QED
      BY <3>1, PutStep
  <2> QED
    BY <1>1, <1>3, <2>1 DEF PassOk
<1>4. CASE pass'[w].todo \in Seq(ListExpiredRecordings) /\ pass'[w].step = "object"
  <2>1. \A u \in Range(pass'[w].todo) : u \in ListExpiredRecordings
    BY <1>4 DEF Range
  <2>2. \A u \in ListExpiredRecordings : Exists(u)' /\ PastDue(u)'
    BY DueForGood DEF ListExpiredRecordings, Live
  <2> QED
    BY <1>4, <2>1, <2>2 DEF PassOk
<1>5. CASE /\ pass[w].step # "idle" /\ pass'[w].step \in {"idle", "object"}
           /\ pass'[w].todo \in {Tail(pass[w].todo), <<>>}
  <2>1. Range(<<>>) = {}
    BY DEF Range
  <2>2. Range(pass'[w].todo) \subseteq Range(pass[w].todo)
    BY <1>0, <1>2, <1>5, <2>1, PassList
  <2> QED
    BY <1>1, <1>5, <2>2 DEF PassOk
<1>6. CASE /\ pass[w].step = "object" /\ pass'[w].step = "mark"
           /\ pass'[w].todo = pass[w].todo
           /\ DeleteObject(Head(pass[w].todo))
  BY <1>1, <1>6 DEF PassOk, DeleteObject
<1> QED
  BY <1>0, <1>3, <1>4, <1>5, <1>6, PassMoves

\* An object is erased for good: its row is deleted or past due.
Erasable(u) == Exists(u) /\ (Live(u) => PastDue(u)) /\ upload[u] \notin {"stored", "tx"}

LEMMA EraseStep ==
    ASSUME DistinctKeys, TypeInv, NEW x \in Uploads, RowOk(x), NEW u \in Uploads,
           Erasable(u), DeleteObject(u), UNCHANGED <<clock, rows, upload>>,
           tx'[x] = tx[x], left \subseteq left',
           \/ delete'[x] = delete[x]
           \/ x = u /\ delete[x] = "marked" /\ delete'[x] = "done"
    PROVE  RowOk(x)'
<1>1. KeyOf[x] \in objects' <=> KeyOf[x] \in objects /\ x # u
  BY DEF DistinctKeys, DeleteObject
<1>2. \A v \in Uploads : Exists(v)' <=> Exists(v)
  BY DEF Exists
<1>3. (Live(x)' <=> Live(x)) /\ (PastDue(x)' <=> PastDue(x))
  BY DEF Live, Exists, PastDue
<1>4. CASE x = u
  BY <1>1, <1>2, <1>3, <1>4 DEF RowOk, Erasable
<1>5. CASE x # u
  BY <1>1, <1>2, <1>3, <1>5 DEF RowOk
<1> QED
  BY <1>4, <1>5

\* A step that leaves the rows and the store alone.
LEMMA CalmStep ==
    ASSUME TypeInv, NEW x \in Uploads, RowOk(x),
           UNCHANGED <<clock, rows, objects>>, delete'[x] = delete[x],
           left \subseteq left',
           \A v \in Uploads : v \in tx'[x] => Exists(v),
           \/ upload'[x] = upload[x]
           \/ upload[x] \in {"stored", "tx"} /\ upload'[x] \in {"stored", "tx"}
           \/ /\ upload[x] \in {"stored", "tx"} => x \in left'
              /\ upload'[x] = "done"
    PROVE  RowOk(x)'
<1>1. \A v \in Uploads : Exists(v)' <=> Exists(v)
  BY DEF Exists
<1>2. (Live(x)' <=> Live(x)) /\ (PastDue(x)' <=> PastDue(x))
  BY DEF Live, Exists, PastDue
<1> QED
  BY <1>1, <1>2 DEF RowOk

LEMMA UploadRows ==
    ASSUME DistinctKeys, RecInv, NEW x \in Uploads, NEW u \in Uploads, UploadStep(u)
    PROVE  RowOk(x)'
<1>0. /\ TypeInv /\ RowOk(x) /\ RowOk(u)
      /\ upload \in [Uploads -> {"idle", "stored", "tx", "created", "done"}]
      /\ tx \in [Uploads -> SUBSET Uploads] /\ rows \in [Uploads -> Row]
  BY DEF RecInv, TypeInv
<1>1. \A v \in Uploads : v \in tx[x] => Exists(v)
  BY <1>0 DEF RowOk
<1>2. CASE UploadRefused(u) \/ UploadLinks(u)
  <2>1. upload'[x] = upload[x] \/ (x = u /\ upload[x] \notin {"stored", "tx"} /\ upload'[x] = "done")
    BY <1>0, <1>2 DEF UploadRefused, UploadLinks
  <2>2. UNCHANGED <<clock, rows, objects, delete, left, tx>>
    BY <1>2 DEF UploadRefused, UploadLinks
  <2> QED
    BY <1>0, <1>1, <2>1, <2>2, CalmStep
<1>3. CASE UploadArchives(u)
  <2>1. /\ UNCHANGED <<clock, rows, objects, delete, left>>
        /\ upload'[x] = upload[x] \/ (upload[x] = "stored" /\ upload'[x] = "tx")
    BY <1>0, <1>3 DEF UploadArchives
  <2>2. tx'[x] = tx[x] \/ tx'[x] = Superseded(u)
    BY <1>0, <1>3 DEF UploadArchives
  <2>3. \A v \in Uploads : v \in tx'[x] => Exists(v)
    BY <1>1, <2>2 DEF Superseded, Live
  <2> QED
    BY <1>0, <2>1, <2>3, CalmStep
<1>4. CASE UploadFails(u)
  <2>1. UNCHANGED <<clock, rows, objects, delete>> /\ left \subseteq left'
    BY <1>4 DEF UploadFails
  <2>2. tx'[x] \in {tx[x], {}}
    BY <1>0, <1>4 DEF UploadFails
  <2>3. CASE x = u
    <3>1. upload'[x] = "done" /\ (upload[x] \in {"stored", "tx"} => x \in left')
      BY <1>0, <1>4, <2>3 DEF UploadFails
    <3> QED
      BY <1>0, <1>1, <2>1, <2>2, <3>1, CalmStep
  <2>4. CASE x # u
    <3>1. upload'[x] = upload[x]
      BY <1>0, <1>4, <2>4 DEF UploadFails
    <3> QED
      BY <1>0, <1>1, <2>1, <2>2, <3>1, CalmStep
  <2> QED
    BY <2>3, <2>4
<1>5. CASE UploadStores(u) \/ UploadStoreFails(u)
  <2>1. /\ UNCHANGED <<clock, rows, delete, tx>> /\ left \subseteq left'
        /\ UNCHANGED objects \/ objects' = objects \cup {KeyOf[u]}
    BY <1>5 DEF UploadStores, UploadStoreFails, PutObject
  <2>2. (Live(x)' <=> Live(x)) /\ (PastDue(x)' <=> PastDue(x))
    BY <2>1 DEF Live, Exists, PastDue
  <2>3. \A v \in Uploads : Exists(v)' <=> Exists(v)
    BY <2>1 DEF Exists
  <2>4. CASE x # u
    <3>1. upload'[x] = upload[x]
      BY <1>0, <1>5, <2>4 DEF UploadStores, UploadStoreFails
    <3>2. KeyOf[x] \in objects' <=> KeyOf[x] \in objects
      BY <2>1, <2>4 DEF DistinctKeys
    <3> QED
      BY <1>0, <2>1, <2>2, <2>3, <3>1, <3>2 DEF RowOk
  <2>5. CASE x = u
    <3>1. /\ upload[x] = "idle"
          /\ \/ upload'[x] = "stored" /\ KeyOf[x] \in objects'
             \/ upload'[x] = "done" /\ x \in left'
      BY <1>0, <1>5, <2>5 DEF UploadStores, UploadStoreFails, PutObject
    <3>2. ~Exists(x) /\ rows[x].deleted = "no" /\ delete[x] = "idle"
      BY <1>0, <3>1 DEF RowOk, NoRow
    <3> QED
      BY <1>0, <2>1, <2>2, <2>3, <3>1, <3>2 DEF RowOk, Live
  <2> QED
    BY <2>4, <2>5
<1>6. CASE UploadCommits(u)
  <2>1. PICK days \in Days \cup {0} :
          rows' = [v \in Uploads |->
                      IF v = u THEN NewRow(days)
                      ELSE IF v \in tx[u] THEN [rows[v] EXCEPT !.status = "archived"]
                      ELSE rows[v]]
    BY <1>6 DEF UploadCommits
  <2>2. UNCHANGED <<clock, objects, delete, left>> /\ tx'[x] \in {tx[x], {}}
    BY <1>0, <1>6 DEF UploadCommits
  <2>3. upload[u] = "tx" /\ upload'[u] = "created" /\ (x # u => upload'[x] = upload[x])
    BY <1>0, <1>6 DEF UploadCommits
  <2>4. ~Exists(u) /\ delete[u] = "idle" /\ KeyOf[u] \in objects
    BY <1>0, <2>3 DEF RowOk
  <2>5. \A v \in Uploads : v \in tx[u] => Exists(v)
    BY <1>0 DEF RowOk
  <2>6. rows'[u] = NewRow(days)
    BY <2>1
  <2>7. Exists(u)' /\ Live(u)' /\ rows'[u].deleted = "no"
    BY <2>6 DEF NewRow, Exists, Live
  <2>8. ASSUME NEW v \in Uploads, v # u
        PROVE  /\ Exists(v)' <=> Exists(v)
               /\ Live(v)' <=> Live(v)
               /\ PastDue(v)' <=> PastDue(v)
               /\ rows'[v].deleted = rows[v].deleted
               /\ ~Exists(v) => rows'[v] = rows[v]
    <3>1. rows[v] \in Row
      BY <1>0
    <3>2. CASE v \in tx[u]
      <4>1. rows'[v] = [rows[v] EXCEPT !.status = "archived"] /\ Exists(v)
        BY <2>1, <2>5, <2>8, <3>2
      <4>2. /\ rows'[v].status = "archived" /\ rows'[v].deleted = rows[v].deleted
            /\ rows'[v].due = rows[v].due
        BY <3>1, <4>1 DEF Row
      <4> QED
        BY <2>2, <4>1, <4>2 DEF Exists, Live, PastDue
    <3>3. CASE v \notin tx[u]
      <4>1. rows'[v] = rows[v]
        BY <2>1, <2>8, <3>3
      <4> QED
        BY <2>2, <4>1 DEF Exists, Live, PastDue
    <3> QED
      BY <3>2, <3>3
  <2>9. \A v \in Uploads : v \in tx'[x] => Exists(v)'
    BY <1>1, <2>2, <2>7, <2>8
  <2>10. CASE x = u
    BY <2>2, <2>3, <2>4, <2>7, <2>9, <2>10 DEF RowOk
  <2>11. CASE x # u
    BY <1>0, <2>2, <2>3, <2>8, <2>9, <2>11 DEF RowOk
  <2> QED
    BY <2>10, <2>11
<1> QED
  BY <1>2, <1>3, <1>4, <1>5, <1>6 DEF UploadStep

\* Marking a live row deleted, for the operator or by the worker once the object
\* is gone.
LEMMA MarkRows ==
    ASSUME DistinctKeys, TypeInv, NEW x \in Uploads, RowOk(x),
           NEW u \in Uploads, NEW who \in {"operator", "retention"},
           Live(u), SoftDeleteCallRecording(u, who),
           UNCHANGED <<clock, objects, upload, tx, left>>,
           \/ who = "operator" /\ delete' = [delete EXCEPT ![u] = "marked"]
           \/ who = "retention" /\ UNCHANGED delete /\ KeyOf[u] \notin objects
    PROVE  RowOk(x)'
<1>0. /\ rows \in [Uploads -> Row] /\ delete \in [Uploads -> {"idle", "marked", "done"}]
  BY DEF TypeInv
<1>1. ASSUME NEW v \in Uploads
      PROVE  /\ Exists(v)' <=> Exists(v)
             /\ PastDue(v)' <=> PastDue(v)
             /\ rows'[v].deleted = IF v = u THEN who ELSE rows[v].deleted
             /\ v # u => rows'[v] = rows[v]
  <2>1. /\ rows'[v].status = rows[v].status /\ rows'[v].due = rows[v].due
        /\ rows'[v].deleted = IF v = u THEN who ELSE rows[v].deleted
        /\ v # u => rows'[v] = rows[v]
    BY <1>0 DEF SoftDeleteCallRecording, Row
  <2> QED
    BY <2>1 DEF Exists, PastDue
<1>2. CASE x = u
  <2>1. Exists(x) /\ Exists(x)' /\ ~Live(x)' /\ rows'[x].deleted = who
    BY <1>1, <1>2 DEF Live
  <2>2. delete'[x] = IF who = "operator" THEN "marked" ELSE delete[x]
    BY <1>0, <1>2
  <2> QED
    BY <1>1, <1>2, <2>1, <2>2 DEF RowOk
<1>3. CASE x # u
  <2>1. delete'[x] = delete[x]
    BY <1>0, <1>3
  <2> QED
    BY <1>1, <1>3, <2>1 DEF RowOk, Live
<1> QED
  BY <1>2, <1>3

LEMMA DeleteRows ==
    ASSUME DistinctKeys, RecInv, NEW x \in Uploads, NEW u \in Uploads, DeleteStep(u)
    PROVE  RowOk(x)'
<1>0. /\ TypeInv /\ RowOk(x) /\ RowOk(u) /\ delete \in [Uploads -> {"idle", "marked", "done"}]
  BY DEF RecInv, TypeInv
<1>1. CASE DeleteMarks(u)
  BY <1>0, <1>1, MarkRows DEF DeleteMarks
<1>2. CASE DeleteErases(u) \/ DeleteFails(u)
  <2>1. /\ delete[u] = "marked"
        /\ UNCHANGED <<clock, rows, upload, tx>> /\ left \subseteq left'
        /\ delete' = [delete EXCEPT ![u] = "done"]
        /\ DeleteObject(u) \/ (UNCHANGED objects /\ u \in left')
    BY <1>2 DEF DeleteErases, DeleteFails
  <2>2. Erasable(u)
    BY <1>0, <2>1 DEF RowOk, Erasable, Live
  <2>3. delete'[x] = IF x = u THEN "done" ELSE delete[x]
    BY <1>0, <2>1
  <2>4. CASE DeleteObject(u)
    BY <1>0, <2>1, <2>2, <2>3, <2>4, EraseStep
  <2>5. CASE UNCHANGED objects /\ u \in left'
    <3>1. \A v \in Uploads : Exists(v)' <=> Exists(v)
      BY <2>1 DEF Exists
    <3>2. (Live(x)' <=> Live(x)) /\ (PastDue(x)' <=> PastDue(x))
      BY <2>1 DEF Live, Exists, PastDue
    <3> QED
      BY <1>0, <2>1, <2>3, <2>5, <3>1, <3>2 DEF RowOk
  <2> QED
    BY <2>1, <2>4, <2>5
<1> QED
  BY <1>1, <1>2 DEF DeleteStep

LEMMA PassRows ==
    ASSUME DistinctKeys, RecInv, NEW x \in Uploads, NEW w \in Workers, PassStep(w)
    PROVE  RowOk(x)'
<1>0. TypeInv /\ RowOk(x) /\ PassOk(w) /\ pass[w] \in PassType /\ tx[x] \in SUBSET Uploads
  BY DEF RecInv, TypeInv
<1>1. \A v \in Uploads : v \in tx[x] => Exists(v)
  BY <1>0 DEF RowOk
<1>2. CASE PassLists(w) \/ PassMarkFails(w) \/ PassEnds(w)
  <2>1. UNCHANGED <<clock, rows, objects, upload, tx, delete, left>>
    BY <1>2 DEF PassLists, PassMarkFails, PassEnds
  <2> QED
    BY <1>0, <1>1, <2>1, CalmStep
<1>3. ASSUME pass[w].step # "idle"
      PROVE  \E u \in Uploads : u = Head(pass[w].todo) /\ Exists(u) /\ PastDue(u)
  <2>1. pass[w].todo \in Seq(Uploads) /\ pass[w].todo # <<>>
    BY <1>0, <1>3 DEF PassType
  <2> QED
    BY <1>0, <2>1, PassList DEF PassOk
<1>4. CASE PassErases(w) \/ PassEraseFails(w)
  <2>1. /\ UNCHANGED <<clock, rows, upload, tx, delete, left>>
        /\ pass[w].step = "object"
        /\ DeleteObject(Head(pass[w].todo)) \/ UNCHANGED objects
    BY <1>4 DEF PassErases, PassEraseFails
  <2>2. PICK u \in Uploads : u = Head(pass[w].todo) /\ Exists(u) /\ PastDue(u)
    BY <1>3, <2>1
  <2>3. RowOk(u)
    BY DEF RecInv
  <2>4. Erasable(u)
    BY <2>2, <2>3 DEF RowOk, Erasable
  <2>5. CASE DeleteObject(u)
    BY <1>0, <2>1, <2>4, <2>5, EraseStep
  <2>6. CASE UNCHANGED objects
    BY <1>0, <1>1, <2>1, <2>6, CalmStep
  <2> QED
    BY <2>1, <2>2, <2>5, <2>6
<1>5. CASE PassMarks(w)
  <2>1. /\ UNCHANGED <<clock, objects, upload, tx, delete, left>>
        /\ pass[w].step = "mark"
    BY <1>5 DEF PassMarks
  <2>2. PICK u \in Uploads : u = Head(pass[w].todo)
    BY <1>3, <2>1
  <2>3. KeyOf[u] \notin objects
    BY <1>0, <2>1, <2>2 DEF PassOk
  <2>4. CASE Live(u) /\ SoftDeleteCallRecording(u, "retention")
    BY <1>0, <2>1, <2>3, <2>4, MarkRows
  <2>5. CASE UNCHANGED rows
    BY <1>0, <1>1, <2>1, <2>5, CalmStep
  <2> QED
    BY <1>5, <2>2, <2>4, <2>5 DEF PassMarks
<1> QED
  BY <1>2, <1>4, <1>5 DEF PassStep

LEMMA RecStep ==
    ASSUME DistinctKeys
    PROVE  RecInv /\ [Next]_vars => RecInv'
<1> SUFFICES ASSUME RecInv, [Next]_vars PROVE RecInv'
  OBVIOUS
<1>1. ASSUME NEW x \in Uploads PROVE RowOk(x)'
  <2>1. CASE NewDay
    <3>1. TypeInv /\ RowOk(x) /\ tx[x] \in SUBSET Uploads
      BY DEF RecInv, TypeInv
    <3>2. UNCHANGED <<rows, objects, upload, tx, delete, left>>
      BY <2>1 DEF NewDay
    <3>3. \A v \in Uploads : Exists(v)' <=> Exists(v)
      BY <3>2 DEF Exists
    <3>4. (Live(x)' <=> Live(x)) /\ (Live(x) /\ PastDue(x) => PastDue(x)')
      BY <3>2, DueForGood DEF Live, Exists
    <3> QED
      BY <3>1, <3>2, <3>3, <3>4 DEF RowOk
  <2>2. CASE UNCHANGED vars
    BY <1>1, <2>2, CalmStep DEF vars, RecInv, RowOk
  <2> QED
    BY <1>1, <2>1, <2>2, UploadRows, DeleteRows, PassRows DEF Next
<1>2. ASSUME NEW w \in Workers PROVE PassOk(w)'
  BY <1>2, PassOkStep
<1>3. TypeInv'
  BY TypeStep DEF RecInv
<1> QED
  BY <1>1, <1>2, <1>3 DEF RecInv

LEMMA RecInit == Init => RecInv
<1> SUFFICES ASSUME Init PROVE RecInv
  OBVIOUS
<1>1. ASSUME NEW u \in Uploads PROVE RowOk(u)
  BY <1>1 DEF Init, RowOk, Exists, Live, NoRow
<1>2. ASSUME NEW w \in Workers PROVE PassOk(w)
  <2>1. pass[w].todo = <<>> /\ pass[w].step = "idle"
    BY <1>2 DEF Init, Idle
  <2> QED
    BY <2>1 DEF PassOk, Range
<1> QED
  BY <1>1, <1>2, TypeInit DEF RecInv

LEMMA RecAlways ==
    ASSUME DistinctKeys
    PROVE  Spec => []RecInv
BY RecInit, RecStep, PTL DEF Spec

\* What the portal links to can be played until its retention is over: however
\* stale the lists of the workers' passes are and whatever fails half way, a row
\* that is not deleted and not past due has its object (PutObject before INSERT
\* in handleInternalRecording, the filter of ListExpiredRecordings).
THEOREM PlayableRecordings ==
    ASSUME DistinctKeys
    PROVE  Spec => []Playable
<1>1. RecInv => Playable
  BY DEF RecInv, RowOk, Playable
<1> QED
  BY <1>1, RecAlways, PTL

\* Retention marks no row whose object is still stored, and an object without a
\* live row is the work of a request under way or of one that failed (retention.go
\* and the order of the handlers' steps).
THEOREM AccountedObjects ==
    ASSUME DistinctKeys
    PROVE  Spec => []ObjectsAccounted
<1>1. RecInv => ObjectsAccounted
  BY DEF RecInv, RowOk, ObjectsAccounted, RetentionErases, OrphansComeFromFaults
<1> QED
  BY <1>1, RecAlways, PTL
=============================================================================
