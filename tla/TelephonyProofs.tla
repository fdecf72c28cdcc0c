--------------------------- MODULE TelephonyProofs ---------------------------
(***************************************************************************)
(* Proofs about the telephone side: the trunks and the ps_* rows Asterisk  *)
(* reads, the AudioSocket connection with its recorder, answering machine  *)
(* detection, and the routing of inbound calls.                            *)
(***************************************************************************)
EXTENDS Routing, Trunks, AudioSocket, AnsweringMachine, FiniteSetTheorems, TLAPS

-----------------------------------------------------------------------------
(* Trunks.  A ps_* row belongs to one trunk, because the endpoint names of  *)
(* the trunks are distinct; and every trunk has its row, unless a request   *)
(* removed the rows of a name that was no longer its trunk's.               *)

DistinctEndpoints ==
    \A t, u \in Trunks :
        Present(t) /\ Present(u) /\ trunkRow[t].endpoint = trunkRow[u].endpoint => t = u

EveryTrunkHasItsRow ==
    ~overlapped => \A t \in Trunks :
        Present(t) => psRow[trunkRow[t].endpoint] = trunkRow[t].password

EveryRowHasItsTrunk ==
    ~overlapped => \A e \in Endpoints :
        psRow[e] = Missing \/ \E t \in Trunks : Present(t) /\ trunkRow[t].endpoint = e

\* TrunkInv made inductive.
TrunkIndInv ==
    /\ TrunkTypeOK
    /\ DistinctEndpoints
    /\ EveryTrunkHasItsRow
    /\ EveryRowHasItsTrunk

LEMMA NoTrunkHasNoRow == NoTrunk \notin TrunkRows
BY TrunkAssumption DEF NoTrunk, TrunkRows

LEMMA TrunkIndImplies == TrunkIndInv => TrunkInv
<1> SUFFICES ASSUME TrunkIndInv, ~overlapped, NEW e \in Endpoints
             PROVE  psRow[e] = IF \E t \in Trunks : Present(t) /\ trunkRow[t].endpoint = e
                                 THEN trunkRow[CHOOSE t \in Trunks :
                                        Present(t) /\ trunkRow[t].endpoint = e].password
                                 ELSE Missing
  BY DEF TrunkInv, PeersOfTrunks, TrunkIndInv
<1>1. CASE ~\E t \in Trunks : Present(t) /\ trunkRow[t].endpoint = e
  BY <1>1 DEF TrunkIndInv, EveryRowHasItsTrunk
<1>2. CASE \E t \in Trunks : Present(t) /\ trunkRow[t].endpoint = e
  <2> DEFINE c == CHOOSE t \in Trunks : Present(t) /\ trunkRow[t].endpoint = e
  <2>1. c \in Trunks /\ Present(c) /\ trunkRow[c].endpoint = e
    BY <1>2
  <2>2. psRow[e] = trunkRow[c].password
    BY <2>1 DEF TrunkIndInv, EveryTrunkHasItsRow
  <2> QED
    BY <1>2, <2>2
<1> QED
  BY <1>1, <1>2

LEMMA TrunkIndInit == TrunkInit => TrunkIndInv
<1> SUFFICES ASSUME TrunkInit PROVE TrunkIndInv
  OBVIOUS
<1>1. TrunkTypeOK
  <2>1. numbers \in [Trunks -> 0..1] /\ \A t \in Trunks : ~(numbers[t] > 0)
    BY DEF TrunkInit
  <2>2. trunkEdits \in 0..MaxTrunkEdits
    BY TrunkAssumption DEF TrunkInit
  <2> QED
    BY <2>1, <2>2 DEF TrunkInit, TrunkTypeOK
<1>2. \A t \in Trunks : ~Present(t)
  BY DEF TrunkInit, Present
<1>3. \A e \in Endpoints : psRow[e] = Missing
  BY DEF TrunkInit
<1> QED
  BY <1>1, <1>2, <1>3
  DEF TrunkIndInv, DistinctEndpoints, EveryTrunkHasItsRow, EveryRowHasItsTrunk

\* The rows of sip_trunks and the requests keep their types, whatever request
\* overwrites them.
LEMMA TrunkTypeStep ==
    ASSUME TrunkTypeOK, [TrunkNext]_trunkVars
    PROVE  TrunkTypeOK'
<1> USE TrunkAssumption, NoTrunkHasNoRow
<1>1. /\ trunkRow \in [Trunks -> TrunkRows \cup {NoTrunk}]
      /\ psRow \in [Endpoints -> Passwords \cup {Missing}]
      /\ numbers \in [Trunks -> 0..1]
      /\ edit \in [Admins -> Edits \cup {NoEdit}]
      /\ trunkEdits \in 0..MaxTrunkEdits /\ MaxTrunkEdits \in Nat
      /\ overlapped \in BOOLEAN
      /\ \A t \in Trunks : numbers[t] > 0 => trunkRow[t] # NoTrunk
  BY DEF TrunkTypeOK, Present
<1>2. ASSUME TrunkCounted PROVE trunkEdits' \in 0..MaxTrunkEdits
  BY <1>1, <1>2 DEF TrunkCounted
<1>3. ASSUME NEW t \in Trunks, NEW e \in Endpoints, NEW p \in Passwords,
             CreateTrunk(t, e, p)
      PROVE  TrunkTypeOK'
  <2>1. [endpoint |-> e, password |-> p] \in TrunkRows
    BY DEF TrunkRows
  <2> QED
    BY <1>1, <1>2, <1>3, <2>1
    DEF CreateTrunk, TrunkTypeOK, Present, UpsertRealtimeTrunk
<1>4. ASSUME NEW a \in Admins, NEW t \in Trunks, NEW e \in Endpoints,
             NEW p \in Passwords \cup {Masked}, UpdateTrunkReads(a, t, e, p)
      PROVE  TrunkTypeOK'
  <2>1. trunkRow[t] \in TrunkRows
    BY <1>1, <1>4 DEF UpdateTrunkReads, Present
  <2>2. [op |-> "update", trunk |-> t, old |-> trunkRow[t], endpoint |-> e,
         password |-> p] \in Edits
    BY <2>1 DEF Edits
  <2> QED
    BY <1>1, <1>2, <1>4, <2>2 DEF UpdateTrunkReads, TrunkTypeOK, Present
<1>5. ASSUME NEW a \in Admins, NEW t \in Trunks, DeleteTrunkReads(a, t)
      PROVE  TrunkTypeOK'
  <2>1. trunkRow[t] \in TrunkRows
    BY <1>1, <1>5 DEF DeleteTrunkReads, Present
  <2>2. [op |-> "delete", trunk |-> t, old |-> trunkRow[t]] \in Edits
    BY <2>1 DEF Edits
  <2> QED
    BY <1>1, <1>2, <1>5, <2>2 DEF DeleteTrunkReads, TrunkTypeOK, Present
<1>6. ASSUME NEW a \in Admins, UpdateTrunkWrites(a) PROVE TrunkTypeOK'
  <2>1. /\ edit[a].trunk \in Trunks /\ edit[a].endpoint \in Endpoints
        /\ PasswordOf(edit[a]) \in Passwords
    BY <1>1, <1>6 DEF UpdateTrunkWrites, Edits, NoEdit, PasswordOf, TrunkRows
  <2>2. [endpoint |-> edit[a].endpoint, password |-> PasswordOf(edit[a])] \in TrunkRows
    BY <2>1 DEF TrunkRows
  <2>3. /\ edit' \in [Admins -> Edits \cup {NoEdit}]
        /\ numbers' = numbers /\ trunkEdits' = trunkEdits
        /\ overlapped' \in BOOLEAN
    BY <1>1, <1>6 DEF UpdateTrunkWrites, Answered, Stale
  <2>4. psRow' \in [Endpoints -> Passwords \cup {Missing}]
    BY <1>1, <1>6, <2>1 DEF UpdateTrunkWrites, UpsertRealtimeTrunk, DeleteRealtimeTrunk
  <2>5. \/ trunkRow' = [trunkRow EXCEPT ![edit[a].trunk] =
                         [endpoint |-> edit[a].endpoint, password |-> PasswordOf(edit[a])]]
        \/ trunkRow' = trunkRow
    BY <1>6 DEF UpdateTrunkWrites
  <2>6. /\ trunkRow' \in [Trunks -> TrunkRows \cup {NoTrunk}]
        /\ \A t \in Trunks : trunkRow[t] # NoTrunk => trunkRow'[t] # NoTrunk
    BY <1>1, <2>1, <2>2, <2>5
  <2>7. \A t \in Trunks : numbers'[t] > 0 => trunkRow'[t] # NoTrunk
    BY <1>1, <2>3, <2>6
  <2>8. numbers' \in [Trunks -> 0..1] /\ trunkEdits' \in 0..MaxTrunkEdits
    BY <1>1, <2>3
  <2> QED
    BY <2>3, <2>4, <2>6, <2>7, <2>8 DEF TrunkTypeOK, Present
<1>7. ASSUME NEW a \in Admins, DeleteTrunkWrites(a) PROVE TrunkTypeOK'
  <2>1. edit[a].trunk \in Trunks
    BY <1>1, <1>7 DEF DeleteTrunkWrites, Edits, NoEdit
  <2>2. /\ edit' \in [Admins -> Edits \cup {NoEdit}]
        /\ numbers' = numbers /\ trunkEdits' = trunkEdits
        /\ overlapped' \in BOOLEAN
    BY <1>1, <1>7 DEF DeleteTrunkWrites, Answered, Stale
  <2>3. psRow' \in [Endpoints -> Passwords \cup {Missing}]
    BY <1>1, <1>7 DEF DeleteTrunkWrites, DeleteRealtimeTrunk
  <2>4. \/ trunkRow' = [trunkRow EXCEPT ![edit[a].trunk] = NoTrunk] /\ numbers[edit[a].trunk] = 0
        \/ trunkRow' = trunkRow
    BY <1>7 DEF DeleteTrunkWrites, Deletable
  <2>5. /\ trunkRow' \in [Trunks -> TrunkRows \cup {NoTrunk}]
        /\ \A t \in Trunks : numbers[t] > 0 => trunkRow'[t] # NoTrunk
    BY <1>1, <2>1, <2>4
  <2> QED
    BY <1>1, <2>2, <2>3, <2>5 DEF TrunkTypeOK, Present
<1>8. ASSUME NEW t \in Trunks, CreateDID(t) \/ RemoveDID(t) PROVE TrunkTypeOK'
  <2>1. CASE CreateDID(t)
    BY <1>1, <1>2, <2>1 DEF CreateDID, TrunkTypeOK, Present
  <2>2. CASE RemoveDID(t)
    BY <1>1, <2>2 DEF RemoveDID, TrunkTypeOK, Present
  <2> QED
    BY <1>8, <2>1, <2>2
<1>9. CASE UNCHANGED trunkVars
  BY <1>9 DEF trunkVars, TrunkTypeOK, Present
<1> QED
  BY <1>3, <1>4, <1>5, <1>6, <1>7, <1>8, <1>9 DEF TrunkNext

-----------------------------------------------------------------------------

\* A transaction leaves the tables alone, or it writes one trunk's row with a
\* free name and puts its ps_* row in place of those of the name it read.
LEMMA TrunkWrites ==
    ASSUME TrunkTypeOK, TrunkNext
    PROVE  \/ UNCHANGED <<trunkRow, psRow, overlapped>>
           \/ \E t \in Trunks, e \in Endpoints, p \in Passwords :
                /\ NameFree(t, e)
                /\ trunkRow' = [trunkRow EXCEPT ![t] = [endpoint |-> e, password |-> p]]
                /\ \/ /\ ~Present(t) /\ psRow[e] = Missing
                      /\ psRow' = [psRow EXCEPT ![e] = p]
                      /\ UNCHANGED overlapped
                   \/ \E o \in Endpoints :
                        /\ Present(t)
                        /\ psRow' = [[psRow EXCEPT ![o] = Missing] EXCEPT ![e] = p]
                        /\ overlapped' = (overlapped \/ trunkRow[t].endpoint # o)
           \/ \E t \in Trunks, o \in Endpoints :
                /\ Present(t)
                /\ trunkRow' = [trunkRow EXCEPT ![t] = NoTrunk]
                /\ psRow' = [psRow EXCEPT ![o] = Missing]
                /\ overlapped' = (overlapped \/ trunkRow[t].endpoint # o)
<1>1. edit \in [Admins -> Edits \cup {NoEdit}]
  BY DEF TrunkTypeOK
<1>2. ASSUME NEW t \in Trunks, NEW e \in Endpoints, NEW p \in Passwords,
             CreateTrunk(t, e, p)
      PROVE  \/ UNCHANGED <<trunkRow, psRow, overlapped>>
             \/ /\ NameFree(t, e) /\ ~Present(t) /\ psRow[e] = Missing
                /\ trunkRow' = [trunkRow EXCEPT ![t] = [endpoint |-> e, password |-> p]]
                /\ psRow' = [psRow EXCEPT ![e] = p]
                /\ UNCHANGED overlapped
  BY <1>2 DEF CreateTrunk, Insertable, UpsertRealtimeTrunk
<1>3. ASSUME NEW a \in Admins, UpdateTrunkWrites(a)
      PROVE  \/ UNCHANGED <<trunkRow, psRow, overlapped>>
             \/ \E t \in Trunks, e \in Endpoints, p \in Passwords, o \in Endpoints :
                  /\ NameFree(t, e) /\ Present(t)
                  /\ trunkRow' = [trunkRow EXCEPT ![t] = [endpoint |-> e, password |-> p]]
                  /\ psRow' = [[psRow EXCEPT ![o] = Missing] EXCEPT ![e] = p]
                  /\ overlapped' = (overlapped \/ trunkRow[t].endpoint # o)
  <2>1. /\ edit[a].trunk \in Trunks /\ edit[a].endpoint \in Endpoints
        /\ PasswordOf(edit[a]) \in Passwords /\ edit[a].old.endpoint \in Endpoints
    BY <1>1, <1>3 DEF UpdateTrunkWrites, Edits, NoEdit, PasswordOf, TrunkRows
  <2> QED
    BY <1>3, <2>1
    DEF UpdateTrunkWrites, UpsertRealtimeTrunk, DeleteRealtimeTrunk, OldName, Stale
<1>4. ASSUME NEW a \in Admins, DeleteTrunkWrites(a)
      PROVE  \/ UNCHANGED <<trunkRow, psRow, overlapped>>
             \/ \E t \in Trunks, o \in Endpoints :
                  /\ Present(t)
                  /\ trunkRow' = [trunkRow EXCEPT ![t] = NoTrunk]
                  /\ psRow' = [psRow EXCEPT ![o] = Missing]
                  /\ overlapped' = (overlapped \/ trunkRow[t].endpoint # o)
  <2>1. edit[a].trunk \in Trunks /\ edit[a].old.endpoint \in Endpoints
    BY <1>1, <1>4 DEF DeleteTrunkWrites, Edits, NoEdit, TrunkRows
  <2> QED
    BY <1>4, <2>1 DEF DeleteTrunkWrites, DeleteRealtimeTrunk, OldName, Stale, Deletable
<1>5. ASSUME \/ \E a \in Admins, t \in Trunks, e \in Endpoints, p \in Passwords \cup {Masked} :
                   UpdateTrunkReads(a, t, e, p)
             \/ \E a \in Admins, t \in Trunks : DeleteTrunkReads(a, t)
             \/ \E t \in Trunks : CreateDID(t) \/ RemoveDID(t)
      PROVE  UNCHANGED <<trunkRow, psRow, overlapped>>
  BY <1>5 DEF UpdateTrunkReads, DeleteTrunkReads, CreateDID, RemoveDID
<1> QED
  BY <1>2, <1>3, <1>4, <1>5 DEF TrunkNext

LEMMA TrunkIndStep ==
    ASSUME TrunkIndInv, [TrunkNext]_trunkVars
    PROVE  TrunkIndInv'
<1> USE DEF Present
<1>1. /\ trunkRow \in [Trunks -> TrunkRows \cup {NoTrunk}]
      /\ psRow \in [Endpoints -> Passwords \cup {Missing}]
      /\ overlapped \in BOOLEAN
      /\ TrunkTypeOK /\ TrunkTypeOK'
  BY TrunkTypeStep DEF TrunkIndInv, TrunkTypeOK
<1>2. \A t \in Trunks : trunkRow[t] # NoTrunk =>
         trunkRow[t].endpoint \in Endpoints /\ trunkRow[t].password \in Passwords
  BY <1>1 DEF TrunkRows
<1>3. DistinctEndpoints /\ EveryTrunkHasItsRow /\ EveryRowHasItsTrunk
  BY DEF TrunkIndInv
<1>4. CASE UNCHANGED <<trunkRow, psRow, overlapped>>
  BY <1>1, <1>3, <1>4
  DEF TrunkIndInv, DistinctEndpoints, EveryTrunkHasItsRow, EveryRowHasItsTrunk
<1>5. ASSUME NEW t \in Trunks, NEW e \in Endpoints, NEW p \in Passwords,
             NameFree(t, e),
             trunkRow' = [trunkRow EXCEPT ![t] = [endpoint |-> e, password |-> p]]
      PROVE  /\ DistinctEndpoints'
             /\ trunkRow'[t] # NoTrunk
             /\ trunkRow'[t].endpoint = e /\ trunkRow'[t].password = p
             /\ \A u \in Trunks \ {t} : trunkRow'[u] = trunkRow[u]
             /\ \A u \in Trunks \ {t} : trunkRow[u] # NoTrunk => trunkRow[u].endpoint # e
  <2>1. [endpoint |-> e, password |-> p] # NoTrunk
    BY NoTrunkHasNoRow DEF TrunkRows
  <2>2. /\ trunkRow'[t] = [endpoint |-> e, password |-> p]
        /\ \A u \in Trunks \ {t} : trunkRow'[u] = trunkRow[u]
    BY <1>1, <1>5
  <2>3. \A u \in Trunks \ {t} : trunkRow[u] # NoTrunk => trunkRow[u].endpoint # e
    BY <1>5 DEF NameFree
  <2>4. DistinctEndpoints'
    BY <1>3, <2>2, <2>3 DEF DistinctEndpoints
  <2> QED
    BY <2>1, <2>2, <2>3, <2>4
<1>6. ASSUME NEW t \in Trunks, NEW e \in Endpoints, NEW p \in Passwords,
             NameFree(t, e), ~Present(t), psRow[e] = Missing,
             trunkRow' = [trunkRow EXCEPT ![t] = [endpoint |-> e, password |-> p]],
             psRow' = [psRow EXCEPT ![e] = p], UNCHANGED overlapped
      PROVE  TrunkIndInv'
  <2>1. psRow'[e] = p /\ \A f \in Endpoints \ {e} : psRow'[f] = psRow[f]
    BY <1>1, <1>6
  <2>2. /\ DistinctEndpoints'
        /\ trunkRow'[t] # NoTrunk
        /\ trunkRow'[t].endpoint = e /\ trunkRow'[t].password = p
        /\ \A u \in Trunks \ {t} : trunkRow'[u] = trunkRow[u]
        /\ \A u \in Trunks \ {t} : trunkRow[u] # NoTrunk => trunkRow[u].endpoint # e
    BY <1>5, <1>6
  <2>3. EveryTrunkHasItsRow'
    BY <1>2, <1>3, <1>6, <2>1, <2>2 DEF EveryTrunkHasItsRow
  <2>4. EveryRowHasItsTrunk'
    BY <1>2, <1>3, <1>6, <2>1, <2>2 DEF EveryRowHasItsTrunk
  <2> QED
    BY <1>1, <2>2, <2>3, <2>4 DEF TrunkIndInv
<1>7. ASSUME NEW t \in Trunks, NEW e \in Endpoints, NEW p \in Passwords,
             NEW o \in Endpoints, NameFree(t, e), Present(t),
             trunkRow' = [trunkRow EXCEPT ![t] = [endpoint |-> e, password |-> p]],
             psRow' = [[psRow EXCEPT ![o] = Missing] EXCEPT ![e] = p],
             overlapped' = (overlapped \/ trunkRow[t].endpoint # o)
      PROVE  TrunkIndInv'
  <2>1. /\ psRow'[e] = p
        /\ \A f \in Endpoints \ {e} : psRow'[f] = IF f = o THEN Missing ELSE psRow[f]
    BY <1>1, <1>7
  <2>2. /\ DistinctEndpoints'
        /\ trunkRow'[t] # NoTrunk
        /\ trunkRow'[t].endpoint = e /\ trunkRow'[t].password = p
        /\ \A u \in Trunks \ {t} : trunkRow'[u] = trunkRow[u]
        /\ \A u \in Trunks \ {t} : trunkRow[u] # NoTrunk => trunkRow[u].endpoint # e
    BY <1>5, <1>7
  <2>3. \A u \in Trunks \ {t} :
           trunkRow[u] # NoTrunk /\ trunkRow[t].endpoint = o => trunkRow[u].endpoint # o
    BY <1>3, <1>7 DEF DistinctEndpoints
  <2>4. ~overlapped' => ~overlapped /\ trunkRow[t].endpoint = o
    BY <1>1, <1>7
  <2>5. ASSUME ~overlapped', NEW u \in Trunks, trunkRow'[u] # NoTrunk
        PROVE  psRow'[trunkRow'[u].endpoint] = trunkRow'[u].password
    <3>1. CASE u = t
      BY <2>1, <2>2, <3>1
    <3>2. CASE u # t
      <4>1. trunkRow'[u] = trunkRow[u] /\ trunkRow[u] # NoTrunk
        BY <2>2, <2>5, <3>2
      <4>2. /\ trunkRow[u].endpoint \in Endpoints \ {e}
            /\ trunkRow[u].endpoint # o
        BY <1>2, <2>2, <2>3, <2>4, <2>5, <3>2, <4>1
      <4>3. psRow'[trunkRow[u].endpoint] = psRow[trunkRow[u].endpoint]
        BY <2>1, <4>2
      <4> QED
        BY <1>3, <2>4, <2>5, <4>1, <4>3 DEF EveryTrunkHasItsRow
    <3> QED
      BY <3>1, <3>2
  <2>6. ASSUME ~overlapped', NEW f \in Endpoints, psRow'[f] # Missing
        PROVE  \E u \in Trunks : trunkRow'[u] # NoTrunk /\ trunkRow'[u].endpoint = f
    <3>1. CASE f = e
      BY <2>2, <3>1
    <3>2. CASE f # e
      <4>1. f # o /\ psRow[f] # Missing
        BY <2>1, <2>6, <3>2
      <4>2. PICK u \in Trunks : trunkRow[u] # NoTrunk /\ trunkRow[u].endpoint = f
        BY <1>3, <2>4, <2>6, <4>1 DEF EveryRowHasItsTrunk
      <4>3. u # t
        BY <2>4, <2>6, <4>1, <4>2
      <4> QED
        BY <2>2, <4>2, <4>3
    <3> QED
      BY <3>1, <3>2
  <2> QED
    BY <1>1, <2>2, <2>5, <2>6 DEF TrunkIndInv, EveryTrunkHasItsRow, EveryRowHasItsTrunk
<1>8. ASSUME NEW t \in Trunks, NEW o \in Endpoints, Present(t),
             trunkRow' = [trunkRow EXCEPT ![t] = NoTrunk],
             psRow' = [psRow EXCEPT ![o] = Missing],
             overlapped' = (overlapped \/ trunkRow[t].endpoint # o)
      PROVE  TrunkIndInv'
  <2>1. psRow'[o] = Missing /\ \A f \in Endpoints \ {o} : psRow'[f] = psRow[f]
    BY <1>1, <1>8
  <2>2. trunkRow'[t] = NoTrunk /\ \A u \in Trunks \ {t} : trunkRow'[u] = trunkRow[u]
    BY <1>1, <1>8
  <2>3. \A u \in Trunks \ {t} :
           trunkRow[u] # NoTrunk /\ trunkRow[t].endpoint = o => trunkRow[u].endpoint # o
    BY <1>3, <1>8 DEF DistinctEndpoints
  <2>4. DistinctEndpoints'
    BY <1>3, <2>2 DEF DistinctEndpoints
  <2>5. ~overlapped' => ~overlapped /\ trunkRow[t].endpoint = o
    BY <1>1, <1>8
  <2>6. ASSUME ~overlapped', NEW u \in Trunks, trunkRow'[u] # NoTrunk
        PROVE  psRow'[trunkRow'[u].endpoint] = trunkRow'[u].password
    <3>1. u # t /\ trunkRow'[u] = trunkRow[u] /\ trunkRow[u] # NoTrunk
      BY <2>2, <2>6
    <3>2. trunkRow[u].endpoint \in Endpoints \ {o}
      BY <1>2, <2>3, <2>5, <2>6, <3>1
    <3>3. psRow'[trunkRow[u].endpoint] = psRow[trunkRow[u].endpoint]
      BY <2>1, <3>2
    <3> QED
      BY <1>3, <2>5, <2>6, <3>1, <3>3 DEF EveryTrunkHasItsRow
  <2>7. ASSUME ~overlapped', NEW f \in Endpoints, psRow'[f] # Missing
        PROVE  \E u \in Trunks : trunkRow'[u] # NoTrunk /\ trunkRow'[u].endpoint = f
    <3>1. f # o /\ psRow[f] # Missing
      BY <2>1, <2>7
    <3>2. PICK u \in Trunks : trunkRow[u] # NoTrunk /\ trunkRow[u].endpoint = f
      BY <1>3, <2>5, <2>7, <3>1 DEF EveryRowHasItsTrunk
    <3>3. u # t
      BY <2>5, <2>7, <3>1, <3>2
    <3> QED
      BY <2>2, <3>2, <3>3
  <2> QED
    BY <1>1, <2>4, <2>6, <2>7 DEF TrunkIndInv, EveryTrunkHasItsRow, EveryRowHasItsTrunk
<1>9. CASE TrunkNext
  BY <1>1, <1>4, <1>6, <1>7, <1>8, <1>9, TrunkWrites
<1> QED
  BY <1>4, <1>9 DEF trunkVars

(* Asterisk dials exactly the trunks of the portal: unless two requests    *)
(* overlapped on a renamed trunk, the ps_* rows are those of the existing  *)
(* trunks' endpoints with their current passwords, and a number's trunk    *)
(* exists, for any number of administrators and edits (trunks.go).         *)
THEOREM PeersAreTrunks == TrunkSpec => []TrunkInv
<1>1. TrunkSpec => []TrunkIndInv
  BY TrunkIndInit, TrunkIndStep, PTL DEF TrunkSpec
<1> QED
  BY <1>1, TrunkIndImplies, PTL

-----------------------------------------------------------------------------
(* The recorder.  IsSuffix speaks of the reversed sequences; the proofs use  *)
(* the positions.                                                            *)

EndOf(s, t) ==
    Len(s) <= Len(t) /\ \A i \in 1..Len(s) : s[i] = t[Len(t) - Len(s) + i]

LEMMA EndOfIsSuffix ==
    ASSUME NEW S, NEW s \in Seq(S), NEW t \in Seq(S), EndOf(s, t)
    PROVE  IsSuffix(s, t)
<1> DEFINE m == Len(s)
           n == Len(t)
           rs == Reverse(s)
           rt == Reverse(t)
<1>1. m \in Nat /\ n \in Nat /\ m <= n
  BY DEF EndOf
<1>2. /\ rs \in Seq(S) /\ Len(rs) = m /\ \A i \in 1..m : rs[i] = s[m - i + 1]
      /\ rt \in Seq(S) /\ Len(rt) = n /\ \A i \in 1..n : rt[i] = t[n - i + 1]
  <2>1. \A i \in 1..m : m - i + 1 \in 1..m /\ s[m - i + 1] \in S
    BY <1>1
  <2>2. \A i \in 1..n : n - i + 1 \in 1..n /\ t[n - i + 1] \in S
    BY <1>1
  <2>3. rs \in [1..m -> S] /\ rt \in [1..n -> S]
    BY <2>1, <2>2 DEF Reverse
  <2> QED
    BY <1>1, <2>3 DEF Reverse
<1>3. \A i \in 1..m : s[i] = t[n - m + i]
  BY DEF EndOf
<1>4. \A i \in 1..m : rs[i] = rt[i]
  <2> SUFFICES ASSUME NEW i \in 1..m PROVE rs[i] = rt[i]
    OBVIOUS
  <2>1. m - i + 1 \in 1..m /\ i \in 1..n /\ n - m + (m - i + 1) = n - i + 1
    BY <1>1
  <2> QED
    BY <1>2, <1>3, <2>1
<1> HIDE DEF rs, rt, m, n
<1>5. /\ SubSeq(rs, 1, m) \in Seq(S) /\ Len(SubSeq(rs, 1, m)) = m
      /\ \A i \in 1..m : SubSeq(rs, 1, m)[i] = rs[i]
  BY <1>1, <1>2
<1>6. /\ SubSeq(rt, 1, m) \in Seq(S) /\ Len(SubSeq(rt, 1, m)) = m
      /\ \A i \in 1..m : SubSeq(rt, 1, m)[i] = rt[i]
  BY <1>1, <1>2
<1>7. SubSeq(rs, 1, m) = SubSeq(rt, 1, m)
  BY <1>4, <1>5, <1>6
<1> QED
  BY <1>1, <1>2, <1>7 DEF IsSuffix, IsPrefix, rs, rt

\* What is appended to both stays at the end of both.
LEMMA EndOfAppend ==
    ASSUME NEW S, NEW s \in Seq(S), NEW t \in Seq(S), NEW f \in S, EndOf(s, t)
    PROVE  EndOf(Append(s, f), Append(t, f))
<1> DEFINE a == Append(s, f)
           b == Append(t, f)
<1>1. /\ Len(s) \in Nat /\ Len(a) = Len(s) + 1 /\ a[Len(s) + 1] = f
      /\ \A i \in 1..Len(s) : a[i] = s[i]
  OBVIOUS
<1>2. /\ Len(t) \in Nat /\ Len(b) = Len(t) + 1 /\ b[Len(t) + 1] = f
      /\ \A i \in 1..Len(t) : b[i] = t[i]
  OBVIOUS
<1>3. Len(s) <= Len(t) /\ \A i \in 1..Len(s) : s[i] = t[Len(t) - Len(s) + i]
  BY DEF EndOf
<1> HIDE DEF a, b
<1>4. ASSUME NEW i \in 1..Len(a) PROVE a[i] = b[Len(b) - Len(a) + i]
  <2>1. Len(b) - Len(a) + i = Len(t) - Len(s) + i
    BY <1>1, <1>2
  <2>2. CASE i = Len(s) + 1
    BY <1>1, <1>2, <1>3, <2>1, <2>2
  <2>3. CASE i # Len(s) + 1
    <3>1. i \in 1..Len(s) /\ Len(t) - Len(s) + i \in 1..Len(t)
      BY <1>1, <1>2, <1>3, <2>3
    <3> QED
      BY <1>1, <1>2, <1>3, <2>1, <3>1
  <2> QED
    BY <2>2, <2>3
<1>5. Len(a) <= Len(b)
  BY <1>1, <1>2, <1>3
<1> QED
  BY <1>4, <1>5 DEF EndOf, a, b

\* Trimming keeps the newest audio and respects the cap.
LEMMA TrimmedIsEnd ==
    ASSUME NEW S, NEW s \in Seq(S), NEW t \in Seq(S), EndOf(s, t)
    PROVE  /\ Trimmed(s) \in Seq(S) /\ Len(Trimmed(s)) <= MemoryCap
           /\ EndOf(Trimmed(s), t)
<1>1. MemoryCap \in Nat /\ Len(s) \in Nat /\ Len(t) \in Nat
  BY SocketAssumption
<1>2. CASE Len(s) <= MemoryCap
  BY <1>1, <1>2 DEF Trimmed
<1>3. CASE Len(s) > MemoryCap
  <2> DEFINE k == Len(s) - MemoryCap
             r == SubSeq(s, k + 1, Len(s))
  <2>1. k \in Nat /\ k < Len(s) + 1 /\ Trimmed(s) = r
    BY <1>1, <1>3 DEF Trimmed
  <2>2. /\ r \in Seq(S) /\ Len(r) = Len(s) - k
        /\ \A i \in 1..Len(r) : r[i] = s[k + i]
    BY <1>1, <2>1
  <2>3. Len(s) <= Len(t) /\ \A i \in 1..Len(s) : s[i] = t[Len(t) - Len(s) + i]
    BY DEF EndOf
  <2> HIDE DEF r
  <2>4. ASSUME NEW i \in 1..Len(r) PROVE r[i] = t[Len(t) - Len(r) + i]
    <3>1. k + i \in 1..Len(s) /\ Len(t) - Len(s) + (k + i) = Len(t) - Len(r) + i
      BY <1>1, <2>1, <2>2
    <3> QED
      BY <2>2, <2>3, <2>4, <3>1
  <2>5. Len(r) <= Len(t) /\ Len(r) <= MemoryCap
    BY <1>1, <2>1, <2>2, <2>3
  <2> QED
    BY <2>1, <2>2, <2>4, <2>5 DEF EndOf
<1> QED
  BY <1>1, <1>2, <1>3

-----------------------------------------------------------------------------
(* The connection. *)

Frames == Nat
Recorders == [at: {"none", "file", "memory", "closed"}, tape: Seq(Frames)]
Uploads == [body: Seq(Frames), tape: Seq(Frames), done: BOOLEAN]

SocketTypes ==
    /\ SocketTypeOK
    /\ outQueue \in Seq(Nat) /\ buf \in Nat
    /\ sent \in Seq(Frames) /\ got \in Frames
    /\ rec \in Recorders /\ taped \in Seq(Frames) /\ uploaded \in Uploads

\* The file holds all that was recorded; memory holds the end of it, and only
\* after a write has failed.
TapeIsTheTail ==
    /\ rec.at = "file" => rec.tape = taped
    /\ rec.at = "memory" => EndOf(rec.tape, taped) /\ diskFaults > 0

\* The recorder lives and dies with the connection.
RecorderOfConnection ==
    /\ conn \in {"new", "refused"} =>
         rec = [at |-> "none", tape |-> << >>] /\ taped = << >> /\ reader = "off"
    /\ rec.at \in {"file", "memory"} => conn \in {"open", "uploading"}
    /\ rec.at = "closed" => conn = "closed"

UploadOfConnection ==
    /\ uploaded.done => conn \in {"uploading", "closed"}
    /\ UploadIsTheTail

\* SocketInv made inductive.
SocketIndInv == SocketTypes /\ TapeIsTheTail /\ RecorderOfConnection /\ UploadOfConnection

LEMMA SocketIndImplies == SocketIndInv => SocketInv
BY DEF SocketIndInv, SocketTypes, RecorderOfConnection, UploadOfConnection, SocketInv,
   NoFileOutlivesConnection

LEMMA SocketIndInit == SocketInit => SocketIndInv
<1> SUFFICES ASSUME SocketInit PROVE SocketIndInv
  OBVIOUS
<1>0. << >> \in Seq(Frames) /\ << >> \in Seq(Nat) /\ Len(<< >>) = 0
  BY DEF Frames
<1>1. /\ rec \in Recorders /\ taped \in Seq(Frames) /\ uploaded \in Uploads
      /\ sent \in Seq(Frames) /\ got \in Frames
  BY <1>0 DEF SocketInit, NotUploaded, Recorders, Uploads, Frames
<1>2. SocketTypes
  <2>1. /\ inQueue \in 0..InBuffer /\ Len(outQueue) <= OutBuffer
        /\ frames \in 0..MaxFrames /\ chunks \in 0..MaxChunks
        /\ diskFaults \in 0..MaxDiskFaults /\ buf \in Nat
    BY <1>0, SocketAssumption DEF SocketInit
  <2>2. outQueue \in Seq(Nat) /\ rec.at = "none"
    BY <1>0 DEF SocketInit
  <2> QED
    BY <1>1, <2>1, <2>2 DEF SocketInit, SocketTypes, SocketTypeOK
<1>3. rec.at = "none" /\ uploaded.done = FALSE /\ conn = "new"
  BY DEF SocketInit, NotUploaded
<1> QED
  BY <1>2, <1>3
  DEF SocketInit, SocketIndInv, TapeIsTheTail, RecorderOfConnection, UploadOfConnection,
      UploadIsTheTail

\* What Append does to the recorder, to its tape and to the history of frames.
LEMMA RecAppendKeeps ==
    ASSUME SocketIndInv, NEW f \in Frames, RecAppend(f)
    PROVE  /\ rec' \in Recorders /\ taped' \in Seq(Frames)
           /\ rec'.at = "memory" => Len(rec'.tape) <= MemoryCap
           /\ diskFaults' \in 0..MaxDiskFaults
           /\ TapeIsTheTail'
           /\ rec.at \in {"none", "closed"} => UNCHANGED <<rec, taped, diskFaults>>
           /\ rec.at \in {"file", "memory"} => rec'.at \in {"file", "memory"}
           /\ diskFaults' = 0 => diskFaults = 0
<1>0. /\ rec \in Recorders /\ taped \in Seq(Frames)
      /\ rec.at \in {"none", "file", "memory", "closed"} /\ rec.tape \in Seq(Frames)
      /\ diskFaults \in 0..MaxDiskFaults /\ MaxDiskFaults \in Nat
      /\ rec.at = "memory" => Len(rec.tape) <= MemoryCap
      /\ TapeIsTheTail
  BY SocketAssumption DEF SocketIndInv, SocketTypes, SocketTypeOK, Recorders
<1>1. CASE rec.at \in {"none", "closed"}
  <2>1. UNCHANGED <<rec, taped, diskFaults>>
    BY <1>1 DEF RecAppend, Enabled
  <2> QED
    BY <1>0, <1>1, <2>1 DEF TapeIsTheTail
<1>2. CASE rec.at = "file"
  <2>1. /\ taped' = Append(taped, f)
        /\ \/ rec' = [rec EXCEPT !.tape = Append(rec.tape, f)] /\ diskFaults' = diskFaults
           \/ /\ diskFaults < MaxDiskFaults /\ diskFaults' = diskFaults + 1
              /\ rec' = [at |-> "memory", tape |-> << >>]
    BY <1>2 DEF RecAppend, Enabled
  <2>2. taped' \in Seq(Frames) /\ Len(taped') \in Nat
    BY <1>0, <2>1
  <2>3. CASE rec' = [rec EXCEPT !.tape = Append(rec.tape, f)] /\ diskFaults' = diskFaults
    <3>1. rec'.at = "file" /\ rec'.tape = Append(rec.tape, f) /\ rec' \in Recorders
      <4>1. Append(rec.tape, f) \in Seq(Frames)
        BY <1>0
      <4>2. rec' = [at |-> "file", tape |-> Append(rec.tape, f)]
        BY <1>0, <1>2, <2>3 DEF Recorders
      <4> QED
        BY <4>1, <4>2 DEF Recorders
    <3>2. rec'.tape = taped'
      BY <1>0, <1>2, <2>1, <3>1 DEF TapeIsTheTail
    <3> QED
      BY <1>0, <1>2, <2>2, <2>3, <3>1, <3>2 DEF TapeIsTheTail
  <2>4. CASE /\ diskFaults < MaxDiskFaults /\ diskFaults' = diskFaults + 1
             /\ rec' = [at |-> "memory", tape |-> << >>]
    <3>1. rec'.at = "memory" /\ rec'.tape = << >> /\ rec' \in Recorders
      BY <2>4 DEF Recorders
    <3>2. EndOf(<< >>, taped')
      BY <2>2 DEF EndOf
    <3>3. Len(<< >>) <= MemoryCap /\ diskFaults' \in 0..MaxDiskFaults /\ diskFaults' > 0
      BY <1>0, <2>4, SocketAssumption
    <3> QED
      BY <1>2, <2>2, <3>1, <3>2, <3>3 DEF TapeIsTheTail
  <2> QED
    BY <2>1, <2>3, <2>4
<1>3. CASE rec.at = "memory"
  <2> DEFINE tape == Append(rec.tape, f)
  <2>1. /\ taped' = Append(taped, f) /\ diskFaults' = diskFaults
        /\ rec' = [rec EXCEPT !.tape = Trimmed(tape)]
    BY <1>3 DEF RecAppend, Enabled
  <2>2. tape \in Seq(Frames) /\ taped' \in Seq(Frames) /\ EndOf(tape, taped')
    BY <1>0, <1>3, <2>1, EndOfAppend DEF TapeIsTheTail
  <2>3. /\ Trimmed(tape) \in Seq(Frames) /\ Len(Trimmed(tape)) <= MemoryCap
        /\ EndOf(Trimmed(tape), taped')
    BY <2>2, TrimmedIsEnd
  <2>4. rec'.at = "memory" /\ rec'.tape = Trimmed(tape) /\ rec' \in Recorders
    BY <1>0, <1>3, <2>1, <2>3 DEF Recorders
  <2> HIDE DEF tape
  <2> QED
    BY <1>0, <1>3, <2>1, <2>2, <2>3, <2>4 DEF TapeIsTheTail
<1> QED
  BY <1>0, <1>1, <1>2, <1>3

\* The frames and chunks in the queues, and the counters.
LEMMA QueueTypes ==
    ASSUME SocketIndInv, SocketNext
    PROVE  /\ sess' \in {"live", "cancelled", "closed"}
           /\ reader' \in {"off", "top", "reading", "got", "done"}
           /\ inQueue' \in 0..InBuffer
           /\ outQueue' \in Seq(Nat) /\ Len(outQueue') <= OutBuffer /\ buf' \in Nat
           /\ frames' \in 0..MaxFrames /\ chunks' \in 0..MaxChunks
           /\ ctxDone' \in BOOLEAN /\ hungup' \in BOOLEAN /\ crashed' \in BOOLEAN
           /\ sent' \in Seq(Frames) /\ got' \in Frames
<1> DEFINE Goal ==
           /\ sess' \in {"live", "cancelled", "closed"}
           /\ reader' \in {"off", "top", "reading", "got", "done"}
           /\ inQueue' \in 0..InBuffer
           /\ outQueue' \in Seq(Nat) /\ Len(outQueue') <= OutBuffer /\ buf' \in Nat
           /\ frames' \in 0..MaxFrames /\ chunks' \in 0..MaxChunks
           /\ ctxDone' \in BOOLEAN /\ hungup' \in BOOLEAN /\ crashed' \in BOOLEAN
           /\ sent' \in Seq(Frames) /\ got' \in Frames
<1>0. /\ sess \in {"live", "cancelled", "closed"}
      /\ reader \in {"off", "top", "reading", "got", "done"}
      /\ inQueue \in 0..InBuffer
      /\ outQueue \in Seq(Nat) /\ Len(outQueue) <= OutBuffer /\ buf \in Nat
      /\ frames \in 0..MaxFrames /\ chunks \in 0..MaxChunks
      /\ ctxDone \in BOOLEAN /\ hungup \in BOOLEAN /\ crashed \in BOOLEAN
      /\ sent \in Seq(Frames) /\ got \in Frames
      /\ InBuffer \in Nat /\ OutBuffer \in Nat /\ MaxFrames \in Nat /\ MaxChunks \in Nat
  BY SocketAssumption DEF SocketIndInv, SocketTypes, SocketTypeOK
<1>1. CASE CancelSession \/ CloseChannels \/ RelayCancel \/ WriteLoopEnds \/ Upload
           \/ CloseConnection \/ AsteriskHangsUp \/ ReadLoopTop
  BY <1>0, <1>1
  DEF CancelSession, CloseChannels, RelayCancel, WriteLoopEnds, Upload, CloseConnection,
      AsteriskHangsUp, ReadLoopTop, SessionRest, ReaderRest, WriterRest
<1>2. CASE Identify
  BY <1>0, <1>2 DEF Identify
<1>3. CASE ProviderTakes
  <2>1. inQueue' \in 0..InBuffer
    BY <1>0, <1>3 DEF ProviderTakes
  <2> QED
    BY <1>0, <1>3, <2>1 DEF ProviderTakes, SessionRest
<1>4. ASSUME NEW n \in {1, 3}, ProviderSpeaks(n) PROVE Goal
  <2>1. outQueue' \in Seq(Nat) /\ Len(outQueue') <= OutBuffer
    BY <1>0, <1>4 DEF ProviderSpeaks
  <2>2. chunks' \in 0..MaxChunks
    BY <1>0, <1>4 DEF ProviderSpeaks
  <2> QED
    BY <1>0, <1>4, <2>1, <2>2 DEF ProviderSpeaks, SessionRest
<1>5. CASE AsteriskSends
  <2>1. frames' \in 0..MaxFrames /\ frames' \in Frames
    BY <1>0, <1>5 DEF AsteriskSends, Frames
  <2>2. sent' \in Seq(Frames)
    BY <1>0, <1>5, <2>1 DEF AsteriskSends
  <2> QED
    BY <1>0, <1>5, <2>1, <2>2 DEF AsteriskSends
<1>6. CASE ReadFrame
  <2>1. \/ sent # << >> /\ got' = Head(sent) /\ sent' = Tail(sent)
        \/ got' = got /\ sent' = sent
    BY <1>6 DEF ReadFrame
  <2>2. sent # << >> => Head(sent) \in Frames /\ Tail(sent) \in Seq(Frames)
    BY <1>0
  <2>3. sent' \in Seq(Frames) /\ got' \in Frames
    BY <1>0, <2>1, <2>2
  <2> QED
    BY <1>0, <1>6, <2>3 DEF ReadFrame, ReaderRest
<1>7. CASE ForwardFrame
  <2>1. inQueue' \in 0..InBuffer
    BY <1>0, <1>7 DEF ForwardFrame
  <2> QED
    BY <1>0, <1>7, <2>1 DEF ForwardFrame, ReaderRest
<1>8. CASE TakeChunk
  <2>1. /\ Head(outQueue) \in Nat /\ Tail(outQueue) \in Seq(Nat)
        /\ Len(Tail(outQueue)) <= OutBuffer
    BY <1>0, <1>8 DEF TakeChunk
  <2>2. buf' \in Nat
    BY <1>0, <1>8, <2>1 DEF TakeChunk
  <2> QED
    BY <1>0, <1>8, <2>1, <2>2 DEF TakeChunk, WriterRest
<1>9. CASE WriteFrame
  <2>1. buf' \in Nat
    BY <1>0, <1>9 DEF WriteFrame, FrameHalves
  <2> QED
    BY <1>0, <1>9, <2>1 DEF WriteFrame, WriterRest
<1> QED
  BY <1>1, <1>2, <1>3, <1>4, <1>5, <1>6, <1>7, <1>8, <1>9 DEF SocketNext, ConnectionStep

\* Each step keeps the recorder (Recorded) and the upload (Uploaded) in order.
LEMMA SocketIndStep ==
    ASSUME SocketIndInv, [SocketNext]_socketVars
    PROVE  SocketIndInv'
<1> DEFINE Recorded == /\ rec' \in Recorders /\ taped' \in Seq(Frames)
                       /\ rec'.at = "memory" => Len(rec'.tape) <= MemoryCap
                       /\ diskFaults' \in 0..MaxDiskFaults /\ TapeIsTheTail'
                       /\ conn' \in {"new", "open", "uploading", "closed", "refused"}
                       /\ RecorderOfConnection'
           Uploaded == uploaded' \in Uploads /\ UploadOfConnection'
<1>0. /\ rec \in Recorders /\ taped \in Seq(Frames) /\ uploaded \in Uploads
      /\ rec.at \in {"none", "file", "memory", "closed"} /\ rec.tape \in Seq(Frames)
      /\ rec.at = "memory" => Len(rec.tape) <= MemoryCap
      /\ conn \in {"new", "open", "uploading", "closed", "refused"}
      /\ diskFaults \in 0..MaxDiskFaults /\ MaxDiskFaults \in Nat
      /\ TapeIsTheTail /\ RecorderOfConnection /\ UploadOfConnection
  BY SocketAssumption DEF SocketIndInv, SocketTypes, SocketTypeOK, Recorders
<1>1. ASSUME UNCHANGED <<rec, taped, diskFaults, conn>>,
             conn \in {"new", "refused"} => UNCHANGED reader
      PROVE  Recorded
  BY <1>0, <1>1 DEF TapeIsTheTail, RecorderOfConnection
<1>2. ASSUME UNCHANGED <<rec, diskFaults, conn, uploaded>>
      PROVE  Uploaded
  BY <1>0, <1>2 DEF UploadOfConnection, UploadIsTheTail, Enabled
<1>3. ASSUME \/ CancelSession \/ CloseChannels \/ RelayCancel \/ ProviderTakes
             \/ \E n \in {1, 3} : ProviderSpeaks(n)
             \/ AsteriskSends \/ AsteriskHangsUp \/ TakeChunk
      PROVE  Recorded /\ Uploaded
  <2>1. UNCHANGED <<rec, taped, diskFaults, conn, uploaded, reader>>
    BY <1>3
    DEF CancelSession, CloseChannels, RelayCancel, ProviderTakes, ProviderSpeaks, SessionRest,
        AsteriskSends, AsteriskHangsUp, TakeChunk, WriterRest
  <2> QED
    BY <1>1, <1>2, <2>1
<1>4. ASSUME Identify PROVE Recorded /\ Uploaded
  <2>1. /\ conn = "new" /\ rec = [at |-> "none", tape |-> << >>] /\ taped = << >>
        /\ ~uploaded.done /\ UNCHANGED <<taped, uploaded>>
    BY <1>0, <1>4 DEF Identify, RecorderOfConnection, UploadOfConnection
  <2>2. PICK where \in {"none", "file", "memory"} :
          /\ rec' = [rec EXCEPT !.at = where]
          /\ where # "none" => conn' = "open"
          /\ where = "memory" => diskFaults < MaxDiskFaults
    <3>1. CASE conn' = "open" /\ \E r \in Recording :
                  rec' = [rec EXCEPT !.at = IF r THEN "file" ELSE "none"]
      BY <3>1
    <3>2. CASE /\ conn' = "open" /\ diskFaults < MaxDiskFaults
               /\ rec' = [rec EXCEPT !.at = "memory"]
      BY <3>2
    <3>3. CASE UNCHANGED rec
      <4>1. rec' = [rec EXCEPT !.at = "none"]
        BY <2>1, <3>3
      <4> QED
        BY <4>1
    <3> QED
      BY <1>4, <3>1, <3>2, <3>3 DEF Identify
  <2>3. rec'.at = where /\ rec'.tape = << >> /\ rec' \in Recorders
    <3>1. rec' = [at |-> where, tape |-> << >>]
      BY <2>1, <2>2
    <3>2. << >> \in Seq(Frames)
      OBVIOUS
    <3> QED
      BY <3>1, <3>2 DEF Recorders
  <2>4. conn' \in {"open", "refused"} /\ (conn' = "refused" => UNCHANGED <<reader, rec>>)
    BY <1>4 DEF Identify
  <2>5. diskFaults' \in 0..MaxDiskFaults /\ (where = "memory" => diskFaults' > 0)
    BY <1>0, <1>4, <2>2, <2>3 DEF Identify
  <2>6. EndOf(<< >>, << >>) /\ Len(<< >>) <= MemoryCap
    BY SocketAssumption DEF EndOf
  <2>7. TapeIsTheTail'
    BY <2>1, <2>3, <2>5, <2>6 DEF TapeIsTheTail
  <2>8. RecorderOfConnection'
    BY <1>0, <2>1, <2>2, <2>3, <2>4 DEF RecorderOfConnection
  <2>9. Recorded
    BY <1>0, <2>1, <2>3, <2>4, <2>5, <2>6, <2>7, <2>8
  <2> QED
    BY <1>0, <2>1, <2>9 DEF UploadOfConnection, UploadIsTheTail
<1>5. ASSUME NEW f \in Frames, RecAppend(f), conn \notin {"new", "refused"},
             UNCHANGED <<conn, uploaded>>
      PROVE  Recorded /\ Uploaded
  <2>1. /\ rec' \in Recorders /\ taped' \in Seq(Frames)
        /\ rec'.at = "memory" => Len(rec'.tape) <= MemoryCap
        /\ diskFaults' \in 0..MaxDiskFaults
        /\ TapeIsTheTail'
        /\ rec.at \in {"none", "closed"} => UNCHANGED <<rec, taped, diskFaults>>
        /\ rec.at \in {"file", "memory"} => rec'.at \in {"file", "memory"}
        /\ diskFaults' = 0 => diskFaults = 0
    BY <1>5, RecAppendKeeps
  <2>2. RecorderOfConnection'
    BY <1>0, <1>5, <2>1 DEF RecorderOfConnection
  <2>3. UploadOfConnection'
    BY <1>0, <1>5, <2>1 DEF UploadOfConnection, UploadIsTheTail, Enabled
  <2> QED
    BY <1>0, <1>5, <2>1, <2>2, <2>3
<1>6. ASSUME ReadLoopTop \/ ReadFrame PROVE Recorded /\ Uploaded
  <2>1. UNCHANGED <<rec, taped, diskFaults, conn, uploaded>> /\ reader # "off"
    BY <1>6 DEF ReadLoopTop, ReadFrame, ReaderRest
  <2>2. conn \notin {"new", "refused"}
    BY <1>0, <2>1 DEF RecorderOfConnection
  <2> QED
    BY <1>1, <1>2, <2>1, <2>2
<1>7. ASSUME ForwardFrame PROVE Recorded /\ Uploaded
  <2>1. RecAppend(got) /\ UNCHANGED <<conn, uploaded>> /\ reader # "off"
    BY <1>7 DEF ForwardFrame, ReaderRest
  <2>2. conn \notin {"new", "refused"}
    BY <1>0, <2>1 DEF RecorderOfConnection
  <2>3. got \in Frames
    BY DEF SocketIndInv, SocketTypes
  <2> QED
    BY <1>5, <2>1, <2>2, <2>3
<1>8. ASSUME conn = "open", conn' = "uploading", UNCHANGED <<rec, taped, diskFaults, uploaded>>
      PROVE  Recorded /\ Uploaded
  BY <1>0, <1>8
  DEF TapeIsTheTail, RecorderOfConnection, UploadOfConnection, UploadIsTheTail, Enabled
<1>9. ASSUME WriteFrame \/ WriteLoopEnds PROVE Recorded /\ Uploaded
  <2>1. conn = "open" /\ UNCHANGED uploaded
    BY <1>9 DEF WriteFrame, WriteLoopEnds
  <2>2. \/ RecAppend(BotFrame) /\ UNCHANGED conn
        \/ conn' = "uploading" /\ UNCHANGED <<rec, taped, diskFaults>>
    BY <1>9 DEF WriteFrame, WriteLoopEnds
  <2>3. BotFrame \in Frames
    BY DEF BotFrame, Frames
  <2> QED
    BY <1>5, <1>8, <2>1, <2>2, <2>3
<1>10. ASSUME Upload PROVE Recorded /\ Uploaded
  <2>1. /\ conn = "uploading" /\ UNCHANGED <<rec, taped, diskFaults, conn, reader>>
        /\ uploaded' = [body |-> Encoded, tape |-> taped, done |-> TRUE]
    BY <1>10 DEF Upload, WriterRest
  <2>2. Encoded \in Seq(Frames) /\ (rec.at # "none" => Encoded = rec.tape)
    BY <1>0 DEF Encoded, Enabled
  <2>3. uploaded' \in Uploads /\ uploaded'.body = Encoded /\ uploaded'.tape = taped
    BY <1>0, <2>1, <2>2 DEF Uploads
  <2>4. ASSUME rec.at # "none"
        PROVE  IsSuffix(rec.tape, taped) /\ (diskFaults = 0 => rec.tape = taped)
    <3>1. rec.at \in {"file", "memory"}
      BY <1>0, <2>1, <2>4 DEF RecorderOfConnection
    <3>2. EndOf(taped, taped)
      BY <1>0 DEF EndOf
    <3>3. EndOf(rec.tape, taped) /\ (diskFaults = 0 => rec.tape = taped)
      BY <1>0, <3>1, <3>2 DEF TapeIsTheTail
    <3> QED
      BY <1>0, <3>3, EndOfIsSuffix
  <2>5. UploadIsTheTail'
    BY <2>1, <2>2, <2>3, <2>4 DEF UploadIsTheTail, Enabled
  <2>6. UploadOfConnection'
    BY <2>1, <2>5 DEF UploadOfConnection
  <2> QED
    BY <1>1, <2>1, <2>3, <2>6
<1>11. ASSUME CloseConnection PROVE Recorded /\ Uploaded
  <2>1. /\ conn = "uploading" /\ conn' = "closed" /\ rec' = RecClose
        /\ UNCHANGED <<taped, diskFaults, uploaded>>
    BY <1>11 DEF CloseConnection
  <2>2. /\ rec' \in Recorders
        /\ \/ rec.at = "none" /\ rec'.at = "none"
           \/ rec.at # "none" /\ rec'.at = "closed"
    BY <1>0, <2>1 DEF RecClose, Enabled, Recorders
  <2>3. Recorded
    BY <1>0, <2>1, <2>2 DEF TapeIsTheTail, RecorderOfConnection
  <2> QED
    BY <1>0, <2>1, <2>2, <2>3 DEF UploadOfConnection, UploadIsTheTail, Enabled
<1>12. CASE SocketNext
  <2>1. Recorded /\ Uploaded
    BY <1>3, <1>4, <1>6, <1>7, <1>9, <1>10, <1>11, <1>12 DEF SocketNext, ConnectionStep
  <2>2. rec'.at \in {"none", "file", "memory", "closed"}
    BY <2>1 DEF Recorders
  <2> QED
    BY <1>12, <2>1, <2>2, QueueTypes DEF SocketIndInv, SocketTypes, SocketTypeOK
<1>13. CASE UNCHANGED socketVars
  <2>1. UNCHANGED <<sess, conn, ctxDone, reader, got, sent, frames, hungup, inQueue,
                    outQueue, chunks, buf, rec, taped, uploaded, diskFaults, crashed>>
    BY <1>13 DEF socketVars
  <2>2. Recorded /\ Uploaded
    BY <1>1, <1>2, <2>1
  <2>3. SocketTypes'
    BY <2>1 DEF SocketIndInv, SocketTypes, SocketTypeOK
  <2> QED
    BY <2>2, <2>3 DEF SocketIndInv
<1> QED
  BY <1>12, <1>13

(* What a connection uploads is the end of what both loops recorded until  *)
(* the write loop ended - all of it when no write of the file failed - and *)
(* no temporary file outlives its connection, for any sizes of the buffers *)
(* and any number of frames, chunks and disk faults (Recorder,             *)
(* handleConnection).                                                      *)
THEOREM RecordingIsTheTail == SocketSpec => []SocketInv
<1>1. SocketSpec => []SocketIndInv
  BY SocketIndInit, SocketIndStep, PTL DEF SocketSpec
<1> QED
  BY <1>1, SocketIndImplies, PTL

-----------------------------------------------------------------------------
(* The detector against the positions of the voiced frames.  V stands for   *)
(* the voiced ones among the first n frames.                                *)

VoicedAmong(V, i, j) == Cardinality(V \cap i..j)

GaplessAmong(V, i, j) ==
    \A k \in i..j : k + SilenceGap - 1 <= j => \E m \in k..(k + SilenceGap - 1) : m \in V

\* What the counters say: the silence is the one at the end, the burst the most
\* speech of a gapless stretch that reaches the end, and no stretch has more
\* than the burst or the best one before it.
Follows(d, V, n) ==
    /\ V \subseteq 1..n
    /\ d.total = n /\ d.voiced = VoicedAmong(V, 1, n)
    /\ d.silence \in 0..n /\ d.burst \in 0..n /\ d.best \in 0..n
    /\ \A k \in (n - d.silence + 1)..n : k \notin V
    /\ d.silence < n => n - d.silence \in V
    /\ \E i \in 1..(n + 1) : GaplessAmong(V, i, n) /\ VoicedAmong(V, i, n) = d.burst
    /\ \A i \in 1..(n + 1) : GaplessAmong(V, i, n) => VoicedAmong(V, i, n) <= d.burst
    /\ \A i, j \in 1..n : GaplessAmong(V, i, j) => VoicedAmong(V, i, j) <= Best(d)
    /\ Best(d) > 0 => V # {}

LEMMA VoicedAmongNat ==
    ASSUME NEW n \in Nat, NEW V \in SUBSET (1..n), NEW i \in Nat, NEW j \in Nat
    PROVE  /\ IsFiniteSet(V \cap i..j) /\ VoicedAmong(V, i, j) \in Nat
           /\ VoicedAmong(V, i, j) = 0 <=> V \cap i..j = {}
<1>1. IsFiniteSet(V \cap i..j)
  <2>1. IsFiniteSet(i..j)
    BY FS_Interval
  <2> QED
    BY <2>1, FS_Subset
<1> QED
  BY <1>1, FS_CardinalityType, FS_EmptySet DEF VoicedAmong

\* Frame n + 1 is voiced: every stretch that reaches it has one frame more.
LEMMA VoicedFrame ==
    ASSUME NEW n \in Nat, NEW V \in SUBSET (1..n), NEW i \in 1..(n + 1)
    PROVE  VoicedAmong(V \cup {n + 1}, i, n + 1) = VoicedAmong(V, i, n) + 1
<1>1. (V \cup {n + 1}) \cap i..(n + 1) = (V \cap i..n) \cup {n + 1}
  OBVIOUS
<1>2. n + 1 \notin V \cap i..n
  OBVIOUS
<1>3. IsFiniteSet(V \cap i..n)
  <2>1. i \in Nat
    OBVIOUS
  <2> QED
    BY <2>1, VoicedAmongNat
<1> QED
  BY <1>1, <1>2, <1>3, FS_AddElement DEF VoicedAmong

\* The frames before the last do not change.
LEMMA FramesBefore ==
    ASSUME NEW n \in Nat, NEW V \in SUBSET (1..n), NEW W,
           W = V \/ W = V \cup {n + 1}, NEW i \in Nat, NEW j \in 0..n
    PROVE  VoicedAmong(W, i, j) = VoicedAmong(V, i, j)
<1>1. W \cap i..j = V \cap i..j
  OBVIOUS
<1> QED
  BY <1>1 DEF VoicedAmong

LEMMA SilentFrame ==
    ASSUME NEW n \in Nat, NEW V \in SUBSET (1..n), NEW i \in Nat
    PROVE  VoicedAmong(V, i, n + 1) = VoicedAmong(V, i, n)
<1>1. V \cap i..(n + 1) = V \cap i..n
  OBVIOUS
<1> QED
  BY <1>1 DEF VoicedAmong

\* A stretch without a gap has none up to an earlier frame either.
LEMMA GaplessBefore ==
    ASSUME NEW n \in Nat, NEW V \in SUBSET (1..n), NEW W,
           W = V \/ W = V \cup {n + 1}, NEW i \in Nat
    PROVE  /\ GaplessAmong(W, i, n + 1) => GaplessAmong(V, i, n)
           /\ \A j \in 0..n : GaplessAmong(W, i, j) => GaplessAmong(V, i, j)
<1>0. SilenceGap \in Nat \ {0}
  BY AmdAssumption
<1>1. ASSUME NEW j \in 0..n, NEW m \in j..(n + 1), GaplessAmong(W, i, m)
      PROVE  GaplessAmong(V, i, j)
  <2> SUFFICES ASSUME NEW k \in i..j, k + SilenceGap - 1 <= j
               PROVE  \E l \in k..(k + SilenceGap - 1) : l \in V
    BY DEF GaplessAmong
  <2>1. k \in i..m /\ k + SilenceGap - 1 <= m
    BY <1>0
  <2>2. PICK l \in k..(k + SilenceGap - 1) : l \in W
    BY <1>1, <2>1 DEF GaplessAmong
  <2>3. l # n + 1
    BY <1>0, <2>2
  <2> QED
    BY <2>2, <2>3
<1>2. n \in 0..n /\ n + 1 \in n..(n + 1)
  OBVIOUS
<1>3. \A j \in 0..n : j \in j..(n + 1)
  OBVIOUS
<1> QED
  BY <1>1, <1>2, <1>3

\* A stretch stays without a gap when the frame that follows is voiced, or one of
\* the SilenceGap last ones is.
LEMMA GaplessAfter ==
    ASSUME NEW n \in Nat, NEW V \in SUBSET (1..n), NEW W,
           W = V \/ W = V \cup {n + 1}, NEW i \in 1..(n + 1),
           GaplessAmong(V, i, n),
           n + 2 - SilenceGap >= 1 => \E l \in (n + 2 - SilenceGap)..(n + 1) : l \in W
    PROVE  GaplessAmong(W, i, n + 1)
<1>0. SilenceGap \in Nat \ {0}
  BY AmdAssumption
<1> SUFFICES ASSUME NEW k \in i..(n + 1), k + SilenceGap - 1 <= n + 1
             PROVE  \E l \in k..(k + SilenceGap - 1) : l \in W
  BY DEF GaplessAmong
<1>1. CASE k + SilenceGap - 1 <= n
  <2>1. k \in i..n
    BY <1>0, <1>1
  <2> QED
    BY <1>1, <2>1 DEF GaplessAmong
<1>2. CASE k + SilenceGap - 1 > n
  <2>1. k = n + 2 - SilenceGap /\ k >= 1 /\ k + SilenceGap - 1 = n + 1
    BY <1>0, <1>2
  <2> QED
    BY <2>1
<1> QED
  BY <1>0, <1>1, <1>2

Counters == [voiced: Nat, burst: Nat, best: Nat, silence: Nat, total: Nat,
             result: {Undecided, "human", "machine", "unknown"}]

\* What FeedPCM makes of the counters d on a voiced and on an unvoiced frame.
VoicedFields(d, c) ==
    /\ c \in Counters /\ c.total = d.total + 1 /\ c.result = d.result
    /\ c.voiced = d.voiced + 1 /\ c.burst = d.burst + 1
    /\ c.best = d.best /\ c.silence = 0

SilentFields(d, c) ==
    /\ c \in Counters /\ c.total = d.total + 1 /\ c.result = d.result
    /\ c.voiced = d.voiced /\ c.silence = d.silence + 1
    /\ IF d.burst > 0 /\ d.silence + 1 >= SilenceGap
         THEN c.burst = 0 /\ c.best = Best(d)
         ELSE c.burst = d.burst /\ c.best = d.best

LEMMA CountedFields ==
    ASSUME NEW d \in Counters
    PROVE  VoicedFields(d, Counted(d, TRUE)) /\ SilentFields(d, Counted(d, FALSE))
<1>1. /\ d.voiced \in Nat /\ d.burst \in Nat /\ d.best \in Nat /\ d.silence \in Nat
      /\ d.total \in Nat /\ d.result \in {Undecided, "human", "machine", "unknown"}
      /\ SilenceGap \in Nat
  BY AmdAssumption DEF Counters
<1>2. /\ d.voiced + 1 \in Nat /\ d.burst + 1 \in Nat /\ d.total + 1 \in Nat /\ 0 \in Nat
      /\ d.silence + 1 \in Nat /\ Best(d) \in Nat
  BY <1>1 DEF Best
<1>3. VoicedFields(d, Counted(d, TRUE))
  <2> DEFINE c == [voiced |-> d.voiced + 1, burst |-> d.burst + 1, best |-> d.best,
                   silence |-> 0, total |-> d.total + 1, result |-> d.result]
  <2>1. Counted(d, TRUE) = c
    BY DEF Counters, Counted
  <2>2. VoicedFields(d, c)
    BY <1>1, <1>2 DEF Counters, VoicedFields
  <2> HIDE DEF c
  <2> QED
    BY <2>1, <2>2
<1>4. SilentFields(d, Counted(d, FALSE))
  <2>1. CASE d.burst > 0 /\ d.silence + 1 >= SilenceGap
    <3> DEFINE c == [voiced |-> d.voiced, burst |-> 0, best |-> Best(d),
                     silence |-> d.silence + 1, total |-> d.total + 1, result |-> d.result]
    <3>1. Counted(d, FALSE) = c
      BY <2>1 DEF Counters, Counted, Best
    <3>2. SilentFields(d, c)
      BY <1>1, <1>2, <2>1 DEF Counters, SilentFields
    <3> HIDE DEF c
    <3> QED
      BY <3>1, <3>2
  <2>2. CASE ~(d.burst > 0 /\ d.silence + 1 >= SilenceGap)
    <3> DEFINE c == [voiced |-> d.voiced, burst |-> d.burst, best |-> d.best,
                     silence |-> d.silence + 1, total |-> d.total + 1, result |-> d.result]
    <3>1. Counted(d, FALSE) = c
      BY <2>2 DEF Counters, Counted
    <3>2. SilentFields(d, c)
      BY <1>1, <1>2, <2>2 DEF Counters, SilentFields
    <3> HIDE DEF c
    <3> QED
      BY <3>1, <3>2
  <2> QED
    BY <2>1, <2>2
<1> QED
  BY <1>3, <1>4

\* A voiced frame.
LEMMA CountsVoiced ==
    ASSUME NEW d \in Counters, NEW V, NEW n \in Nat, Follows(d, V, n),
           NEW c, VoicedFields(d, c), NEW W, W = V \cup {n + 1}
    PROVE  Follows(c, W, n + 1)
<1>1. /\ c.total = d.total + 1 /\ c.voiced = d.voiced + 1 /\ c.burst = d.burst + 1
      /\ c.best = d.best /\ c.silence = 0
  BY DEF VoicedFields
<1>2. /\ V \in SUBSET (1..n) /\ d.total = n /\ d.voiced = VoicedAmong(V, 1, n)
      /\ d.burst \in 0..n /\ d.best \in 0..n
      /\ \A i \in 1..(n + 1) : GaplessAmong(V, i, n) => VoicedAmong(V, i, n) <= d.burst
      /\ \A i, j \in 1..n : GaplessAmong(V, i, j) => VoicedAmong(V, i, j) <= Best(d)
  BY DEF Follows
<1>3. PICK i0 \in 1..(n + 1) : GaplessAmong(V, i0, n) /\ VoicedAmong(V, i0, n) = d.burst
  BY DEF Follows
<1>4. SilenceGap \in Nat \ {0}
  BY AmdAssumption
<1>5. W \in SUBSET (1..(n + 1)) /\ c.total = n + 1 /\ n + 1 \in Nat
  BY <1>1, <1>2
<1>w. \A i \in 1..(n + 1) : VoicedAmong(W, i, n + 1) = VoicedAmong(V, i, n) + 1
  BY <1>2, VoicedFrame
<1>6. c.voiced = VoicedAmong(W, 1, n + 1)
  <2>1. 1 \in 1..(n + 1)
    OBVIOUS
  <2> QED
    BY <1>1, <1>2, <2>1, <1>w
<1>7. c.silence \in 0..(n + 1) /\ c.burst \in 0..(n + 1) /\ c.best \in 0..(n + 1)
  BY <1>1, <1>2
<1>8. /\ \A k \in (n + 1 - c.silence + 1)..(n + 1) : k \notin W
      /\ c.silence < n + 1 => n + 1 - c.silence \in W
  BY <1>1
<1>9. GaplessAmong(W, i0, n + 1) /\ VoicedAmong(W, i0, n + 1) = c.burst
  <2>1. n + 2 - SilenceGap >= 1 => \E l \in (n + 2 - SilenceGap)..(n + 1) : l \in W
    BY <1>4
  <2>2. W = V \/ W = V \cup {n + 1}
    OBVIOUS
  <2>3. GaplessAmong(W, i0, n + 1)
    BY <1>2, <1>3, <2>1, <2>2, GaplessAfter
  <2> QED
    BY <1>1, <1>3, <2>3, <1>w
<1>10. ASSUME NEW i \in 1..(n + 2), GaplessAmong(W, i, n + 1)
       PROVE  VoicedAmong(W, i, n + 1) <= c.burst
  <2>1. CASE i = n + 2
    <3>1. W \cap i..(n + 1) = {}
      BY <2>1
    <3>2. VoicedAmong(W, i, n + 1) = 0
      BY <3>1, FS_EmptySet DEF VoicedAmong
    <3> QED
      BY <1>1, <1>2, <3>2
  <2>2. CASE i # n + 2
    <3>1. i \in 1..(n + 1) /\ i \in Nat
      BY <2>2
    <3>2. GaplessAmong(V, i, n)
      BY <1>2, <1>10, <3>1, GaplessBefore
    <3>3. VoicedAmong(V, i, n) <= d.burst
      BY <1>2, <3>1, <3>2
    <3>4. VoicedAmong(V, i, n) \in Nat
      BY <1>2, <3>1, VoicedAmongNat
    <3> QED
      BY <1>1, <1>2, <3>1, <3>3, <3>4, <1>w
  <2> QED
    BY <2>1, <2>2
<1>11. ASSUME NEW i \in 1..(n + 1), NEW j \in 1..(n + 1), GaplessAmong(W, i, j)
       PROVE  VoicedAmong(W, i, j) <= Best(c)
  <2>0. i \in Nat /\ j \in Nat /\ VoicedAmong(W, i, j) \in Nat
    <3>1. i \in Nat /\ j \in Nat
      OBVIOUS
    <3> QED
      BY <1>5, <3>1, VoicedAmongNat
  <2>1. Best(c) \in Nat /\ Best(d) \in Nat /\ Best(c) >= c.burst /\ Best(c) >= Best(d)
        /\ c.burst \in Nat
    BY <1>1, <1>2 DEF Best
  <2>2. CASE j = n + 1
    <3>1. i \in 1..(n + 2)
      OBVIOUS
    <3>2. VoicedAmong(W, i, j) <= c.burst
      BY <1>10, <1>11, <2>2, <3>1
    <3> QED
      BY <2>0, <2>1, <3>2
  <2>3. CASE j # n + 1
    <3>1. j \in 0..n /\ j \in 1..n
      BY <2>3
    <3>2. VoicedAmong(W, i, j) = VoicedAmong(V, i, j)
      BY <1>2, <2>0, <3>1, FramesBefore
    <3>3. GaplessAmong(V, i, j)
      BY <1>2, <1>11, <2>0, <3>1, GaplessBefore
    <3>4. CASE i = n + 1
      <4>1. V \cap i..j = {}
        BY <3>1, <3>4
      <4>2. VoicedAmong(V, i, j) = 0
        BY <4>1, FS_EmptySet DEF VoicedAmong
      <4> QED
        BY <2>1, <3>2, <4>2
    <3>5. CASE i # n + 1
      <4>1. i \in 1..n
        BY <3>5
      <4>2. VoicedAmong(V, i, j) <= Best(d)
        BY <1>2, <3>1, <3>3, <4>1
      <4> QED
        BY <2>0, <2>1, <3>2, <4>2
    <3> QED
      BY <3>4, <3>5
  <2> QED
    BY <2>2, <2>3
<1>12. Best(c) > 0 => W # {}
  OBVIOUS
<1>13. n + 1 + 1 = n + 2 /\ i0 \in 1..(n + 2)
  OBVIOUS
<1>14. \E i \in 1..(n + 1 + 1) : GaplessAmong(W, i, n + 1) /\ VoicedAmong(W, i, n + 1) = c.burst
  BY <1>9, <1>13
<1>15. \A i \in 1..(n + 1 + 1) : GaplessAmong(W, i, n + 1) => VoicedAmong(W, i, n + 1) <= c.burst
  BY <1>10, <1>13
<1> QED
  BY ONLY <1>5, <1>6, <1>7, <1>8, <1>11, <1>12, <1>14, <1>15 DEF Follows

\* An unvoiced frame.
LEMMA CountsSilent ==
    ASSUME NEW d \in Counters, NEW V, NEW n \in Nat, Follows(d, V, n),
           NEW c, SilentFields(d, c)
    PROVE  Follows(c, V, n + 1)
<1>1. /\ c.total = d.total + 1 /\ c.voiced = d.voiced /\ c.silence = d.silence + 1
      /\ IF d.burst > 0 /\ d.silence + 1 >= SilenceGap
           THEN c.burst = 0 /\ c.best = Best(d)
           ELSE c.burst = d.burst /\ c.best = d.best
  BY DEF SilentFields
<1>2. /\ V \in SUBSET (1..n) /\ d.total = n /\ d.voiced = VoicedAmong(V, 1, n)
      /\ d.silence \in 0..n /\ d.burst \in 0..n /\ d.best \in 0..n
      /\ \A k \in (n - d.silence + 1)..n : k \notin V
      /\ d.silence < n => n - d.silence \in V
      /\ \A i \in 1..(n + 1) : GaplessAmong(V, i, n) => VoicedAmong(V, i, n) <= d.burst
      /\ \A i, j \in 1..n : GaplessAmong(V, i, j) => VoicedAmong(V, i, j) <= Best(d)
      /\ Best(d) > 0 => V # {}
  BY DEF Follows
<1>3. PICK i0 \in 1..(n + 1) : GaplessAmong(V, i0, n) /\ VoicedAmong(V, i0, n) = d.burst
  BY DEF Follows
<1>4. SilenceGap \in Nat \ {0}
  BY AmdAssumption
<1>5. V \in SUBSET (1..(n + 1)) /\ c.total = n + 1 /\ n + 1 \in Nat
      /\ n + 1 + 1 = n + 2
  BY <1>1, <1>2
<1>w. \A i \in Nat : VoicedAmong(V, i, n + 1) = VoicedAmong(V, i, n)
  BY <1>2, SilentFrame
<1>6. c.voiced = VoicedAmong(V, 1, n + 1)
  BY <1>1, <1>2, <1>w
<1>7. /\ c.silence \in 0..(n + 1) /\ c.burst \in 0..(n + 1) /\ c.best \in 0..(n + 1)
      /\ c.burst <= d.burst /\ Best(c) = Best(d) /\ d.burst <= Best(d)
      /\ Best(d) \in Nat
  BY <1>1, <1>2 DEF Best
<1>8. /\ \A k \in (n + 1 - c.silence + 1)..(n + 1) : k \notin V
      /\ c.silence < n + 1 => n + 1 - c.silence \in V
  <2>1. n + 1 - c.silence + 1 = n - d.silence + 1 /\ n + 1 - c.silence = n - d.silence
    BY <1>1, <1>2
  <2>2. ASSUME NEW k \in (n - d.silence + 1)..(n + 1) PROVE k \notin V
    <3>1. CASE k = n + 1
      BY <1>2, <3>1
    <3>2. CASE k # n + 1
      <4>1. k \in (n - d.silence + 1)..n
        BY <1>2, <3>2
      <4> QED
        BY <1>2, <4>1
    <3> QED
      BY <3>1, <3>2
  <2> QED
    BY <1>1, <1>2, <2>1, <2>2
<1>e. ASSUME NEW i \in Nat, NEW j \in Nat, V \cap i..j = {}
      PROVE  VoicedAmong(V, i, j) = 0
  BY <1>e, FS_EmptySet DEF VoicedAmong
<1>9. VoicedAmong(V, n + 2, n + 1) = 0
  BY <1>e
<1>10. ASSUME NEW i \in 1..(n + 1), GaplessAmong(V, i, n + 1)
       PROVE  VoicedAmong(V, i, n + 1) <= d.burst /\ VoicedAmong(V, i, n + 1) \in Nat
  <2>1. i \in Nat
    OBVIOUS
  <2>2. GaplessAmong(V, i, n)
    BY <1>2, <1>10, <2>1, GaplessBefore
  <2>3. VoicedAmong(V, i, n) <= d.burst
    BY <1>2, <2>2
  <2>4. VoicedAmong(V, i, n + 1) \in Nat
    BY <1>5, <2>1, VoicedAmongNat
  <2> QED
    BY <1>w, <2>1, <2>3, <2>4
<1>11. /\ \E i \in 1..(n + 2) : GaplessAmong(V, i, n + 1) /\ VoicedAmong(V, i, n + 1) = c.burst
       /\ \A i \in 1..(n + 2) : GaplessAmong(V, i, n + 1) => VoicedAmong(V, i, n + 1) <= c.burst
  <2>1. CASE d.silence + 1 >= SilenceGap
    <3>1. c.burst = 0
      BY <1>1, <1>2, <2>1
    <3>2. GaplessAmong(V, n + 2, n + 1)
      BY DEF GaplessAmong
    <3>3. ASSUME NEW i \in 1..(n + 2), GaplessAmong(V, i, n + 1)
          PROVE  VoicedAmong(V, i, n + 1) = 0
      <4>1. CASE i <= n + 2 - SilenceGap
        <5>1. n + 2 - SilenceGap \in i..(n + 1) /\ n + 2 - SilenceGap + SilenceGap - 1 = n + 1
          BY <1>4, <4>1
        <5>2. PICK m \in (n + 2 - SilenceGap)..(n + 1) : m \in V
          BY <3>3, <5>1 DEF GaplessAmong
        <5>3. m \in (n + 1 - c.silence + 1)..(n + 1)
          BY <1>1, <1>2, <1>4, <2>1, <5>2
        <5> QED
          BY <1>8, <5>2, <5>3
      <4>2. CASE i > n + 2 - SilenceGap
        <5>1. \A k \in i..(n + 1) : k \in (n + 1 - c.silence + 1)..(n + 1)
          BY <1>1, <1>2, <1>4, <2>1, <4>2
        <5>2. V \cap i..(n + 1) = {} /\ i \in Nat
          BY <1>8, <5>1
        <5> QED
          BY <1>e, <5>2
      <4> QED
        BY <1>4, <4>1, <4>2
    <3>4. n + 2 \in 1..(n + 2)
      OBVIOUS
    <3>5. \A i \in 1..(n + 2) : GaplessAmong(V, i, n + 1) => VoicedAmong(V, i, n + 1) <= c.burst
      BY <3>1, <3>3
    <3> QED
      BY <1>9, <3>1, <3>2, <3>4, <3>5
  <2>2. CASE d.silence + 1 < SilenceGap
    <3>1. c.burst = d.burst
      BY <1>1, <1>2, <1>4, <2>2
    <3>2. n + 2 - SilenceGap >= 1 => \E l \in (n + 2 - SilenceGap)..(n + 1) : l \in V
      <4> SUFFICES ASSUME n + 2 - SilenceGap >= 1
                   PROVE  \E l \in (n + 2 - SilenceGap)..(n + 1) : l \in V
        OBVIOUS
      <4>1. d.silence < n /\ n - d.silence \in (n + 2 - SilenceGap)..(n + 1)
        BY <1>2, <1>4, <2>2
      <4> QED
        BY <1>2, <4>1
    <3>3. GaplessAmong(V, i0, n + 1)
      BY <1>2, <1>3, <3>2, GaplessAfter
    <3>4. i0 \in Nat /\ i0 \in 1..(n + 2)
      OBVIOUS
    <3>5. VoicedAmong(V, i0, n + 1) = c.burst
      BY <1>3, <1>w, <3>1, <3>4
    <3>6. ASSUME NEW i \in 1..(n + 2), GaplessAmong(V, i, n + 1)
          PROVE  VoicedAmong(V, i, n + 1) <= c.burst
      <4>1. CASE i = n + 2
        BY <1>2, <1>9, <3>1, <4>1
      <4>2. CASE i # n + 2
        <5>1. i \in 1..(n + 1)
          BY <4>2
        <5> QED
          BY <1>10, <3>1, <3>6, <5>1
      <4> QED
        BY <4>1, <4>2
    <3> QED
      BY <3>3, <3>4, <3>5, <3>6
  <2> QED
    BY <1>2, <1>4, <2>1, <2>2
<1>12. ASSUME NEW i \in 1..(n + 1), NEW j \in 1..(n + 1), GaplessAmong(V, i, j)
       PROVE  VoicedAmong(V, i, j) <= Best(c)
  <2>1. i \in Nat /\ j \in Nat
    OBVIOUS
  <2>2. VoicedAmong(V, i, j) \in Nat
    BY <1>5, <2>1, VoicedAmongNat
  <2>3. CASE j = n + 1
    <3>1. VoicedAmong(V, i, j) <= d.burst
      BY <1>10, <1>12, <2>3
    <3> QED
      BY <1>2, <1>7, <2>2, <3>1
  <2>4. CASE j # n + 1 /\ i = n + 1
    <3>1. V \cap i..j = {}
      BY <2>4
    <3> QED
      BY <1>7, <1>e, <2>1, <3>1
  <2>5. CASE j # n + 1 /\ i # n + 1
    <3>1. i \in 1..n /\ j \in 1..n
      BY <2>5
    <3> QED
      BY <1>2, <1>7, <1>12, <3>1
  <2> QED
    BY <2>3, <2>4, <2>5
<1>13. Best(c) > 0 => V # {}
  BY <1>2, <1>7
<1> QED
  BY <1>5, <1>6, <1>7, <1>8, <1>11, <1>12, <1>13 DEF Follows

-----------------------------------------------------------------------------
(* The verdict. *)

LongAmong(V, n) ==
    \E i, j \in 1..n : i <= j /\ GaplessAmong(V, i, j) /\ VoicedAmong(V, i, j) >= MachineBurst

\* VerdictFitsAudio of the positions of the voiced frames.
Fits(V, n, result) ==
    /\ result = "machine" =>
         \/ LongAmong(V, n)
         \/ n >= DecisionWindow /\ VoicedAmong(V, 1, n) * RatioDen >= RatioNum * n
    /\ n >= MinDecision /\ LongAmong(V, n) => result = "machine"
    /\ result = "unknown" <=> n = DecisionWindow /\ V = {}
    /\ result = "human" => V # {}
    /\ result # Undecided => n >= MinDecision
    /\ n = DecisionWindow => result # Undecided

LEMMA LongIsBest ==
    ASSUME NEW d \in Counters, NEW V, NEW n \in Nat, Follows(d, V, n),
           d.best < MachineBurst
    PROVE  LongAmong(V, n) <=> d.burst >= MachineBurst
<1>1. /\ V \in SUBSET (1..n) /\ d.burst \in 0..n /\ d.best \in 0..n
      /\ \A i, j \in 1..n : GaplessAmong(V, i, j) => VoicedAmong(V, i, j) <= Best(d)
  BY DEF Follows
<1>2. MachineBurst \in Nat \ {0}
  BY AmdAssumption
<1>3. ASSUME LongAmong(V, n) PROVE d.burst >= MachineBurst
  <2>1. PICK i \in 1..n, j \in 1..n : GaplessAmong(V, i, j) /\ VoicedAmong(V, i, j) >= MachineBurst
    BY <1>3 DEF LongAmong
  <2>2. VoicedAmong(V, i, j) <= Best(d)
    BY <1>1, <2>1
  <2>3. VoicedAmong(V, i, j) \in Nat
    <3>1. i \in Nat /\ j \in Nat
      OBVIOUS
    <3> QED
      BY <1>1, <3>1, VoicedAmongNat
  <2> QED
    BY <1>1, <1>2, <2>1, <2>2, <2>3 DEF Best
<1>4. ASSUME d.burst >= MachineBurst PROVE LongAmong(V, n)
  <2>1. PICK i \in 1..(n + 1) : GaplessAmong(V, i, n) /\ VoicedAmong(V, i, n) = d.burst
    BY DEF Follows
  <2>2. i # n + 1
    <3> SUFFICES ASSUME i = n + 1 PROVE FALSE
      OBVIOUS
    <3>1. V \cap i..n = {}
      OBVIOUS
    <3>2. VoicedAmong(V, i, n) = 0
      BY <3>1, FS_EmptySet DEF VoicedAmong
    <3> QED
      BY <1>2, <1>4, <2>1, <3>2
  <2>3. i \in 1..n /\ n \in 1..n /\ i <= n
    BY <2>2
  <2> QED
    BY <1>4, <2>1, <2>3 DEF LongAmong
<1> QED
  BY <1>3, <1>4

LEMMA SilentIsNoBurst ==
    ASSUME NEW d \in Counters, NEW V, NEW n \in Nat, Follows(d, V, n)
    PROVE  /\ Best(d) \in Nat /\ (V = {} <=> Best(d) = 0)
           /\ (V = {} => d.voiced = 0)
<1>1. /\ V \in SUBSET (1..n) /\ d.burst \in 0..n /\ d.best \in 0..n
      /\ \A i, j \in 1..n : GaplessAmong(V, i, j) => VoicedAmong(V, i, j) <= Best(d)
      /\ Best(d) > 0 => V # {}
      /\ d.voiced = VoicedAmong(V, 1, n)
  BY DEF Follows
<1>2. Best(d) \in Nat
  BY <1>1 DEF Best
<1>3. ASSUME V # {} PROVE Best(d) # 0
  <2>1. PICK k \in V : TRUE
    BY <1>3
  <2>2. k \in 1..n /\ k \in Nat
    BY <1>1
  <2>3. GaplessAmong(V, k, k)
    BY <2>1, <2>2, AmdAssumption DEF GaplessAmong
  <2>4. V \cap k..k # {}
    BY <2>1, <2>2
  <2>5. VoicedAmong(V, k, k) \in Nat /\ VoicedAmong(V, k, k) # 0
    BY <1>1, <2>2, <2>4, VoicedAmongNat
  <2>6. VoicedAmong(V, k, k) <= Best(d)
    BY <1>1, <2>2, <2>3
  <2> QED
    BY <1>2, <2>5, <2>6
<1>4. ASSUME V = {} PROVE d.voiced = 0
  <2>1. V \cap 1..n = {}
    BY <1>4
  <2> QED
    BY <1>1, <2>1, FS_EmptySet DEF VoicedAmong
<1>5. V = {} => ~(Best(d) > 0)
  BY <1>1
<1> QED
  BY <1>2, <1>3, <1>4, <1>5

\* The verdict on counters that follow the audio fits it.
LEMMA VerdictFits ==
    ASSUME NEW d \in Counters, NEW V, NEW n \in Nat, n <= DecisionWindow,
           Follows(d, V, n), d.best < MachineBurst
    PROVE  /\ Fits(V, n, Verdict(d))
           /\ Verdict(d) \in {Undecided, "human", "machine", "unknown"}
           /\ Verdict(d) = Undecided => d.burst < MachineBurst /\ n < DecisionWindow
<1> USE DEF Undecided
<1>1. /\ SilenceGap \in Nat \ {0} /\ HumanBurst \in Nat \ {0} /\ MinDecision < MachineBurst
      /\ MachineBurst < DecisionWindow /\ DecisionWindow \in Nat
      /\ RatioNum \in Nat \ {0} /\ RatioDen \in Nat \ {0}
      /\ MachineBurst \in Nat /\ MinDecision \in Nat
  BY AmdAssumption
<1>2. /\ d.total = n /\ d.voiced = VoicedAmong(V, 1, n)
      /\ d.burst \in 0..n /\ d.best \in 0..n /\ d.silence \in 0..n
  BY DEF Follows
<1>3. LongAmong(V, n) <=> d.burst >= MachineBurst
  BY LongIsBest
<1>4. /\ Best(d) \in Nat /\ (V = {} <=> Best(d) = 0) /\ (V = {} => d.voiced = 0)
  BY SilentIsNoBurst
<1>5. Best(d) >= d.best /\ (Best(d) >= MachineBurst <=> d.burst >= MachineBurst)
  BY <1>1, <1>2 DEF Best
<1>6. CASE n < MinDecision
  <2>1. Verdict(d) = Undecided
    BY <1>2, <1>6 DEF Verdict
  <2> QED
    BY <1>1, <1>2, <1>3, <1>6, <2>1 DEF Fits
<1>7. CASE n >= MinDecision /\ d.burst >= MachineBurst
  <2>1. Verdict(d) = "machine"
    BY <1>1, <1>2, <1>7 DEF Verdict
  <2>2. V # {}
    BY <1>1, <1>4, <1>5, <1>7
  <2> QED
    BY <1>1, <1>3, <1>7, <2>1, <2>2 DEF Fits
<1>8. CASE /\ n >= MinDecision /\ d.burst < MachineBurst
           /\ d.best > 0 /\ d.best <= HumanBurst /\ d.silence >= SilenceGap
  <2>1. Verdict(d) = "human"
    BY <1>1, <1>2, <1>8 DEF Verdict
  <2>2. V # {}
    BY <1>2, <1>4, <1>5, <1>8
  <2> QED
    BY <1>1, <1>2, <1>3, <1>8, <2>1, <2>2 DEF Fits
<1>9. CASE /\ n >= MinDecision /\ d.burst < MachineBurst
           /\ ~(d.best > 0 /\ d.best <= HumanBurst /\ d.silence >= SilenceGap)
           /\ n < DecisionWindow
  <2>1. Verdict(d) = Undecided
    BY <1>1, <1>2, <1>9 DEF Verdict
  <2> QED
    BY <1>1, <1>2, <1>3, <1>9, <2>1 DEF Fits
<1>10. CASE /\ n >= MinDecision /\ d.burst < MachineBurst
            /\ ~(d.best > 0 /\ d.best <= HumanBurst /\ d.silence >= SilenceGap)
            /\ n = DecisionWindow
  <2>1. Verdict(d) = ForcedVerdict(d)
    BY <1>1, <1>2, <1>10 DEF Verdict
  <2>2. ~(Best(d) >= MachineBurst) /\ ~LongAmong(V, n)
    BY <1>1, <1>2, <1>3, <1>5, <1>10
  <2>3. CASE d.voiced * RatioDen >= RatioNum * d.total
    <3>1. Verdict(d) = "machine"
      BY <2>1, <2>3 DEF ForcedVerdict
    <3>2. V # {}
      <4> SUFFICES ASSUME V = {} PROVE FALSE
        OBVIOUS
      <4>1. d.voiced * RatioDen = 0
        BY <1>1, <1>4
      <4>2. RatioNum * n > 0
        BY <1>1, <1>10
      <4> QED
        BY <1>1, <1>2, <2>3, <4>1, <4>2
    <3>3. VoicedAmong(V, 1, n) * RatioDen >= RatioNum * n
      BY <1>2, <2>3
    <3> QED
      BY <1>10, <2>2, <3>1, <3>2, <3>3, <1>1 DEF Fits
  <2>4. CASE ~(d.voiced * RatioDen >= RatioNum * d.total) /\ Best(d) > 0
    <3>1. Verdict(d) = "human"
      BY <2>1, <2>2, <2>4 DEF ForcedVerdict
    <3> QED
      BY <1>4, <1>10, <2>2, <2>4, <3>1 DEF Fits
  <2>5. CASE ~(d.voiced * RatioDen >= RatioNum * d.total) /\ ~(Best(d) > 0)
    <3>1. Verdict(d) = "unknown"
      BY <2>1, <2>2, <2>5 DEF ForcedVerdict
    <3> QED
      BY <1>4, <1>10, <2>2, <2>5, <3>1 DEF Fits
  <2> QED
    BY <2>3, <2>4, <2>5
<1> QED
  BY <1>1, <1>2, <1>6, <1>7, <1>8, <1>9, <1>10

-----------------------------------------------------------------------------
(* The session and the backend. *)

VoicedFrames == {k \in 1..Len(heard) : heard[k]}

\* The detector follows the audio until it decides, and its verdict fits it.
DetectorInv ==
    /\ det \in Detectors /\ heard \in Seq(BOOLEAN) /\ Len(heard) = det.total
    /\ Fits(VoicedFrames, Len(heard), det.result)
    /\ det.result = Undecided =>
         /\ Follows(det, VoicedFrames, Len(heard))
         /\ det.burst < MachineBurst /\ det.best < MachineBurst
         /\ Len(heard) < DecisionWindow

Reports == [verdict: {Undecided, "human", "machine", "unknown"},
            state: {"sent", "ignored", "handled", "lost"}]

\* A session reports once, when it has decided, and what follows from the report
\* agrees with the verdict.
ReportInv ==
    /\ reports \in Seq(Reports) /\ Len(reports) <= 1
    /\ ~notified => reports = << >>
    /\ notified => det.result # Undecided
    /\ \A f \in Feeders : feeder[f] = "fed" => det.result # Undecided
    /\ \A i \in 1..Len(reports) : reports[i].verdict = det.result
    /\ amdRow.result # "" => amdRow.result = det.result
    /\ OnlyMachinesAreHungUp

SessionTypes ==
    /\ feeder \in [Feeders -> {"idle", "checked", "fed"}]
    /\ notified \in BOOLEAN /\ linked \in BOOLEAN
    /\ ending \in BOOLEAN /\ sessionOver \in BOOLEAN
    /\ botAction \in AmdActions
    /\ amdRow.result \in {"", "human", "machine", "unknown"}
    /\ amdFaults \in 0..MaxAmdFaults /\ botEdits \in 0..MaxBotEdits

\* AmdInv made inductive.
AmdIndInv == DetectorInv /\ ReportInv /\ SessionTypes

\* The definitions of the property, on the frames heard.
LEMMA StretchesHeard ==
    ASSUME heard \in Seq(BOOLEAN), NEW i \in 1..Len(heard), NEW j \in 1..Len(heard)
    PROVE  /\ VoicedIn(i, j) = VoicedAmong(VoicedFrames, i, j)
           /\ Stretch(i, j) <=> GaplessAmong(VoicedFrames, i, j)
<1>0. Len(heard) \in Nat /\ SilenceGap \in Nat \ {0}
  BY AmdAssumption
<1>1. {k \in i..j : heard[k]} = VoicedFrames \cap i..j
  BY <1>0 DEF VoicedFrames
<1>2. VoicedIn(i, j) = VoicedAmong(VoicedFrames, i, j)
  BY <1>1 DEF VoicedIn, VoicedAmong
<1>3. ASSUME NEW k \in i..j, k + SilenceGap - 1 <= j
      PROVE  /\ (k + SilenceGap - 1) \in 1..Len(heard)
             /\ \A m \in k..(k + SilenceGap - 1) : heard[m] <=> m \in VoicedFrames
  BY <1>0, <1>3 DEF VoicedFrames
<1>4. Stretch(i, j) <=> GaplessAmong(VoicedFrames, i, j)
  BY <1>3 DEF Stretch, GaplessAmong
<1> QED
  BY <1>2, <1>4

LEMMA AmdIndImplies == AmdIndInv => AmdInv
<1> SUFFICES ASSUME AmdIndInv PROVE AmdInv
  OBVIOUS
<1> DEFINE n == Len(heard)
           V == VoicedFrames
<1>0. /\ n \in Nat /\ heard \in Seq(BOOLEAN) /\ Fits(V, n, det.result)
      /\ DecisionWindow \in Nat /\ MinDecision \in Nat /\ MinDecision < DecisionWindow
      /\ V = {} <=> \A k \in 1..n : ~heard[k]
  BY AmdAssumption DEF AmdIndInv, DetectorInv, VoicedFrames
<1>1. LongSpeech <=> LongAmong(V, n)
  BY <1>0, StretchesHeard DEF LongSpeech, LongAmong
<1>2. n >= DecisionWindow => VoicedIn(1, n) = VoicedAmong(V, 1, n)
  <2> SUFFICES ASSUME n >= DecisionWindow PROVE VoicedIn(1, n) = VoicedAmong(V, 1, n)
    OBVIOUS
  <2>1. n >= 1
    BY <1>0, AmdAssumption
  <2>2. 1 \in 1..n /\ n \in 1..n
    BY <1>0, <2>1
  <2> QED
    BY <1>0, <2>2, StretchesHeard
<1> HIDE DEF n, V
<1>3. VerdictFitsAudio
  BY <1>0, <1>1, <1>2 DEF VerdictFitsAudio, Fits, n
<1>4. AmdTypeOK
  BY DEF AmdIndInv, DetectorInv, SessionTypes, AmdTypeOK
<1>5. ReportedOnce /\ OnlyMachinesAreHungUp
  BY DEF AmdIndInv, ReportInv, ReportedOnce
<1> QED
  BY <1>3, <1>4, <1>5 DEF AmdInv

LEMMA AmdIndInit == AmdInit => AmdIndInv
<1> SUFFICES ASSUME AmdInit PROVE AmdIndInv
  OBVIOUS
<1> USE AmdAssumption
<1>1. heard = << >> /\ Len(heard) = 0 /\ heard \in Seq(BOOLEAN) /\ VoicedFrames = {}
  <2>1. heard = << >> /\ Len(heard) = 0 /\ heard \in Seq(BOOLEAN)
    <3>1. heard = << >>
      BY DEF AmdInit
    <3> QED
      BY <3>1
  <2>2. 1..Len(heard) = {}
    BY <2>1
  <2> QED
    BY <2>1, <2>2 DEF VoicedFrames
<1>2. /\ det \in Detectors /\ det.total = 0 /\ det.result = Undecided /\ det.voiced = 0
      /\ det.burst = 0 /\ det.best = 0 /\ det.silence = 0
  <2>1. 0 \in 0..DecisionWindow
    OBVIOUS
  <2> QED
    BY <2>1 DEF AmdInit, Detectors
<1>3. ASSUME NEW i \in Nat, NEW j \in Nat PROVE VoicedAmong({}, i, j) = 0
  <2>1. {} \cap i..j = {}
    OBVIOUS
  <2> QED
    BY <2>1, FS_EmptySet DEF VoicedAmong
<1>4. GaplessAmong({}, 1, 0)
  BY DEF GaplessAmong
<1>5. Follows(det, {}, 0)
  <2>1. Best(det) = 0
    BY <1>2 DEF Best
  <2>2. \E i \in 1..(0 + 1) : GaplessAmong({}, i, 0) /\ VoicedAmong({}, i, 0) = det.burst
    BY <1>2, <1>3, <1>4
  <2>3. \A i \in 1..(0 + 1) : VoicedAmong({}, i, 0) <= det.burst
    BY <1>2, <1>3
  <2>4. det.voiced = VoicedAmong({}, 1, 0)
    BY <1>2, <1>3
  <2> QED
    BY <1>2, <2>1, <2>2, <2>3, <2>4 DEF Follows
<1>6. Fits({}, 0, Undecided)
  <2>1. ~LongAmong({}, 0)
    BY DEF LongAmong
  <2> QED
    BY <2>1 DEF Fits, Undecided
<1>7. DetectorInv
  BY <1>1, <1>2, <1>5, <1>6 DEF DetectorInv
<1>8. SessionTypes
  <2>1. amdFaults \in 0..MaxAmdFaults /\ botEdits \in 0..MaxBotEdits
    <3>1. amdFaults = 0 /\ botEdits = 0
      BY DEF AmdInit
    <3>2. MaxAmdFaults \in Nat /\ MaxBotEdits \in Nat
      BY AmdAssumption
    <3> QED
      BY <3>1, <3>2
  <2>2. amdRow.result = ""
    BY DEF AmdInit
  <2>3. feeder \in [Feeders -> {"idle", "checked", "fed"}]
    BY DEF AmdInit
  <2> QED
    BY <2>1, <2>2, <2>3 DEF AmdInit, SessionTypes
<1>9. ReportInv
  <2>1. reports = << >> /\ reports \in Seq(Reports) /\ Len(reports) = 0 /\ 1..Len(reports) = {}
    <3>1. reports = << >>
      BY DEF AmdInit
    <3> QED
      BY <3>1
  <2>2. amdRow.result = "" /\ \A f \in Feeders : feeder[f] # "fed"
    BY DEF AmdInit
  <2>3. notified = FALSE /\ ending = FALSE /\ sessionOver = FALSE
    BY DEF AmdInit
  <2>4. OnlyMachinesAreHungUp
    BY <2>3 DEF OnlyMachinesAreHungUp
  <2>5. \A i \in 1..Len(reports) : reports[i].verdict = det.result
    BY <2>1
  <2>6. Len(reports) <= 1
    BY <2>1
  <2> QED
    BY <2>1, <2>2, <2>3, <2>4, <2>5, <2>6 DEF ReportInv
<1> QED
  BY <1>7, <1>8, <1>9 DEF AmdIndInv

\* A frame, fed or not.
LEMMA FeedKeepsDetector ==
    ASSUME DetectorInv, NEW voiced \in BOOLEAN, FeedPCM(voiced)
    PROVE  /\ DetectorInv'
           /\ det.result # Undecided => det'.result = det.result
<1> DEFINE n == Len(heard)
           V == VoicedFrames
<1>0. /\ det \in Detectors /\ heard \in Seq(BOOLEAN) /\ n = det.total /\ n \in Nat
      /\ Fits(V, n, det.result)
      /\ det.result = Undecided =>
           /\ Follows(det, V, n)
           /\ det.burst < MachineBurst /\ det.best < MachineBurst /\ n < DecisionWindow
      /\ DecisionWindow \in Nat /\ MachineBurst \in Nat
  BY AmdAssumption DEF DetectorInv
<1>1. CASE det.result # Undecided
  <2>1. UNCHANGED <<det, heard>>
    BY <1>1 DEF FeedPCM
  <2>2. UNCHANGED VoicedFrames
    BY <2>1 DEF VoicedFrames
  <2> QED
    BY <1>1, <2>1, <2>2 DEF DetectorInv
<1>2. CASE det.result = Undecided
  <2> DEFINE c == Counted(det, voiced)
             W == IF voiced THEN V \cup {n + 1} ELSE V
  <2>1. det' = [c EXCEPT !.result = Verdict(c)] /\ heard' = Append(heard, voiced)
    BY <1>2 DEF FeedPCM
  <2>2. det \in Counters
    BY <1>0 DEF Detectors, Counters
  <2>3. /\ c \in Counters
        /\ Follows(c, W, n + 1)
        /\ c.best < MachineBurst
    <3>1. CASE voiced
      <4>1. VoicedFields(det, Counted(det, TRUE))
        BY <2>2, CountedFields
      <4>2. Follows(Counted(det, TRUE), V \cup {n + 1}, n + 1)
        BY <1>0, <1>2, <2>2, <4>1, CountsVoiced
      <4>3. Counted(det, TRUE) \in Counters /\ Counted(det, TRUE).best < MachineBurst
        BY <1>0, <1>2, <4>1 DEF VoicedFields
      <4>4. c = Counted(det, TRUE) /\ W = V \cup {n + 1}
        BY <3>1
      <4> HIDE DEF c, W
      <4> QED
        BY <4>2, <4>3, <4>4
    <3>2. CASE ~voiced
      <4>1. SilentFields(det, Counted(det, FALSE))
        BY <2>2, CountedFields
      <4>2. Follows(Counted(det, FALSE), V, n + 1)
        BY <1>0, <1>2, <2>2, <4>1, CountsSilent
      <4>3. Counted(det, FALSE) \in Counters /\ Counted(det, FALSE).best < MachineBurst
        <5>1. det.burst \in Nat /\ det.best \in Nat
          BY <2>2 DEF Counters
        <5> QED
          BY <1>0, <1>2, <4>1, <5>1 DEF SilentFields, Best
      <4>4. c = Counted(det, FALSE) /\ W = V
        BY <3>2
      <4> HIDE DEF c, W
      <4> QED
        BY <4>2, <4>3, <4>4
    <3> QED
      BY <3>1, <3>2
  <2>4. heard' \in Seq(BOOLEAN) /\ Len(heard') = n + 1 /\ VoicedFrames' = W
    <3>1. /\ heard' \in Seq(BOOLEAN) /\ Len(heard') = n + 1
          /\ heard'[n + 1] = voiced /\ \A k \in 1..n : heard'[k] = heard[k]
      BY <1>0, <2>1
    <3>2. VoicedFrames' = {k \in 1..(n + 1) : heard'[k]}
      BY <3>1 DEF VoicedFrames
    <3>3. 1..(n + 1) = 1..n \cup {n + 1}
      BY <1>0
    <3>4. {k \in 1..n \cup {n + 1} : heard'[k]}
            = {k \in 1..n : heard'[k]} \cup {k \in {n + 1} : heard'[k]}
      OBVIOUS
    <3>5. {k \in 1..n : heard'[k]} = V
      BY <3>1 DEF VoicedFrames
    <3>6. {k \in {n + 1} : heard'[k]} = IF voiced THEN {n + 1} ELSE {}
      BY <3>1
    <3> QED
      BY <3>1, <3>2, <3>3, <3>4, <3>5, <3>6
  <2> HIDE DEF c, W
  <2>5. PICK m : m = n + 1
    OBVIOUS
  <2>6. m \in Nat /\ m <= DecisionWindow /\ Follows(c, W, m)
    BY <1>0, <1>2, <2>3, <2>5
  <2>7. /\ Fits(W, m, Verdict(c))
        /\ Verdict(c) \in {Undecided, "human", "machine", "unknown"}
        /\ Verdict(c) = Undecided => c.burst < MachineBurst /\ m < DecisionWindow
    BY <2>3, <2>6, VerdictFits
  <2>8. /\ det'.result = Verdict(c) /\ det'.voiced = c.voiced /\ det'.burst = c.burst
        /\ det'.best = c.best /\ det'.silence = c.silence /\ det'.total = c.total
        /\ det' = [voiced |-> c.voiced, burst |-> c.burst, best |-> c.best,
                   silence |-> c.silence, total |-> c.total, result |-> Verdict(c)]
    BY <2>1, <2>3 DEF Counters
  <2>9. det' \in Detectors /\ m = det'.total
    <3>1. W \subseteq 1..m
      BY <2>6 DEF Follows
    <3>2. c.voiced \in 0..m
      <4>1. c.voiced = VoicedAmong(W, 1, m) /\ W \cap 1..m = W
        BY <2>6, <3>1 DEF Follows
      <4>2. IsFiniteSet(1..m) /\ Cardinality(1..m) = m
        BY <2>6, FS_Interval
      <4>3. Cardinality(W) <= m /\ Cardinality(W) \in Nat
        BY <3>1, <4>2, FS_Subset, FS_CardinalityType
      <4> QED
        BY <2>6, <4>1, <4>3 DEF VoicedAmong
    <3>3. c.total = m /\ c.burst \in 0..m /\ c.best \in 0..m /\ c.silence \in 0..m
      BY <2>6 DEF Follows
    <3>4. \A x \in 0..m : x \in 0..DecisionWindow
      BY <1>0, <2>6
    <3>5. m \in 0..m
      BY <2>6
    <3> QED
      BY <2>7, <2>8, <3>2, <3>3, <3>4, <3>5 DEF Detectors
  <2>10. Follows(det', W, m)
    <3>1. Best(det') = Best(c)
      BY <2>8 DEF Best
    <3> QED
      BY <2>6, <2>8, <3>1 DEF Follows
  <2>11. Len(heard') = m
    BY <2>4, <2>5
  <2> QED
    BY <1>2, <2>3, <2>4, <2>7, <2>8, <2>9, <2>10, <2>11 DEF DetectorInv
<1> QED
  BY <1>1, <1>2

LEMMA AmdIndStep ==
    ASSUME AmdIndInv, [AmdNext]_amdVars
    PROVE  AmdIndInv'
<1>0. /\ det \in Detectors /\ det.result \in {Undecided, "human", "machine", "unknown"}
      /\ reports \in Seq(Reports) /\ Len(reports) <= 1 /\ Len(reports) \in Nat
      /\ DetectorInv /\ ReportInv /\ SessionTypes
  <2>1. DetectorInv /\ ReportInv /\ SessionTypes
    BY DEF AmdIndInv
  <2>2. det \in Detectors
    BY <2>1 DEF DetectorInv
  <2>3. det.result \in {Undecided, "human", "machine", "unknown"}
    BY <2>2 DEF Detectors
  <2>4. reports \in Seq(Reports) /\ Len(reports) <= 1
    BY <2>1 DEF ReportInv
  <2>5. Len(reports) \in Nat
    BY <2>4
  <2> QED
    BY <2>1, <2>2, <2>3, <2>4, <2>5
<1>1. ASSUME UNCHANGED <<det, heard>> PROVE DetectorInv'
  <2>1. UNCHANGED VoicedFrames
    BY <1>1 DEF VoicedFrames
  <2> QED
    BY <1>0, <1>1, <2>1 DEF DetectorInv
<1>2. ASSUME NEW f \in Feeders, ObserveChecks(f) PROVE AmdIndInv'
  <2>1. DetectorInv'
    BY <1>1, <1>2 DEF ObserveChecks
  <2>2. UNCHANGED <<det, notified, reports, amdRow, ending, sessionOver>>
    BY <1>2 DEF ObserveChecks, AmdBackend
  <2>3. \A g \in Feeders : feeder'[g] = "fed" => feeder[g] = "fed"
    BY <1>0, <1>2 DEF ObserveChecks, FeederAt, SessionTypes
  <2>4. ReportInv'
    BY <1>0, <2>2, <2>3 DEF ReportInv, OnlyMachinesAreHungUp
  <2>5. SessionTypes'
    BY <1>0, <1>2 DEF ObserveChecks, FeederAt, SessionTypes, AmdBackend
  <2> QED
    BY <2>1, <2>4, <2>5 DEF AmdIndInv
<1>3. ASSUME NEW f \in Feeders, NEW voiced \in BOOLEAN, ObserveFeeds(f, voiced)
      PROVE  AmdIndInv'
  <2>1. /\ DetectorInv'
        /\ det.result # Undecided => det'.result = det.result
    BY <1>0, <1>3, FeedKeepsDetector DEF ObserveFeeds
  <2>2. UNCHANGED <<notified, reports, amdRow, ending, sessionOver, amdFaults, linked,
                    botAction, botEdits>>
    BY <1>3 DEF ObserveFeeds, AmdBackend
  <2>3. feeder' = [feeder EXCEPT ![f] = IF det'.result = Undecided THEN "idle" ELSE "fed"]
    BY <1>3 DEF ObserveFeeds, FeederAt
  <2>4. \A g \in Feeders : feeder'[g] = "fed" => feeder[g] = "fed" \/ det'.result # Undecided
    BY <1>0, <2>3 DEF SessionTypes
  <2>5. reports # << >> => det.result # Undecided
    BY <1>0 DEF ReportInv
  <2>6. ReportInv'
    <3>1. \A g \in Feeders : feeder'[g] = "fed" => det'.result # Undecided
      BY <1>0, <2>1, <2>4 DEF ReportInv
    <3>2. \A i \in 1..Len(reports) : reports[i].verdict = det'.result
      <4> SUFFICES ASSUME NEW i \in 1..Len(reports) PROVE reports[i].verdict = det'.result
        OBVIOUS
      <4>1. reports # << >>
        BY <1>0
      <4> QED
        BY <1>0, <2>1, <2>5, <4>1 DEF ReportInv
    <3>3. amdRow.result # "" => amdRow.result = det'.result
      <4>1. amdRow.result # "" => amdRow.result = det.result /\ det.result # Undecided
        BY <1>0 DEF ReportInv, SessionTypes, Undecided
      <4> QED
        BY <2>1, <4>1
    <3>4. OnlyMachinesAreHungUp'
      BY <1>0, <2>1, <2>2 DEF ReportInv, OnlyMachinesAreHungUp, Undecided
    <3> QED
      BY <1>0, <2>1, <2>2, <3>1, <3>2, <3>3, <3>4 DEF ReportInv
  <2>7. SessionTypes'
    BY <1>0, <2>2, <2>3 DEF SessionTypes
  <2> QED
    BY <2>1, <2>6, <2>7 DEF AmdIndInv
<1>4. ASSUME NEW f \in Feeders, ObserveNotifies(f) PROVE AmdIndInv'
  <2>1. DetectorInv'
    BY <1>1, <1>4 DEF ObserveNotifies
  <2>2. /\ UNCHANGED <<det, amdRow, ending, sessionOver, amdFaults, linked, botAction, botEdits>>
        /\ feeder' = [feeder EXCEPT ![f] = "idle"]
        /\ det.result # Undecided
    BY <1>0, <1>4 DEF ObserveNotifies, FeederAt, AmdBackend, ReportInv
  <2>3. \A g \in Feeders : feeder'[g] = "fed" => feeder[g] = "fed"
    BY <1>0, <2>2 DEF SessionTypes
  <2>4. OnlyMachinesAreHungUp'
    BY <1>0, <2>2 DEF ReportInv, OnlyMachinesAreHungUp
  <2>5. CASE notified
    <3>1. UNCHANGED <<notified, reports>>
      BY <1>4, <2>5 DEF ObserveNotifies, Notifies
    <3> QED
      BY <1>0, <2>1, <2>2, <2>3, <2>4, <3>1 DEF AmdIndInv, ReportInv, SessionTypes
  <2>6. CASE ~notified
    <3> DEFINE r == [verdict |-> det.result, state |-> "sent"]
    <3>1. notified' = TRUE /\ reports' = Append(reports, r) /\ reports = << >>
      BY <1>0, <1>4, <2>6 DEF ObserveNotifies, Notifies, ReportInv
    <3>2. r \in Reports /\ r.verdict = det.result
      BY <1>0 DEF Reports
    <3> HIDE DEF r
    <3>3. /\ reports' \in Seq(Reports) /\ Len(reports') = 1 /\ reports'[1] = r
      BY <3>1, <3>2
    <3>4. \A i \in 1..Len(reports') : reports'[i].verdict = det'.result
      BY <2>2, <3>2, <3>3
    <3>5. ReportInv'
      <4>1. amdRow.result # "" => amdRow.result = det.result
        BY <1>0 DEF ReportInv
      <4>2. \A g \in Feeders : feeder'[g] = "fed" => det'.result # Undecided
        BY <2>2
      <4>3. amdRow'.result # "" => amdRow'.result = det'.result
        BY <2>2, <4>1
      <4>4. Len(reports') <= 1 /\ (~notified' => reports' = << >>)
            /\ (notified' => det'.result # Undecided)
        BY <2>2, <3>1, <3>3
      <4> QED
        BY ONLY <2>4, <3>3, <3>4, <4>2, <4>3, <4>4 DEF ReportInv
    <3>6. SessionTypes'
      BY <1>0, <2>2, <3>1 DEF SessionTypes
    <3> QED
      BY <2>1, <3>5, <3>6 DEF AmdIndInv
  <2> QED
    BY <2>5, <2>6
<1>5. ASSUME LinkSession \/ \E a \in AmdActions : EditBot(a) PROVE AmdIndInv'
  <2>1. UNCHANGED <<det, heard, feeder, notified, reports, amdRow, ending, sessionOver, amdFaults>>
    BY <1>5 DEF LinkSession, EditBot, AmdQuiet
  <2>2. DetectorInv'
    BY <1>1, <2>1
  <2>3. ReportInv'
    BY <1>0, <2>1 DEF ReportInv, OnlyMachinesAreHungUp
  <2>4. linked' \in BOOLEAN /\ botAction' \in AmdActions
    BY <1>0, <1>5 DEF LinkSession, EditBot, SessionTypes
  <2>5. botEdits' \in 0..MaxBotEdits
    <3>1. botEdits \in 0..MaxBotEdits /\ MaxBotEdits \in Nat
      BY <1>0, AmdAssumption DEF SessionTypes
    <3>2. botEdits' = botEdits \/ (botEdits < MaxBotEdits /\ botEdits' = botEdits + 1)
      BY <1>5 DEF LinkSession, EditBot
    <3> QED
      BY <3>1, <3>2
  <2> QED
    BY <1>0, <2>1, <2>2, <2>3, <2>4, <2>5 DEF AmdIndInv, SessionTypes
<1>f. ASSUME AmdFault PROVE amdFaults' \in 0..MaxAmdFaults
  <2>1. amdFaults \in 0..MaxAmdFaults /\ MaxAmdFaults \in Nat
    BY <1>0, AmdAssumption DEF SessionTypes
  <2> QED
    BY <1>f, <2>1 DEF AmdFault
<1>6. ASSUME EndSession PROVE AmdIndInv'
  <2>1. UNCHANGED <<det, heard, feeder, notified, reports, linked, botAction, amdRow, botEdits>>
        /\ ending /\ ending' = FALSE /\ sessionOver' \in BOOLEAN
    BY <1>0, <1>6 DEF EndSession, AmdQuiet, SessionTypes
  <2>2. amdFaults' \in 0..MaxAmdFaults
    BY <1>0, <1>6, <1>f DEF EndSession, SessionTypes
  <2>3. DetectorInv'
    BY <1>1, <2>1
  <2>4. ReportInv'
    BY <1>0, <2>1 DEF ReportInv, OnlyMachinesAreHungUp
  <2> QED
    BY <1>0, <2>1, <2>2, <2>3, <2>4 DEF AmdIndInv, SessionTypes
<1>7. ASSUME NEW i \in 1..Len(reports), HandleAMDResult(i) PROVE AmdIndInv'
  <2>0. reports[i] \in Reports /\ reports[i].verdict = det.result /\ det.result # Undecided
    <3>1. reports # << >> /\ reports[i] \in Reports
      BY <1>0
    <3>2. notified
      BY <1>0, <3>1 DEF ReportInv
    <3>3. det.result # Undecided
      BY <1>0, <3>2 DEF ReportInv
    <3>4. reports[i].verdict = det.result
      BY <1>0 DEF ReportInv
    <3> QED
      BY <3>1, <3>2, <3>3, <3>4
  <2>1. UNCHANGED <<det, heard, feeder, notified, linked, botAction, sessionOver, botEdits>>
    BY <1>7 DEF HandleAMDResult, AmdQuiet
  <2>2. PICK st \in {"ignored", "handled", "lost"} : reports' = [reports EXCEPT ![i].state = st]
    BY <1>7 DEF HandleAMDResult
  <2>3. /\ reports' \in Seq(Reports) /\ Len(reports') = Len(reports)
        /\ \A j \in 1..Len(reports) : reports'[j].verdict = reports[j].verdict
    <3> DEFINE r == [reports[i] EXCEPT !.state = st]
    <3>1. reports' = [reports EXCEPT ![i] = r]
      BY <1>0, <2>2
    <3>2. r \in Reports /\ r.verdict = reports[i].verdict
      BY <2>0 DEF Reports
    <3> HIDE DEF r
    <3>3. /\ reports' \in Seq(Reports) /\ Len(reports') = Len(reports)
          /\ \A j \in 1..Len(reports) : reports'[j] = IF j = i THEN r ELSE reports[j]
      BY <1>0, <3>1, <3>2
    <3> QED
      BY <3>2, <3>3
  <2>4. /\ amdRow' = amdRow \/ amdRow'.result = det.result
        /\ ending' \in BOOLEAN
        /\ ending' => ending \/ det.result = "machine"
    <3>1. ending \in BOOLEAN
      BY <1>0 DEF SessionTypes
    <3>2. \/ UNCHANGED <<amdRow, ending>>
          \/ /\ \E b : amdRow' = [result |-> reports[i].verdict, dropped |-> b]
             /\ ending' = (ending \/ EndsSession(reports[i].verdict)) \/ UNCHANGED ending
      BY <1>7, Zenon DEF HandleAMDResult
    <3>3. CASE UNCHANGED <<amdRow, ending>>
      BY <3>1, <3>3
    <3>4. CASE /\ \E b : amdRow' = [result |-> reports[i].verdict, dropped |-> b]
               /\ ending' = (ending \/ EndsSession(reports[i].verdict)) \/ UNCHANGED ending
      <4>1. amdRow'.result = det.result
        BY <2>0, <3>4
      <4>2. ending' \in BOOLEAN /\ (ending' => ending \/ det.result = "machine")
        <5>1. EndsSession(reports[i].verdict) => det.result = "machine"
          BY <2>0 DEF EndsSession
        <5>2. CASE ending' = (ending \/ EndsSession(reports[i].verdict))
          <6>1. ending' \in BOOLEAN
            BY <5>2, Zenon
          <6>2. ending' => ending \/ EndsSession(reports[i].verdict)
            BY <5>2, Zenon
          <6> QED
            BY <5>1, <6>1, <6>2
        <5>3. CASE UNCHANGED ending
          BY <3>1, <5>3
        <5> QED
          BY <3>4, <5>2, <5>3, Zenon
      <4> QED
        BY <4>1, <4>2
    <3> QED
      BY <3>2, <3>3, <3>4
  <2>5. amdFaults' \in 0..MaxAmdFaults
    BY <1>0, <1>7, <1>f DEF HandleAMDResult, SessionTypes
  <2>6. DetectorInv'
    BY <1>1, <2>1
  <2>7. OnlyMachinesAreHungUp'
    BY <1>0, <2>1, <2>4 DEF ReportInv, OnlyMachinesAreHungUp
  <2>8. ReportInv'
    <3>1. reports # << >>
      BY <1>0
    <3>2. notified /\ \A j \in 1..Len(reports) : reports[j].verdict = det.result
      BY <1>0, <3>1 DEF ReportInv
    <3>3. amdRow'.result # "" => amdRow'.result = det'.result
      BY <1>0, <2>1, <2>4 DEF ReportInv
    <3>4. \A j \in 1..Len(reports') : reports'[j].verdict = det'.result
      BY <2>1, <2>3, <3>2
    <3>5. /\ Len(reports') <= 1 /\ notified' /\ det'.result # Undecided
          /\ \A g \in Feeders : feeder'[g] = "fed" => det'.result # Undecided
      BY <1>0, <2>0, <2>1, <2>3, <3>2
    <3> QED
      BY ONLY <2>3, <2>7, <3>3, <3>4, <3>5 DEF ReportInv
  <2>9. SessionTypes'
    BY <1>0, <2>0, <2>1, <2>4, <2>5 DEF SessionTypes
  <2> QED
    BY <2>6, <2>8, <2>9 DEF AmdIndInv
<1>8. CASE UNCHANGED amdVars
  <2>1. UNCHANGED <<det, heard, feeder, notified, reports, linked, botAction, amdRow,
                    ending, sessionOver, amdFaults, botEdits>>
    BY <1>8 DEF amdVars
  <2>2. DetectorInv'
    BY <1>1, <2>1
  <2> QED
    BY <1>0, <2>1, <2>2 DEF AmdIndInv, ReportInv, OnlyMachinesAreHungUp, SessionTypes
<1> QED
  BY <1>2, <1>3, <1>4, <1>5, <1>6, <1>7, <1>8 DEF AmdNext

(* What was heard justifies the detector's verdict - machine exactly after *)
(* a long stretch of speech or a window mostly voiced, unknown exactly for *)
(* a silent window - two read loops report it once, the call's row never   *)
(* tells another one, and only a machine's call is ended, for any          *)
(* thresholds, any number of feeders and any faults (FeedPCM,              *)
(* ObserveInbound, handleInternalAMDResult).                               *)
THEOREM VerdictsAreJustified == AmdSpec => []AmdInv
<1>1. AmdSpec => []AmdIndInv
  BY AmdIndInit, AmdIndStep, PTL DEF AmdSpec
<1> QED
  BY <1>1, AmdIndImplies, PTL

-----------------------------------------------------------------------------
(* Inbound routing: the bot the rules name, against requests that change    *)
(* the tables between the statements of handleInbound.                      *)

OnTheLoop == {"rules", "default", "bot", "lead", "newlead", "row", "session"}

InboundRecords ==
  [step: OnTheLoop \cup {"ringing", "bridged", "hungup", "gone"},
   did: Dids \cup {NoOne}, caller: Callers \cup {NoOne}, plus: BOOLEAN,
   at: Moments \cup {NoOne}, tenant: Tenants \cup {NoOne}, saw: SUBSET Rules, rule: Nat,
   bot: Bots \cup {NoOne},
   why: {NoOne, "unknown_did", "matched_rule", "default_did_bot", "no_route",
         "bot_not_found", "dnc", "row_failed", "session_failed"},
   newLead: BOOLEAN, looked: BOOLEAN, barred: SUBSET BOOLEAN,
   row: {"none", "answered", "completed", "unclosed"}]

Live(r) == {u \in r.saw : Applies(u, r.caller, r.at)}

\* FirstRuleDecides of one call.
FirstRule(r) ==
  /\ r.why = "matched_rule" =>
       \E u \in Live(r) : /\ u.n = r.rule /\ u.bot = r.bot
                          /\ \A v \in Live(r) \ {u} :
                               \/ u.priority < v.priority
                               \/ u.priority = v.priority /\ u.n < v.n
  /\ r.why \in {"default_did_bot", "no_route"} => Live(r) = {}

\* What a call's record says at each of its steps.
CallFacts(r) ==
  /\ r.step \in OnTheLoop =>
       r.tenant \in Tenants /\ r.caller \in Callers /\ r.at \in Moments
  /\ r.bot # NoOne => BotTenant[r.bot] = r.tenant
  /\ FirstRule(r)
  /\ r.step \in {"rules", "default"} => r.why = NoOne
  /\ r.step = "default" => Live(r) = {}
  /\ r.step \in {"rules", "default", "bot", "lead"} => ~r.looked
  /\ r.step \in {"rules", "default", "bot", "lead", "newlead"} => ~r.newLead
  /\ r.plus \in r.barred => /\ r.row = "none" /\ ~r.newLead
                            /\ r.step \notin {"lead", "newlead", "row", "session", "bridged"}

\* The forms that bar a call that was not screened yet are still on the list.
BarredListed(r) ==
  r.step \in {"rules", "default", "bot"} => r.barred \subseteq ListedForms(r.tenant, r.caller)

\* What a request has checked when it writes.
AssignRequests == [op: {"assign"}, did: Dids, tenant: Tenants \cup {NoOne},
                   to: Tenants \cup {NoOne}]
BotRequests == {r \in [op: {"bot"}, bot: Bots, did: Dids \cup {NoOne}, tenant: Tenants] :
                  r.tenant = BotTenant[r.bot]}
RuleRequests == {r \in [op: {"rule"}, did: Dids, tenant: Tenants, priority: Priorities,
                        shape: RuleShapes, bot: Bots] : r.tenant = BotTenant[r.bot]}
PatchRequests == [op: {"patch"}, rule: Rules, enabled: BOOLEAN, priority: Priorities]
MoveRequests == [op: {"move"}, did: Dids, tenant: Tenants \cup {NoOne},
                 to: Tenants \cup {NoOne}, detached: SUBSET Bots]
AllRequests ==
  AssignRequests \cup MoveRequests \cup BotRequests \cup RuleRequests \cup PatchRequests
    \cup {NoRequest}

RowTypes ==
  /\ didTenant \in [Dids -> Tenants \cup {NoOne, Deleted}]
  /\ didActive \in [Dids -> BOOLEAN]
  /\ botDid \in [Bots -> Dids \cup {NoOne}]
  /\ dnc \subseteq Phones /\ bots \subseteq Bots /\ raced \subseteq Bots

RouteBounds ==
  /\ routeEdits \in 0..MaxRouteEdits /\ ruleCount \in 0..MaxRules
  /\ routeFaults \in 0..MaxRouteFaults /\ arrivals \in 0..MaxArrivals

\* A rule targets a bot of its tenant, and no two have the same number.
RulesInv ==
  /\ rules \subseteq Rules
  /\ \A u \in rules : u.n <= ruleCount /\ BotTenant[u.bot] = u.tenant
  /\ \A u, v \in rules : u.n = v.n => u = v

InboundInv ==
  /\ inbound \in [InboundCalls -> InboundRecords]
  /\ \A c \in InboundCalls : CallFacts(inbound[c]) /\ BarredListed(inbound[c])
  /\ onLoop \in InboundCalls \cup {NoOne}
  /\ onLoop # NoOne => inbound[onLoop].step \in OnTheLoop

\* The leads that inbound calls made, and the call that is about to make one.
LeadsInv ==
  /\ leadRows \subseteq LeadRows
  /\ \A l \in leadRows : l.n <= arrivals
  /\ ReturningCallerKeepsLead
  /\ onLoop # NoOne => arrivals > 0
  /\ \A c \in InboundCalls : Here(c, "newlead") /\ inbound[c].looked =>
       \A l \in leadRows : ~LeadMatches(l, inbound[c])

\* While the owner that a move read is the owner, the bots that have the number
\* of their own right are those it has taken it from.
MoveFact(r) ==
  r.op = "move" /\ Detaches(r) /\ didTenant[r.did] = r.tenant =>
    \A b \in Bots \ raced : botDid[b] = r.did => b \in r.detached
MovesInv == \A p \in Requests : MoveFact(request[p])

\* RoutingInv made inductive.
RouteIndInv ==
  /\ RowTypes /\ RouteBounds /\ RulesInv /\ InboundInv /\ LeadsInv
  /\ request \in [Requests -> AllRequests]
  /\ BotDidOfItsTenant /\ MovesInv

LEMMA RouteIndImplies == RouteIndInv => RoutingInv
<1> SUFFICES ASSUME RouteIndInv PROVE RoutingInv
  OBVIOUS
<1>1. /\ RowTypes /\ RouteBounds /\ RulesInv /\ InboundInv /\ BotDidOfItsTenant /\ LeadsInv
      /\ \A c \in InboundCalls : CallFacts(inbound[c])
  BY DEF RouteIndInv, InboundInv
<1>2. RouteTypeOK
  <2>1. onLoop # NoOne => inbound[onLoop].step \notin {"ringing", "hungup", "bridged", "gone"}
    BY <1>1 DEF InboundInv, OnTheLoop
  <2> QED
    BY <1>1, <2>1 DEF RowTypes, RouteBounds, RulesInv, InboundInv, LeadsInv, RouteTypeOK
<1>3. RoutedWithinTenant
  BY <1>1 DEF RoutedWithinTenant, CallFacts
<1>4. FirstRuleDecides
  <2> SUFFICES ASSUME NEW c \in InboundCalls PROVE FirstRule(inbound[c])
    BY DEF FirstRuleDecides, FirstRule, Live
  <2> QED
    BY <1>1 DEF CallFacts
<1>5. ReturningCallerKeepsLead
  BY <1>1 DEF LeadsInv
<1>6. BarredNotAnswered
  BY <1>1 DEF BarredNotAnswered, CallFacts
<1> QED
  BY <1>1, <1>2, <1>3, <1>4, <1>5, <1>6 DEF RoutingInv

\* The window of a rule, as the code compares minutes and as a stretch of a day
\* that wraps at midnight.
LEMMA ForwardMinutes ==
  ASSUME NEW a \in 0..(DayLength - 1), NEW b \in 0..(DayLength - 1)
  PROVE  Forward(a, b) = IF a <= b THEN b - a ELSE b + DayLength - a
<1>0. DayLength \in Nat \ {0} /\ a \in Nat /\ b \in Nat /\ a < DayLength /\ b < DayLength
  BY RoutingAssumption
<1>1. CASE a <= b
  <2> DEFINE d == b - a
  <2>1. d \in 0..(DayLength - 1) /\ b + DayLength - a = d + DayLength
    BY <1>0, <1>1
  <2> HIDE DEF d
  <2>2. (d + DayLength) % DayLength = d
    BY <1>0, <2>1
  <2> QED
    BY <1>1, <2>1, <2>2 DEF Forward, d
<1>2. CASE ~(a <= b)
  <2> DEFINE d == b + DayLength - a
  <2>1. d \in 0..(DayLength - 1)
    BY <1>0, <1>2
  <2> HIDE DEF d
  <2>2. d % DayLength = d
    BY <1>0, <2>1
  <2> QED
    BY <1>2, <2>2 DEF Forward, d
<1> QED
  BY <1>1, <1>2

LEMMA WindowIsForward ==
  ASSUME NEW a \in 0..(DayLength - 1), NEW b \in 0..(DayLength - 1),
         NEW m \in 0..(DayLength - 1), NEW s, s.start = a, s.end = b
  PROVE  InWindow(s, m) <=> Forward(a, m) < Forward(a, b)
<1>0. DayLength \in Nat \ {0}
  BY RoutingAssumption
<1>1. /\ Forward(a, m) = IF a <= m THEN m - a ELSE m + DayLength - a
      /\ Forward(a, b) = IF a <= b THEN b - a ELSE b + DayLength - a
  BY ForwardMinutes
<1> QED
  BY <1>0, <1>1 DEF InWindow

LEMMA TakesApplies ==
  ASSUME NEW u \in Rules, NEW caller, NEW at \in Moments
  PROVE  Takes(u, caller, at) <=> Applies(u, caller, at)
<1>1. u.shape \in RuleShapes /\ u.enabled \in BOOLEAN
  BY DEF Rules
<1>2. at.minute \in 0..(DayLength - 1)
  BY RoutingAssumption
<1>3. u.shape.timed =>
        (InWindow(u.shape, at.minute)
           <=> Forward(u.shape.start, at.minute) < Forward(u.shape.start, u.shape.end))
  <2> SUFFICES ASSUME u.shape.timed
               PROVE  InWindow(u.shape, at.minute)
                        <=> Forward(u.shape.start, at.minute) < Forward(u.shape.start, u.shape.end)
    OBVIOUS
  <2>1. u.shape.start \in 0..(DayLength - 1) /\ u.shape.end \in 0..(DayLength - 1)
    BY <1>1, RoutingAssumption
  <2> QED
    BY <1>2, <2>1, WindowIsForward
<1> QED
  BY <1>1, <1>3 DEF Takes, RuleMatches, Applies

\* The loop over the ordered rows stops at the first live rule.
LEMMA ChosenIsFirst ==
  ASSUME NEW own \in SUBSET Rules, NEW at \in Moments, NEW caller,
         \A u, v \in own : u.n = v.n => u = v,
         NEW list \in ListDIDRoutingRules(own)
  PROVE  LET live == {u \in own : Applies(u, caller, at)}
         IN  /\ \A i \in Chosen(list, caller, at) :
                  /\ list[i] \in live
                  /\ \A v \in live \ {list[i]} : Before(list[i], v)
             /\ (\A i \in DOMAIN list : ~Takes(list[i], caller, at)) => live = {}
<1> DEFINE N == Cardinality(own)
           live == {u \in own : Applies(u, caller, at)}
<1>1. /\ list \in [1..N -> own] /\ Range(list) = own /\ DOMAIN list = 1..N
      /\ \A i, j \in 1..N : i < j => Before(list[i], list[j])
  BY DEF ListDIDRoutingRules
<1>2. \A v \in own : \E j \in 1..N : list[j] = v
  BY <1>1 DEF Range
<1>3. \A v \in own : Takes(v, caller, at) <=> v \in live
  BY TakesApplies
<1> HIDE DEF N
<1>4. ASSUME NEW i \in Chosen(list, caller, at)
      PROVE  list[i] \in live /\ \A v \in live \ {list[i]} : Before(list[i], v)
  <2>1. /\ i \in 1..N /\ Takes(list[i], caller, at) /\ list[i] \in own
        /\ \A j \in 1..(i - 1) : ~Takes(list[j], caller, at)
    BY <1>1, <1>4 DEF Chosen
  <2>2. ASSUME NEW v \in live \ {list[i]} PROVE Before(list[i], v)
    <3>1. PICK j \in 1..N : list[j] = v
      BY <1>2
    <3>2. Takes(list[j], caller, at) /\ j # i
      BY <1>3, <3>1
    <3>3. j \notin 1..(i - 1)
      BY <2>1, <3>2
    <3>4. i < j
      BY <2>1, <3>2, <3>3
    <3> QED
      BY <1>1, <2>1, <3>1, <3>4
  <2> QED
    BY <1>3, <2>1, <2>2
<1>5. (\A i \in DOMAIN list : ~Takes(list[i], caller, at)) => live = {}
  BY <1>1, <1>2, <1>3
<1> QED
  BY <1>4, <1>5

LEMMA RouteIndInit == RouteInit => RouteIndInv
<1> SUFFICES ASSUME RouteInit PROVE RouteIndInv
  OBVIOUS
<1> USE RoutingAssumption
<1>1. RowTypes
  BY DEF RouteInit, RowTypes, NoOne
<1>2. RouteBounds
  <2>1. routeEdits = 0 /\ ruleCount = 0 /\ routeFaults = 0 /\ arrivals = 0
    BY DEF RouteInit
  <2> QED
    BY <2>1 DEF RouteBounds
<1>3. RulesInv
  BY DEF RouteInit, RulesInv
<1>4. Fresh \in InboundRecords /\ CallFacts(Fresh) /\ Fresh.barred = {}
  BY DEF Fresh, InboundRecords, CallFacts, FirstRule, Live, OnTheLoop, NoOne
<1>5. InboundInv
  <2>1. /\ \A c \in InboundCalls : inbound[c] = Fresh
        /\ inbound \in [InboundCalls -> InboundRecords] /\ onLoop = NoOne
    BY <1>4 DEF RouteInit
  <2> QED
    BY <1>4, <2>1 DEF InboundInv, BarredListed
<1>6. request \in [Requests -> AllRequests]
  BY DEF RouteInit, AllRequests
<1>7. BotDidOfItsTenant
  BY DEF RouteInit, BotDidOfItsTenant, NoOne
<1>8. LeadsInv
  BY DEF RouteInit, LeadsInv, ReturningCallerKeepsLead, Here, NoOne
<1>9. MovesInv
  BY DEF RouteInit, MovesInv, MoveFact, NoRequest
<1> QED
  BY <1>1, <1>2, <1>3, <1>5, <1>6, <1>7, <1>8, <1>9 DEF RouteIndInv

\* A request by what it is.
LEMMA RequestsByOp ==
  ASSUME RouteIndInv, NEW q \in Requests
  PROVE  /\ request[q].op = "assign" => request[q] \in AssignRequests
         /\ request[q].op = "move" => request[q] \in MoveRequests
         /\ request[q].op = "bot" => request[q] \in BotRequests
         /\ request[q].op = "rule" => request[q] \in RuleRequests
         /\ request[q].op = "patch" => request[q] \in PatchRequests
<1>1. request[q] \in AllRequests
  BY DEF RouteIndInv
<1> QED
  BY <1>1 DEF AllRequests, AssignRequests, MoveRequests, BotRequests, RuleRequests,
              PatchRequests, NoRequest

\* What the calls say is not touched by a step that leaves them and the
\* do-not-call list alone.
LEMMA CallsUntouched ==
  ASSUME RouteIndInv, UNCHANGED <<inbound, onLoop, dnc>>
  PROVE  InboundInv'
<1>1. \A c \in InboundCalls : BarredListed(inbound[c])'
  BY DEF RouteIndInv, InboundInv, BarredListed, ListedForms
<1> QED
  BY <1>1 DEF RouteIndInv, InboundInv

\* Nor are the leads by a step that leaves them alone and, of the calls, the
\* numbers and what they looked up.
LEMMA LeadsUntouched ==
  ASSUME RouteIndInv, UNCHANGED <<leadRows, onLoop, arrivals>>,
         \A c \in InboundCalls :
           /\ inbound'[c].step = inbound[c].step /\ inbound'[c].tenant = inbound[c].tenant
           /\ inbound'[c].caller = inbound[c].caller /\ inbound'[c].plus = inbound[c].plus
           /\ inbound'[c].looked = inbound[c].looked
  PROVE  LeadsInv'
BY DEF RouteIndInv, LeadsInv, ReturningCallerKeepsLead, Here, LeadMatches

\* A step that at most takes numbers away, and starts no move.
LEMMA MovesKept ==
  ASSUME RouteIndInv, UNCHANGED raced,
         \A p \in Requests : request'[p] = request[p] \/ request'[p].op # "move",
         \A b \in Bots : botDid'[b] = botDid[b] \/ botDid'[b] = NoOne,
         \A d \in Dids : didTenant'[d] = didTenant[d] \/ \A b \in Bots : botDid'[b] # d
  PROVE  MovesInv'
<1> SUFFICES ASSUME NEW p \in Requests, request'[p] = request[p], request[p].op = "move"
             PROVE  MoveFact(request[p])'
  BY DEF MovesInv, MoveFact
<1> DEFINE r == request[p]
<1>1. r \in MoveRequests
  BY RequestsByOp
<1>2. r.did \in Dids /\ NoOne \notin Dids
  BY <1>1, RoutingAssumption DEF MoveRequests, NoOne
<1>3. MoveFact(r)
  BY DEF RouteIndInv, MovesInv
<1> HIDE DEF r
<1>4. /\ Detaches(r) /\ didTenant'[r.did] = r.tenant =>
          \A b \in Bots \ raced' : botDid'[b] = r.did => b \in r.detached
      /\ r' = r
  <2>1. r.op = "move" /\ r' = r
    BY DEF r
  <2> QED
    BY <1>2, <1>3, <2>1 DEF MoveFact
<1> QED
  BY <1>4 DEF MoveFact, Detaches, r

\* A request that is read, and one that has only one statement.
LEMMA AskingKeeps ==
  ASSUME RouteIndInv, NEW q \in Requests, NEW r \in AllRequests, r.op # "move", Asks(q, r)
  PROVE  RouteIndInv'
<1>1. /\ UNCHANGED <<didTenant, didActive, botDid, rules, bots, dnc, leadRows, inbound, onLoop,
                     ruleCount, routeFaults, arrivals, raced>>
      /\ routeEdits < MaxRouteEdits /\ routeEdits' = routeEdits + 1
      /\ request' = [request EXCEPT ![q] = r]
  BY DEF Asks, tables
<1>2. InboundInv'
  BY <1>1, CallsUntouched
<1>3. request' \in [Requests -> AllRequests]
  BY <1>1 DEF RouteIndInv
<1>4. RouteBounds'
  BY <1>1, RoutingAssumption DEF RouteIndInv, RouteBounds
<1>5. RowTypes' /\ RulesInv' /\ BotDidOfItsTenant'
  BY <1>1 DEF RouteIndInv, RowTypes, RulesInv, BotDidOfItsTenant
<1>6. LeadsInv'
  BY <1>1, LeadsUntouched
<1>7. MovesInv'
  <2>1. \A p \in Requests : request'[p] = request[p] \/ request'[p].op # "move"
    BY <1>1 DEF RouteIndInv
  <2> QED
    BY <1>1, <2>1, MovesKept
<1> QED
  BY <1>2, <1>3, <1>4, <1>5, <1>6, <1>7 DEF RouteIndInv

LEMMA ReadsStep ==
  ASSUME RouteIndInv,
         \/ \E q \in Requests, d \in Dids, t \in Tenants \cup {NoOne} : AssignDIDReads(q, d, t)
         \/ \E q \in Requests, b \in Bots, d \in Dids \cup {NoOne} : AssignBotReads(q, b, d)
         \/ \E q \in Requests, d \in Dids, p \in Priorities, s \in RuleShapes, b \in Bots :
              CreateRuleChecks(q, d, p, s, b)
         \/ \E q \in Requests, u \in rules, e \in BOOLEAN, p \in Priorities :
              UpdateRuleReads(q, u, e, p)
  PROVE  RouteIndInv'
<1>0. RowTypes /\ RulesInv /\ BotTenant \in [Bots -> Tenants]
  BY RoutingAssumption DEF RouteIndInv
<1>1. ASSUME NEW q \in Requests, NEW d \in Dids, NEW t \in Tenants \cup {NoOne},
             AssignDIDReads(q, d, t)
      PROVE  RouteIndInv'
  <2> DEFINE r == [op |-> "assign", did |-> d, tenant |-> didTenant[d], to |-> t]
  <2>1. didTenant[d] \in Tenants \cup {NoOne}
    BY <1>0, <1>1 DEF AssignDIDReads, RowTypes
  <2>2. r \in AllRequests /\ r.op # "move"
    BY <2>1 DEF AllRequests, AssignRequests
  <2>3. Asks(q, r)
    BY <1>1 DEF AssignDIDReads
  <2> HIDE DEF r
  <2> QED
    BY <2>2, <2>3, AskingKeeps
<1>2. ASSUME NEW q \in Requests, NEW b \in Bots, NEW d \in Dids \cup {NoOne},
             AssignBotReads(q, b, d)
      PROVE  RouteIndInv'
  <2> DEFINE r == [op |-> "bot", bot |-> b, did |-> d, tenant |-> BotTenant[b]]
  <2>1. BotTenant[b] \in Tenants
    BY <1>0
  <2>2. r \in AllRequests /\ r.op # "move"
    BY <2>1 DEF AllRequests, BotRequests
  <2>3. Asks(q, r)
    BY <1>2 DEF AssignBotReads
  <2> HIDE DEF r
  <2> QED
    BY <2>2, <2>3, AskingKeeps
<1>3. ASSUME NEW q \in Requests, NEW d \in Dids, NEW p \in Priorities, NEW s \in RuleShapes,
             NEW b \in Bots, CreateRuleChecks(q, d, p, s, b)
      PROVE  RouteIndInv'
  <2> DEFINE r == [op |-> "rule", did |-> d, tenant |-> didTenant[d],
                   priority |-> p, shape |-> s, bot |-> b]
  <2>1. didTenant[d] = BotTenant[b] /\ BotTenant[b] \in Tenants /\ Asks(q, r)
    BY <1>0, <1>3 DEF CreateRuleChecks
  <2>2. r \in AllRequests /\ r.op # "move"
    BY <2>1 DEF AllRequests, RuleRequests
  <2> HIDE DEF r
  <2> QED
    BY <2>1, <2>2, AskingKeeps
<1>4. ASSUME NEW q \in Requests, NEW u \in rules, NEW e \in BOOLEAN, NEW p \in Priorities,
             UpdateRuleReads(q, u, e, p)
      PROVE  RouteIndInv'
  <2> DEFINE r == [op |-> "patch", rule |-> u, enabled |-> e, priority |-> p]
  <2>1. u \in Rules /\ Asks(q, r)
    BY <1>0, <1>4 DEF UpdateRuleReads, RulesInv
  <2>2. r \in AllRequests /\ r.op # "move"
    BY <2>1 DEF AllRequests, PatchRequests
  <2> HIDE DEF r
  <2> QED
    BY <2>1, <2>2, AskingKeeps
<1> QED
  BY <1>1, <1>2, <1>3, <1>4

\* What the second statement of a request leaves alone.
LEMMA DoneKeeps ==
  ASSUME RouteIndInv, NEW q \in Requests, Done(q), UNCHANGED dnc, ruleCount' \in 0..MaxRules
  PROVE  /\ InboundInv' /\ RouteBounds' /\ LeadsInv' /\ request' \in [Requests -> AllRequests]
         /\ \A p \in Requests : request'[p] = request[p] \/ request'[p].op # "move"
         /\ UNCHANGED <<didTenant, botDid, raced>> => MovesInv'
<1>1. /\ UNCHANGED <<leadRows, inbound, onLoop, routeEdits, routeFaults, arrivals>>
      /\ request' = [request EXCEPT ![q] = NoRequest]
  BY DEF Done
<1>2. InboundInv'
  BY <1>1, CallsUntouched
<1>3. RouteBounds'
  BY <1>1 DEF RouteIndInv, RouteBounds
<1>4. request' \in [Requests -> AllRequests]
  <2>1. NoRequest \in AllRequests
    BY DEF AllRequests
  <2> QED
    BY <1>1, <2>1 DEF RouteIndInv
<1>5. LeadsInv'
  BY <1>1, LeadsUntouched
<1>6. \A p \in Requests : request'[p] = request[p] \/ request'[p].op # "move"
  BY <1>1 DEF RouteIndInv, NoRequest
<1>7. UNCHANGED <<didTenant, botDid, raced>> => MovesInv'
  BY <1>6, MovesKept
<1> QED
  BY <1>2, <1>3, <1>4, <1>5, <1>6, <1>7

LEMMA AssignDIDDetachesStep ==
  ASSUME RouteIndInv, NEW q \in Requests, AssignDIDDetaches(q)
  PROVE  RouteIndInv'
<1> DEFINE r == request[q]
           m == [op |-> "move", did |-> r.did, tenant |-> r.tenant, to |-> r.to,
                 detached |-> IF Detaches(r) THEN HoldersOf(r.did) ELSE {}]
<1>1. /\ RowTypes /\ RouteBounds /\ RulesInv /\ BotDidOfItsTenant
      /\ request \in [Requests -> AllRequests] /\ MovesInv
      /\ UNCHANGED <<didTenant, didActive, botDid, rules, bots, dnc, leadRows, inbound, onLoop,
                     routeEdits, ruleCount, routeFaults, arrivals, raced>>
      /\ request' = [request EXCEPT ![q] = m]
  BY DEF RouteIndInv, AssignDIDDetaches, tables
<1>2. r \in AssignRequests
  BY RequestsByOp DEF AssignDIDDetaches
<1> HIDE DEF r
<1>3. /\ m \in MoveRequests /\ m.did = r.did /\ m.tenant = r.tenant /\ m.to = r.to
      /\ m.detached = IF Detaches(r) THEN HoldersOf(r.did) ELSE {}
  BY <1>2 DEF AssignRequests, MoveRequests, HoldersOf
<1> HIDE DEF m
<1>4. InboundInv' /\ LeadsInv'
  BY <1>1, CallsUntouched, LeadsUntouched
<1>5. RowTypes' /\ RouteBounds' /\ RulesInv' /\ BotDidOfItsTenant'
  BY <1>1 DEF RowTypes, RouteBounds, RulesInv, BotDidOfItsTenant
<1>6. request' \in [Requests -> AllRequests]
  BY <1>1, <1>3 DEF AllRequests
<1>7. MovesInv'
  <2>1. MoveFact(m)
    BY <1>3 DEF MoveFact, Detaches, HoldersOf
  <2>2. \A p \in Requests : MoveFact(request'[p])
    BY <1>1, <2>1 DEF MovesInv
  <2> QED
    BY <1>1, <2>2 DEF MovesInv, MoveFact, Detaches
<1> QED
  BY <1>4, <1>5, <1>6, <1>7 DEF RouteIndInv

LEMMA AssignRollsBackStep ==
  ASSUME RouteIndInv, NEW q \in Requests, AssignRollsBack(q)
  PROVE  RouteIndInv'
<1>1. /\ UNCHANGED <<didTenant, didActive, botDid, rules, bots, dnc, ruleCount, raced>> /\ Done(q)
      /\ ruleCount \in 0..MaxRules
  BY DEF AssignRollsBack, tables, RouteIndInv, RouteBounds
<1>2. /\ InboundInv' /\ RouteBounds' /\ LeadsInv' /\ MovesInv'
      /\ request' \in [Requests -> AllRequests]
  BY <1>1, DoneKeeps
<1>3. RowTypes' /\ RulesInv' /\ BotDidOfItsTenant'
  BY <1>1 DEF RouteIndInv, RowTypes, RulesInv, BotDidOfItsTenant
<1> QED
  BY <1>2, <1>3 DEF RouteIndInv

LEMMA AssignDIDStep ==
  ASSUME RouteIndInv, NEW q \in Requests, AssignDIDToTenant(q)
  PROVE  RouteIndInv'
<1> DEFINE r == request[q]
<1>0. /\ RowTypes /\ RulesInv /\ BotDidOfItsTenant /\ MovesInv
      /\ BotTenant \in [Bots -> Tenants] /\ NoOne \notin Tenants /\ NoOne \notin Dids
      /\ UNCHANGED <<didActive, rules, bots, dnc, ruleCount>> /\ Done(q)
  BY RoutingAssumption DEF RouteIndInv, AssignDIDToTenant, NoOne
<1>1. r.did \in Dids /\ r.tenant \in Tenants \cup {NoOne} /\ r.to \in Tenants \cup {NoOne}
  <2>1. r \in MoveRequests
    BY RequestsByOp DEF AssignDIDToTenant
  <2> QED
    BY <2>1 DEF MoveRequests
<1>6. /\ botDid' = [b \in Bots |-> IF b \in r.detached THEN NoOne ELSE botDid[b]]
      /\ r.op = "move" /\ MoveFact(r)
  BY <1>0 DEF AssignDIDToTenant, MovesInv
<1>7. IF didTenant[r.did] = Deleted THEN UNCHANGED <<didTenant, raced>>
      ELSE /\ didTenant' = [didTenant EXCEPT ![r.did] = r.to]
           /\ raced' = IF didTenant[r.did] = r.tenant THEN raced
                       ELSE raced \cup HoldersOf(r.did)
  BY DEF AssignDIDToTenant
<1>2. /\ InboundInv' /\ RouteBounds' /\ LeadsInv' /\ request' \in [Requests -> AllRequests]
      /\ \A p \in Requests : request'[p] = request[p] \/ request'[p].op # "move"
  BY <1>0, DoneKeeps DEF RouteIndInv, RouteBounds
<1> HIDE DEF r
<1>3. RulesInv'
  BY <1>0 DEF RulesInv
<1>8. \A b \in Bots : botDid'[b] = botDid[b] \/ botDid'[b] = NoOne
  BY <1>6
<1>4. CASE didTenant[r.did] = Deleted
  <2>1. UNCHANGED <<didTenant, raced>>
    BY <1>4, <1>7
  <2>2. RowTypes'
    BY <1>0, <1>6, <2>1 DEF RowTypes
  <2>3. BotDidOfItsTenant'
    BY <1>0, <1>8, <2>1 DEF BotDidOfItsTenant
  <2>4. MovesInv'
    BY <1>2, <1>8, <2>1, MovesKept
  <2> QED
    BY <1>2, <1>3, <2>2, <2>3, <2>4 DEF RouteIndInv
<1>5. CASE didTenant[r.did] # Deleted
  <2>1. /\ didTenant' = [didTenant EXCEPT ![r.did] = r.to]
        /\ raced' = IF didTenant[r.did] = r.tenant THEN raced ELSE raced \cup HoldersOf(r.did)
    BY <1>5, <1>7
  <2>2. RowTypes'
    BY <1>0, <1>1, <1>6, <2>1 DEF RowTypes, HoldersOf
  <2>3. \A d \in Dids \ {r.did} : didTenant'[d] = didTenant[d]
    BY <1>0, <2>1 DEF RowTypes
  <2>4. didTenant'[r.did] = r.to /\ raced \subseteq raced'
    BY <1>0, <1>1, <2>1 DEF RowTypes
  <2>5. ASSUME NEW b \in Bots \ raced', botDid'[b] = r.did, r.tenant # r.to
        PROVE  FALSE
    <3>1. b \notin r.detached /\ botDid[b] = r.did /\ b \notin raced
      BY <1>0, <1>1, <1>6, <2>4, <2>5
    <3>2. didTenant[r.did] = r.tenant
      BY <2>1, <2>5, <3>1 DEF HoldersOf
    <3>3. CASE r.tenant = NoOne
      BY <1>0, <1>1, <3>1, <3>2, <3>3 DEF BotDidOfItsTenant
    <3>4. CASE r.tenant # NoOne
      BY <1>6, <2>5, <3>1, <3>2, <3>4 DEF MoveFact, Detaches
    <3> QED
      BY <3>3, <3>4
  <2>6. BotDidOfItsTenant'
    <3> SUFFICES ASSUME NEW b \in Bots \ raced', botDid'[b] # NoOne
                 PROVE  didTenant'[botDid'[b]] = BotTenant[b]
      BY DEF BotDidOfItsTenant
    <3>1. b \notin raced /\ botDid'[b] = botDid[b] /\ botDid[b] \in Dids
      BY <1>0, <1>8, <2>4 DEF RowTypes
    <3>2. didTenant[botDid[b]] = BotTenant[b]
      BY <1>0, <3>1 DEF BotDidOfItsTenant
    <3>3. CASE botDid[b] # r.did
      BY <2>3, <3>1, <3>2, <3>3
    <3>4. CASE botDid[b] = r.did
      <4>1. r.tenant = r.to
        BY <2>5, <3>1, <3>4
      <4>2. didTenant[r.did] = r.tenant
        BY <2>1, <3>4 DEF HoldersOf
      <4> QED
        BY <2>4, <3>1, <3>2, <3>4, <4>1, <4>2
    <3> QED
      BY <3>3, <3>4
  <2>7. MovesInv'
    <3> SUFFICES ASSUME NEW p \in Requests, request'[p] = request[p], request[p].op = "move"
                 PROVE  MoveFact(request[p])'
      BY <1>2 DEF MovesInv, MoveFact
    <3> DEFINE m == request[p]
    <3>1. m \in MoveRequests /\ MoveFact(m) /\ m.op = "move"
      BY <1>0, RequestsByOp DEF MovesInv
    <3>2. m.did \in Dids
      BY <3>1 DEF MoveRequests
    <3>3. m' = m
      OBVIOUS
    <3> HIDE DEF m
    <3>4. ASSUME Detaches(m), didTenant'[m.did] = m.tenant,
                 NEW b \in Bots \ raced', botDid'[b] = m.did
          PROVE  b \in m.detached
      <4>1. b \in Bots \ raced /\ botDid[b] = m.did
        BY <1>0, <1>8, <2>4, <3>2, <3>4
      <4>2. didTenant'[m.did] = didTenant[m.did]
        <5>1. CASE m.did # r.did
          BY <2>3, <3>2, <5>1
        <5>2. CASE m.did = r.did
          <6>1. r.tenant = r.to
            BY <2>5, <3>4, <5>2
          <6>2. didTenant[r.did] = r.tenant
            BY <2>1, <3>4, <4>1, <5>2 DEF HoldersOf
          <6> QED
            BY <2>4, <5>2, <6>1, <6>2
        <5> QED
          BY <5>1, <5>2
      <4> QED
        BY <3>1, <3>4, <4>1, <4>2 DEF MoveFact
    <3> QED
      BY <3>3, <3>4 DEF MoveFact, Detaches, m
  <2> QED
    BY <1>2, <1>3, <2>2, <2>6, <2>7 DEF RouteIndInv
<1> QED
  BY <1>4, <1>5

LEMMA AssignBotStep ==
  ASSUME RouteIndInv, NEW q \in Requests, AssignBotDID(q)
  PROVE  RouteIndInv'
<1> DEFINE r == request[q]
<1>0. /\ RowTypes /\ RulesInv /\ BotDidOfItsTenant /\ MovesInv
      /\ UNCHANGED <<didTenant, didActive, rules, bots, dnc, ruleCount>> /\ Done(q)
      /\ ruleCount \in 0..MaxRules
  BY DEF RouteIndInv, RouteBounds, AssignBotDID
<1>1. r.bot \in Bots /\ r.did \in Dids \cup {NoOne} /\ r.tenant = BotTenant[r.bot]
  <2>1. r \in BotRequests
    BY RequestsByOp DEF AssignBotDID
  <2> QED
    BY <2>1 DEF BotRequests
<1>6. \/ UNCHANGED <<botDid, raced>>
      \/ /\ botDid' = [botDid EXCEPT ![r.bot] = r.did]
         /\ raced' = IF r.did # NoOne /\ Overtaken(r) THEN raced \cup {r.bot}
                     ELSE raced \ {r.bot}
  BY DEF AssignBotDID
<1> HIDE DEF r
<1>2. /\ InboundInv' /\ RouteBounds' /\ LeadsInv' /\ request' \in [Requests -> AllRequests]
      /\ \A p \in Requests : request'[p] = request[p] \/ request'[p].op # "move"
      /\ UNCHANGED <<didTenant, botDid, raced>> => MovesInv'
  BY <1>0, DoneKeeps
<1>3. RulesInv'
  BY <1>0 DEF RulesInv
<1>4. CASE UNCHANGED <<botDid, raced>>
  BY <1>0, <1>2, <1>3, <1>4 DEF RouteIndInv, RowTypes, BotDidOfItsTenant
<1>5. CASE ~UNCHANGED <<botDid, raced>>
  <2>1. /\ botDid' = [botDid EXCEPT ![r.bot] = r.did]
        /\ raced' = IF r.did # NoOne /\ Overtaken(r) THEN raced \cup {r.bot}
                    ELSE raced \ {r.bot}
    BY <1>5, <1>6
  <2>2. RowTypes'
    BY <1>0, <1>1, <2>1 DEF RowTypes
  <2>3. /\ botDid'[r.bot] = r.did
        /\ \A b \in Bots \ {r.bot} : botDid'[b] = botDid[b] /\ (b \in raced <=> b \in raced')
    BY <1>0, <1>1, <2>1 DEF RowTypes
  <2>4. r.bot \notin raced' /\ r.did # NoOne => ~Overtaken(r)
    BY <2>1
  <2>5. BotDidOfItsTenant'
    <3> SUFFICES ASSUME NEW b \in Bots \ raced', botDid'[b] # NoOne
                 PROVE  didTenant'[botDid'[b]] = BotTenant[b]
      BY DEF BotDidOfItsTenant
    <3>1. CASE b = r.bot
      BY <1>0, <1>1, <2>3, <2>4, <3>1 DEF Overtaken
    <3>2. CASE b # r.bot
      BY <1>0, <2>3, <3>2 DEF BotDidOfItsTenant
    <3> QED
      BY <3>1, <3>2
  <2>6. MovesInv'
    <3> SUFFICES ASSUME NEW p \in Requests, request'[p] = request[p], request[p].op = "move"
                 PROVE  MoveFact(request[p])'
      BY <1>2 DEF MovesInv, MoveFact
    <3> DEFINE m == request[p]
    <3>1. m \in MoveRequests /\ MoveFact(m) /\ m.op = "move"
      BY <1>0, RequestsByOp DEF MovesInv
    <3>2. m.did \in Dids /\ NoOne \notin Dids
      BY <3>1, RoutingAssumption DEF MoveRequests, NoOne
    <3>3. m' = m
      OBVIOUS
    <3>6. r.did # NoOne /\ ~Overtaken(r) =>
            didTenant[r.did] = r.tenant /\ (m.did = r.did => m.to = r.tenant)
      BY <3>1 DEF Overtaken
    <3> HIDE DEF m
    <3>4. ASSUME Detaches(m), didTenant'[m.did] = m.tenant,
                 NEW b \in Bots \ raced', botDid'[b] = m.did
          PROVE  b \in m.detached
      <4>1. CASE b # r.bot
        BY <1>0, <2>3, <3>1, <3>4, <4>1 DEF MoveFact
      <4>2. CASE b = r.bot
        BY <1>0, <2>3, <2>4, <3>2, <3>4, <3>6, <4>2 DEF Detaches
      <4> QED
        BY <4>1, <4>2
    <3> QED
      BY <3>3, <3>4 DEF MoveFact, Detaches, m
  <2> QED
    BY <1>2, <1>3, <2>2, <2>5, <2>6 DEF RouteIndInv
<1> QED
  BY <1>4, <1>5

LEMMA CreateRuleStep ==
  ASSUME RouteIndInv, NEW q \in Requests, CreateDIDRoutingRule(q)
  PROVE  RouteIndInv'
<1> DEFINE r == request[q]
<1>0. /\ RowTypes /\ RulesInv /\ BotDidOfItsTenant /\ ruleCount \in 0..MaxRules /\ MaxRules \in Nat
      /\ UNCHANGED <<didTenant, didActive, botDid, bots, dnc, raced>> /\ Done(q)
      /\ UNCHANGED leadRows
  BY RoutingAssumption DEF RouteIndInv, RouteBounds, CreateDIDRoutingRule, Done
<1>1. /\ r.did \in Dids /\ r.tenant \in Tenants /\ r.priority \in Priorities
      /\ r.shape \in RuleShapes /\ r.bot \in Bots /\ r.tenant = BotTenant[r.bot]
  <2>1. r \in RuleRequests
    BY RequestsByOp DEF CreateDIDRoutingRule
  <2> QED
    BY <2>1 DEF RuleRequests
<1> HIDE DEF r
<1>2. ruleCount' \in 0..MaxRules /\ RulesInv'
  <2>1. CASE UNCHANGED <<rules, ruleCount>>
    BY <1>0, <2>1 DEF RulesInv
  <2>2. CASE ~UNCHANGED <<rules, ruleCount>>
    <3> DEFINE u == [n |-> ruleCount + 1, did |-> r.did, tenant |-> r.tenant,
                     priority |-> r.priority, enabled |-> TRUE, shape |-> r.shape, bot |-> r.bot]
    <3>1. ruleCount < MaxRules /\ ruleCount' = ruleCount + 1 /\ rules' = rules \cup {u}
      BY <2>2 DEF CreateDIDRoutingRule, r
    <3>2. u \in Rules /\ u.n = ruleCount + 1 /\ BotTenant[u.bot] = u.tenant
      BY <1>0, <1>1, <3>1 DEF Rules
    <3> HIDE DEF u
    <3>3. \A v \in rules : v.n \in Nat /\ v.n <= ruleCount
      BY <1>0 DEF RulesInv, Rules
    <3> QED
      BY <1>0, <3>1, <3>2, <3>3 DEF RulesInv
  <2> QED
    BY <2>1, <2>2
<1>3. /\ InboundInv' /\ RouteBounds' /\ LeadsInv' /\ MovesInv'
      /\ request' \in [Requests -> AllRequests]
  BY <1>0, <1>2, DoneKeeps
<1>4. RowTypes' /\ BotDidOfItsTenant'
  BY <1>0 DEF RowTypes, BotDidOfItsTenant
<1> QED
  BY <1>2, <1>3, <1>4 DEF RouteIndInv

LEMMA UpdateRuleStep ==
  ASSUME RouteIndInv, NEW q \in Requests, UpdateDIDRoutingRule(q)
  PROVE  RouteIndInv'
<1> DEFINE r == request[q]
           Patched(u) == IF u.n = r.rule.n
                         THEN [u EXCEPT !.enabled = r.enabled, !.priority = r.priority] ELSE u
<1>0. /\ RowTypes /\ RulesInv /\ BotDidOfItsTenant /\ ruleCount \in 0..MaxRules
      /\ UNCHANGED <<didTenant, didActive, botDid, bots, dnc, ruleCount, raced>> /\ Done(q)
      /\ UNCHANGED leadRows
  BY DEF RouteIndInv, RouteBounds, UpdateDIDRoutingRule, Done
<1>1. r.enabled \in BOOLEAN /\ r.priority \in Priorities
  <2>1. r \in PatchRequests
    BY RequestsByOp DEF UpdateDIDRoutingRule
  <2> QED
    BY <2>1 DEF PatchRequests
<1>2. rules' = {Patched(u) : u \in rules}
  BY DEF UpdateDIDRoutingRule
<1> HIDE DEF r
<1>3. \A u \in Rules : /\ Patched(u) \in Rules /\ Patched(u).n = u.n
                       /\ Patched(u).tenant = u.tenant /\ Patched(u).bot = u.bot
  BY <1>1 DEF Rules
<1> HIDE DEF Patched
<1>4. RulesInv'
  BY <1>0, <1>2, <1>3 DEF RulesInv
<1>5. /\ InboundInv' /\ RouteBounds' /\ LeadsInv' /\ MovesInv'
      /\ request' \in [Requests -> AllRequests]
  BY <1>0, DoneKeeps
<1>6. RowTypes' /\ BotDidOfItsTenant'
  BY <1>0 DEF RowTypes, BotDidOfItsTenant
<1> QED
  BY <1>4, <1>5, <1>6 DEF RouteIndInv

\* Requests of a single statement.
LEMMA OnceStep ==
  ASSUME RouteIndInv,
         \/ \E u \in rules : DeleteDIDRoutingRule(u)
         \/ \E d \in Dids : UpdateDID(d)
         \/ \E d \in Dids : DeleteDID(d)
         \/ \E b \in Bots : DeleteBot(b)
         \/ \E e \in Phones : AddDoNotCall(e)
         \/ \E e \in Phones : RemoveDoNotCall(e)
  PROVE  RouteIndInv'
<1>0. /\ RowTypes /\ RulesInv /\ BotDidOfItsTenant /\ RouteBounds /\ InboundInv
      /\ request \in [Requests -> AllRequests] /\ BotTenant \in [Bots -> Tenants]
  BY RoutingAssumption DEF RouteIndInv
<1>1. /\ AsksOnce
      /\ UNCHANGED <<leadRows, request, onLoop, ruleCount, routeFaults, arrivals, raced>>
      /\ routeEdits < MaxRouteEdits /\ routeEdits' = routeEdits + 1
  BY DEF DeleteDIDRoutingRule, UpdateDID, DeleteDID, DeleteBot, AddDoNotCall, RemoveDoNotCall,
         AsksOnce
<1>2. RouteBounds' /\ request' \in [Requests -> AllRequests]
  BY <1>0, <1>1, RoutingAssumption DEF RouteBounds
<1>9. /\ UNCHANGED inbound => LeadsInv'
      /\ UNCHANGED <<didTenant, botDid>> => MovesInv'
  BY <1>1, LeadsUntouched, MovesKept
<1>3. ASSUME NEW u \in rules, DeleteDIDRoutingRule(u) PROVE RouteIndInv'
  <2>1. UNCHANGED <<didTenant, didActive, botDid, bots, dnc, inbound>> /\ rules' = rules \ {u}
    BY <1>3 DEF DeleteDIDRoutingRule
  <2>2. InboundInv'
    BY <1>1, <2>1, CallsUntouched
  <2> QED
    BY <1>0, <1>1, <1>2, <1>9, <2>1, <2>2
       DEF RouteIndInv, RowTypes, RulesInv, BotDidOfItsTenant
<1>4. ASSUME NEW d \in Dids, UpdateDID(d) PROVE RouteIndInv'
  <2>1. /\ UNCHANGED <<didTenant, botDid, rules, bots, dnc, inbound>>
        /\ didActive' = [didActive EXCEPT ![d] = ~@]
    BY <1>4 DEF UpdateDID
  <2>2. InboundInv'
    BY <1>1, <2>1, CallsUntouched
  <2>3. didActive' \in [Dids -> BOOLEAN]
    BY <1>0, <2>1 DEF RowTypes
  <2> QED
    BY <1>0, <1>1, <1>2, <1>9, <2>1, <2>2, <2>3
       DEF RouteIndInv, RowTypes, RulesInv, BotDidOfItsTenant
<1>5. ASSUME NEW d \in Dids, DeleteDID(d) PROVE RouteIndInv'
  <2>1. /\ UNCHANGED <<didActive, bots, dnc, inbound>>
        /\ didTenant' = [didTenant EXCEPT ![d] = Deleted]
        /\ rules' = {u \in rules : u.did # d}
        /\ botDid' = [b \in Bots |-> IF botDid[b] = d THEN NoOne ELSE botDid[b]]
    BY <1>5 DEF DeleteDID
  <2>2. InboundInv'
    BY <1>1, <2>1, CallsUntouched
  <2>3. RowTypes' /\ RulesInv'
    BY <1>0, <1>1, <2>1 DEF RowTypes, RulesInv
  <2>4. BotDidOfItsTenant'
    BY <1>0, <1>1, <2>1 DEF RowTypes, BotDidOfItsTenant
  <2>5. MovesInv'
    <3>1. d # NoOne /\ \A b \in Bots : botDid'[b] # d
      BY <2>1, RoutingAssumption DEF NoOne
    <3>2. \A e \in Dids : didTenant'[e] = didTenant[e] \/ \A b \in Bots : botDid'[b] # e
      BY <1>0, <2>1, <3>1 DEF RowTypes
    <3>3. \A b \in Bots : botDid'[b] = botDid[b] \/ botDid'[b] = NoOne
      BY <2>1
    <3> QED
      BY <1>1, <3>2, <3>3, MovesKept
  <2> QED
    BY <1>2, <1>9, <2>1, <2>2, <2>3, <2>4, <2>5 DEF RouteIndInv
<1>6. ASSUME NEW b \in Bots, DeleteBot(b) PROVE RouteIndInv'
  <2>1. /\ UNCHANGED <<didTenant, didActive, rules, dnc, inbound>>
        /\ bots' = bots \ {b} /\ botDid' = [botDid EXCEPT ![b] = NoOne]
    BY <1>6 DEF DeleteBot
  <2>2. InboundInv'
    BY <1>1, <2>1, CallsUntouched
  <2>3. RowTypes' /\ RulesInv' /\ BotDidOfItsTenant'
    BY <1>0, <1>1, <2>1 DEF RowTypes, RulesInv, BotDidOfItsTenant
  <2>4. MovesInv'
    <3>1. \A k \in Bots : botDid'[k] = botDid[k] \/ botDid'[k] = NoOne
      BY <1>0, <2>1 DEF RowTypes
    <3> QED
      BY <1>1, <2>1, <3>1, MovesKept
  <2> QED
    BY <1>2, <1>9, <2>1, <2>2, <2>3, <2>4 DEF RouteIndInv
<1>7. ASSUME NEW e \in Phones, AddDoNotCall(e) PROVE RouteIndInv'
  <2>1. UNCHANGED <<didTenant, didActive, botDid, rules, bots, inbound>> /\ dnc' = dnc \cup {e}
    BY <1>7 DEF AddDoNotCall
  <2>2. InboundInv'
    BY <1>0, <1>1, <2>1 DEF InboundInv, BarredListed, ListedForms
  <2>3. RowTypes' /\ RulesInv' /\ BotDidOfItsTenant'
    BY <1>0, <1>1, <2>1 DEF RowTypes, RulesInv, BotDidOfItsTenant
  <2> QED
    BY <1>2, <1>9, <2>1, <2>2, <2>3 DEF RouteIndInv
<1>8. ASSUME NEW e \in Phones, RemoveDoNotCall(e) PROVE RouteIndInv'
  <2>1. /\ UNCHANGED <<didTenant, didActive, botDid, rules, bots>> /\ dnc' = dnc \ {e}
        /\ inbound' = [c \in InboundCalls |->
                         IF inbound[c].tenant = e.tenant /\ inbound[c].caller = e.caller
                         THEN [inbound[c] EXCEPT !.barred = @ \ {e.plus}] ELSE inbound[c]]
    BY <1>8 DEF RemoveDoNotCall
  <2>2. RowTypes' /\ RulesInv' /\ BotDidOfItsTenant'
    BY <1>0, <1>1, <2>1 DEF RowTypes, RulesInv, BotDidOfItsTenant
  <2>3. ASSUME NEW c \in InboundCalls
        PROVE  /\ inbound'[c] \in InboundRecords /\ inbound'[c].step = inbound[c].step
               /\ inbound'[c].tenant = inbound[c].tenant /\ inbound'[c].caller = inbound[c].caller
               /\ inbound'[c].plus = inbound[c].plus /\ inbound'[c].looked = inbound[c].looked
               /\ CallFacts(inbound'[c]) /\ BarredListed(inbound[c])'
    <3> DEFINE r == inbound[c]
               mine == r.tenant = e.tenant /\ r.caller = e.caller
               s == IF mine THEN [r EXCEPT !.barred = @ \ {e.plus}] ELSE r
    <3>1. r \in InboundRecords /\ CallFacts(r) /\ BarredListed(r)
      BY <1>0 DEF InboundInv
    <3>2. inbound'[c] = s
      BY <2>1
    <3> HIDE DEF r
    <3>3. s \in InboundRecords
      BY <3>1 DEF InboundRecords
    <3>4. /\ s.step = r.step /\ s.did = r.did /\ s.caller = r.caller /\ s.plus = r.plus
          /\ s.at = r.at /\ s.tenant = r.tenant /\ s.saw = r.saw /\ s.rule = r.rule
          /\ s.bot = r.bot /\ s.why = r.why /\ s.newLead = r.newLead /\ s.looked = r.looked
          /\ s.row = r.row
      BY <3>1 DEF InboundRecords
    <3>5. s.barred = IF mine THEN r.barred \ {e.plus} ELSE r.barred
      BY <3>1 DEF InboundRecords
    <3> HIDE DEF s
    <3>6. CallFacts(s)
      BY <3>1, <3>4, <3>5 DEF CallFacts, FirstRule, Live
    <3>7. ASSUME s.step \in {"rules", "default", "bot"}, NEW f \in s.barred
          PROVE  [tenant |-> s.tenant, caller |-> s.caller, plus |-> f] \in dnc \ {e}
                 /\ f \in BOOLEAN
      <4> DEFINE x == [tenant |-> s.tenant, caller |-> s.caller, plus |-> f]
      <4>1. f \in r.barred /\ f \in ListedForms(r.tenant, r.caller)
        BY <3>1, <3>4, <3>5, <3>7 DEF BarredListed
      <4>2. x \in dnc /\ f \in BOOLEAN
        BY <3>4, <4>1 DEF ListedForms
      <4>3. x # e
        <5>1. x.tenant = s.tenant /\ x.caller = s.caller /\ x.plus = f
          OBVIOUS
        <5> HIDE DEF x
        <5>2. SUFFICES ASSUME x = e PROVE FALSE
          OBVIOUS
        <5>3. mine
          BY <3>4, <5>1, <5>2
        <5> QED
          BY <3>5, <3>7, <5>1, <5>2, <5>3
      <4> QED
        BY <4>2, <4>3
    <3>8. BarredListed(inbound[c])'
      BY <2>1, <3>2, <3>7 DEF BarredListed, ListedForms
    <3> QED
      BY <3>2, <3>3, <3>4, <3>6, <3>8 DEF r
  <2>4. InboundInv'
    <3>1. inbound' \in [InboundCalls -> InboundRecords]
      BY <2>1, <2>3
    <3> QED
      BY <1>0, <1>1, <2>3, <3>1 DEF InboundInv
  <2>5. LeadsInv'
    BY <1>1, <2>3, LeadsUntouched
  <2> QED
    BY <1>2, <1>9, <2>1, <2>2, <2>4, <2>5 DEF RouteIndInv
<1> QED
  BY <1>3, <1>4, <1>5, <1>6, <1>7, <1>8

\* A call's record becomes r, the tables stay as they are.
LEMMA CallMoves ==
  ASSUME RouteIndInv, NEW c \in InboundCalls, NEW r \in InboundRecords,
         CallFacts(r), BarredListed(r), Becomes(c, r), QuietPortal,
         LeadsInv', routeFaults' \in 0..MaxRouteFaults,
         arrivals' \in 0..MaxArrivals,
         onLoop' = NoOne \/ (onLoop' = c /\ r.step \in OnTheLoop)
  PROVE  RouteIndInv'
<1>0. /\ RowTypes /\ RulesInv /\ BotDidOfItsTenant /\ RouteBounds /\ InboundInv
      /\ request \in [Requests -> AllRequests] /\ MovesInv
  BY DEF RouteIndInv
<1>1. /\ UNCHANGED <<didTenant, didActive, botDid, rules, bots, dnc, request, routeEdits,
                     ruleCount, raced>>
      /\ inbound' = [inbound EXCEPT ![c] = r]
  BY DEF QuietPortal, tables, Becomes
<1>2. RowTypes' /\ RulesInv' /\ BotDidOfItsTenant'
  BY <1>0, <1>1 DEF RowTypes, RulesInv, BotDidOfItsTenant
<1>3. RouteBounds' /\ request' \in [Requests -> AllRequests]
  BY <1>0, <1>1 DEF RouteBounds
<1>4. /\ inbound' \in [InboundCalls -> InboundRecords] /\ inbound'[c] = r
      /\ \A k \in InboundCalls : k # c => inbound'[k] = inbound[k]
  BY <1>0, <1>1 DEF InboundInv
<1>5. \A k \in InboundCalls : CallFacts(inbound'[k]) /\ BarredListed(inbound'[k])
  BY <1>0, <1>4 DEF InboundInv
<1>6. \A k \in InboundCalls : BarredListed(inbound[k])'
  BY <1>1, <1>5 DEF BarredListed, ListedForms
<1>7. InboundInv'
  <2>1. onLoop' \in InboundCalls \cup {NoOne}
    OBVIOUS
  <2>2. onLoop' # NoOne => inbound'[onLoop'].step \in OnTheLoop
    BY <1>4
  <2> QED
    BY <1>4, <1>5, <1>6, <2>1, <2>2 DEF InboundInv
<1>8. MovesInv'
  BY <1>0, <1>1 DEF MovesInv, MoveFact, Detaches
<1> QED
  BY <1>2, <1>3, <1>7, <1>8 DEF RouteIndInv

\* The leads stay as they are, and the call does not come to make one.
LEMMA LeadsStay ==
  ASSUME RouteIndInv, NEW c \in InboundCalls, NEW r, Becomes(c, r), UNCHANGED leadRows,
         onLoop' \in {NoOne, c}, arrivals' \in Nat, arrivals' >= arrivals,
         onLoop' = c => arrivals' > 0,
         onLoop' = c => r.step # "newlead" \/ ~r.looked \/ \A l \in leadRows : ~LeadMatches(l, r)
  PROVE  LeadsInv'
<1>1. /\ LeadsInv /\ inbound' = [inbound EXCEPT ![c] = r] /\ arrivals \in Nat
      /\ inbound \in [InboundCalls -> InboundRecords] /\ NoOne \notin InboundCalls
  BY RoutingAssumption DEF RouteIndInv, RouteBounds, InboundInv, Becomes, NoOne
<1>2. inbound'[c] = r
  BY <1>1
<1>3. \A l \in leadRows : l.n \in Nat /\ l.n <= arrivals
  BY <1>1 DEF LeadsInv, LeadRows
<1>4. \A l \in leadRows : l.n <= arrivals'
  BY <1>1, <1>3
<1>5. \A k \in InboundCalls : Here(k, "newlead")' => k = c
  BY <1>1 DEF Here
<1> QED
  BY <1>1, <1>2, <1>4, <1>5 DEF LeadsInv, ReturningCallerKeepsLead, Here, LeadMatches

\* The call on the loop, and the bound of the faults.
LEMMA CallOnLoop ==
  ASSUME RouteIndInv, NEW c \in InboundCalls
  PROVE  /\ inbound[c] \in InboundRecords /\ CallFacts(inbound[c]) /\ BarredListed(inbound[c])
         /\ LeadsInv /\ arrivals \in 0..MaxArrivals /\ arrivals \in Nat
         /\ onLoop = c => arrivals > 0
         /\ (RouteFault \/ UNCHANGED routeFaults) => routeFaults' \in 0..MaxRouteFaults
         /\ onLoop \in InboundCalls \cup {NoOne}
<1>1. routeFaults \in 0..MaxRouteFaults /\ MaxRouteFaults \in Nat
  BY RoutingAssumption DEF RouteIndInv, RouteBounds
<1>2. (RouteFault \/ UNCHANGED routeFaults) => routeFaults' \in 0..MaxRouteFaults
  BY <1>1 DEF RouteFault
<1>3. LeadsInv /\ (onLoop = c => arrivals > 0) /\ arrivals \in 0..MaxArrivals
  BY RoutingAssumption DEF RouteIndInv, RouteBounds, LeadsInv, NoOne
<1> QED
  BY <1>2, <1>3 DEF RouteIndInv, InboundInv

\* The same rule decided, whatever else the record says.
SameChoice(r, s) ==
  /\ s \in InboundRecords /\ s.tenant = r.tenant /\ s.caller = r.caller /\ s.plus = r.plus
  /\ s.at = r.at /\ s.saw = r.saw /\ s.rule = r.rule /\ s.bot = r.bot /\ s.did = r.did

LEMMA SameLive ==
  ASSUME NEW r, NEW s, SameChoice(r, s)
  PROVE  Live(s) = Live(r) /\ PhoneOf(s) = PhoneOf(r)
BY DEF SameChoice, Live, PhoneOf

\* A call hung up for a reason that no rule gave.
LEMMA HangUpKeeps ==
  ASSUME RouteIndInv, NEW c \in InboundCalls, onLoop = c,
         NEW why \in {"unknown_did", "no_route", "bot_not_found", "dnc", "row_failed",
                      "session_failed"},
         why = "no_route" => Live(inbound[c]) = {},
         HangUp(c, why), QuietPortal, UNCHANGED <<leadRows, arrivals>>,
         RouteFault \/ UNCHANGED routeFaults
  PROVE  RouteIndInv'
<1> DEFINE r == inbound[c]
           s == [r EXCEPT !.step = "hungup", !.why = why]
<1>0. r \in InboundRecords /\ CallFacts(r)
  BY CallOnLoop
<1>1. /\ SameChoice(r, s) /\ s.step = "hungup" /\ s.why = why /\ s.newLead = r.newLead
      /\ s.looked = r.looked /\ s.barred = r.barred /\ s.row = r.row
  <2>1. s \in InboundRecords
    BY <1>0 DEF InboundRecords
  <2>2. /\ s.tenant = r.tenant /\ s.caller = r.caller /\ s.plus = r.plus /\ s.at = r.at
        /\ s.saw = r.saw /\ s.rule = r.rule /\ s.bot = r.bot /\ s.did = r.did
        /\ s.newLead = r.newLead /\ s.looked = r.looked /\ s.barred = r.barred /\ s.row = r.row
    BY <1>0 DEF InboundRecords
  <2>3. s.step = "hungup" /\ s.why = why
    BY <1>0 DEF InboundRecords
  <2> HIDE DEF r, s
  <2> QED
    BY <2>1, <2>2, <2>3 DEF SameChoice
<1>2. Becomes(c, s) /\ onLoop' = NoOne
  BY DEF HangUp
<1> HIDE DEF s, r
<1>3. CallFacts(s)
  <2>1. FirstRule(s)
    BY <1>0, <1>1, SameLive DEF FirstRule, r
  <2> QED
    BY <1>0, <1>1, <2>1 DEF CallFacts, SameChoice, OnTheLoop
<1>4. BarredListed(s)
  BY <1>1 DEF BarredListed
<1>5. s \in InboundRecords
  BY <1>1 DEF SameChoice
<1>6. LeadsInv'
  <2>1. NoOne # c
    BY RoutingAssumption DEF NoOne
  <2> QED
    BY <1>2, <2>1, CallOnLoop, LeadsStay
<1> QED
  BY <1>2, <1>3, <1>4, <1>5, <1>6, CallOnLoop, CallMoves

LEMMA StasisStartStep ==
  ASSUME RouteIndInv, NEW c \in InboundCalls, NEW d \in Dids, NEW caller \in Callers,
         NEW plus \in BOOLEAN, NEW at \in Moments, StasisStart(c, d, caller, plus, at)
  PROVE  RouteIndInv'
<1> DEFINE r == [Fresh EXCEPT !.did = d, !.caller = caller, !.plus = plus, !.at = at]
           b == ListedForms(didTenant[d], caller)
           s == [r EXCEPT !.tenant = didTenant[d], !.step = "rules", !.barred = b]
           h == [r EXCEPT !.step = "hungup", !.why = "unknown_did"]
<1>0. /\ QuietPortal /\ UNCHANGED <<leadRows, routeFaults>> /\ onLoop = NoOne /\ NoOne # c
      /\ arrivals' \in 0..MaxArrivals /\ arrivals' \in Nat /\ arrivals' >= arrivals
      /\ arrivals' > 0
  <2>1. arrivals \in 0..MaxArrivals /\ MaxArrivals \in Nat /\ NoOne # c
    BY RoutingAssumption DEF RouteIndInv, RouteBounds, NoOne
  <2> QED
    BY <2>1 DEF StasisStart
<1>1. /\ r.did = d /\ r.caller = caller /\ r.plus = plus /\ r.at = at /\ r.tenant = NoOne
      /\ r.saw = {} /\ r.rule = 0 /\ r.bot = NoOne /\ r.why = NoOne /\ r.newLead = FALSE
      /\ r.looked = FALSE /\ r.barred = {} /\ r.row = "none" /\ r \in InboundRecords
  BY DEF Fresh, InboundRecords, OnTheLoop
<1> HIDE DEF r
<1>2. CASE didActive[d] /\ didTenant[d] \in Tenants
  <2>1. Becomes(c, s) /\ onLoop' = c
    BY <1>2 DEF StasisStart, r
  <2>2. b \in SUBSET BOOLEAN
    BY DEF ListedForms
  <2> HIDE DEF b
  <2>3. s \in InboundRecords
    BY <1>1, <1>2, <2>2 DEF InboundRecords, OnTheLoop
  <2>4. /\ s.step = "rules" /\ s.tenant = didTenant[d] /\ s.plus = plus
        /\ s.caller = caller /\ s.at = at /\ s.saw = {} /\ s.bot = NoOne /\ s.why = NoOne
        /\ s.newLead = FALSE /\ s.looked = FALSE /\ s.row = "none" /\ s.barred = b
    BY <1>1 DEF InboundRecords
  <2> HIDE DEF s
  <2>5. CallFacts(s)
    BY <1>2, <2>4 DEF CallFacts, FirstRule, Live, NoOne
  <2>6. BarredListed(s)
    BY <2>4 DEF BarredListed, b
  <2>7. s.step \in OnTheLoop
    BY <2>4 DEF OnTheLoop
  <2>8. LeadsInv'
    BY <1>0, <2>1, <2>4, CallOnLoop, LeadsStay
  <2> QED
    BY <1>0, <2>1, <2>3, <2>5, <2>6, <2>7, <2>8, CallOnLoop, CallMoves
<1>3. CASE ~(didActive[d] /\ didTenant[d] \in Tenants)
  <2>1. Becomes(c, h) /\ onLoop' = NoOne
    BY <1>0, <1>3 DEF StasisStart, r
  <2>2. /\ h \in InboundRecords /\ h.step = "hungup" /\ h.why = "unknown_did"
        /\ h.bot = NoOne /\ h.newLead = FALSE /\ h.barred = {}
    BY <1>1 DEF InboundRecords
  <2> HIDE DEF h
  <2>3. CallFacts(h) /\ BarredListed(h)
    BY <2>2 DEF CallFacts, FirstRule, OnTheLoop, BarredListed
  <2>4. LeadsInv'
    BY <1>0, <2>1, <2>2, CallOnLoop, LeadsStay
  <2> QED
    BY <1>0, <2>1, <2>2, <2>3, <2>4, CallOnLoop, CallMoves
<1> QED
  BY <1>2, <1>3

LEMMA ResolveRulesStep ==
  ASSUME RouteIndInv, NEW c \in InboundCalls, ResolveRules(c)
  PROVE  RouteIndInv'
<1> DEFINE r == inbound[c]
           own == {u \in rules : u.did = r.did /\ u.tenant = r.tenant}
           live == {u \in own : Applies(u, r.caller, r.at)}
<1>0. /\ r \in InboundRecords /\ CallFacts(r) /\ BarredListed(r) /\ RulesInv
      /\ r.step = "rules" /\ onLoop = c /\ QuietPortal
      /\ UNCHANGED <<leadRows, onLoop, routeFaults, arrivals>>
  BY CallOnLoop DEF ResolveRules, Here, RouteIndInv
<1>1. /\ own \in SUBSET Rules /\ \A u, v \in own : u.n = v.n => u = v
      /\ \A u \in own : BotTenant[u.bot] = r.tenant /\ u.n \in Nat /\ u.bot \in Bots
  BY <1>0 DEF RulesInv, Rules
<1>2. r.at \in Moments
  BY <1>0 DEF CallFacts, OnTheLoop
<1>3. PICK list \in ListDIDRoutingRules(own) :
        \/ \E i \in Chosen(list, r.caller, r.at) :
             Becomes(c, [r EXCEPT !.saw = own, !.rule = list[i].n, !.bot = list[i].bot,
                                  !.why = "matched_rule", !.step = "bot"])
        \/ /\ \A i \in DOMAIN list : ~Takes(list[i], r.caller, r.at)
           /\ Becomes(c, [r EXCEPT !.saw = own, !.step = "default"])
  BY DEF ResolveRules
<1>4. /\ \A i \in Chosen(list, r.caller, r.at) :
           list[i] \in live /\ \A v \in live \ {list[i]} : Before(list[i], v)
      /\ (\A i \in DOMAIN list : ~Takes(list[i], r.caller, r.at)) => live = {}
  BY <1>1, <1>2, ChosenIsFirst
<1> HIDE DEF r, own
<1>5. ASSUME NEW i \in Chosen(list, r.caller, r.at),
             Becomes(c, [r EXCEPT !.saw = own, !.rule = list[i].n, !.bot = list[i].bot,
                                  !.why = "matched_rule", !.step = "bot"])
      PROVE  RouteIndInv'
  <2> DEFINE u == list[i]
             s == [r EXCEPT !.saw = own, !.rule = u.n, !.bot = u.bot,
                            !.why = "matched_rule", !.step = "bot"]
  <2>1. u \in own /\ u \in live /\ \A v \in live \ {u} : Before(u, v)
    BY <1>4
  <2>2. Becomes(c, s)
    BY <1>5
  <2> HIDE DEF u
  <2>3. /\ s \in InboundRecords /\ s.saw = own /\ s.rule = u.n /\ s.bot = u.bot
        /\ s.why = "matched_rule" /\ s.step = "bot" /\ s.tenant = r.tenant
        /\ s.caller = r.caller /\ s.at = r.at /\ s.plus = r.plus /\ s.newLead = r.newLead
        /\ s.looked = r.looked /\ s.barred = r.barred /\ s.row = r.row
    BY <1>0, <1>1, <2>1 DEF InboundRecords, OnTheLoop
  <2> HIDE DEF s
  <2>4. Live(s) = live
    BY <2>3 DEF Live
  <2>5. FirstRule(s)
    BY <2>1, <2>3, <2>4 DEF FirstRule, Before
  <2>6. CallFacts(s) /\ s.step \in OnTheLoop
    BY <1>0, <1>1, <2>1, <2>3, <2>5 DEF CallFacts, OnTheLoop
  <2>7. BarredListed(s)
    BY <1>0, <2>3 DEF BarredListed
  <2>8. LeadsInv'
    BY <1>0, <2>2, <2>3, CallOnLoop, LeadsStay
  <2> QED
    BY <1>0, <2>2, <2>3, <2>6, <2>7, <2>8, CallOnLoop, CallMoves
<1>6. ASSUME \A i \in DOMAIN list : ~Takes(list[i], r.caller, r.at),
             Becomes(c, [r EXCEPT !.saw = own, !.step = "default"])
      PROVE  RouteIndInv'
  <2> DEFINE s == [r EXCEPT !.saw = own, !.step = "default"]
  <2>1. live = {}
    BY <1>4, <1>6
  <2>2. Becomes(c, s)
    BY <1>6
  <2>3. /\ s \in InboundRecords /\ s.saw = own /\ s.bot = r.bot
        /\ s.why = r.why /\ s.step = "default" /\ s.tenant = r.tenant
        /\ s.caller = r.caller /\ s.at = r.at /\ s.plus = r.plus /\ s.newLead = r.newLead
        /\ s.looked = r.looked /\ s.barred = r.barred /\ s.row = r.row
    BY <1>0, <1>1 DEF InboundRecords, OnTheLoop
  <2> HIDE DEF s
  <2>4. Live(s) = {}
    BY <2>1, <2>3 DEF Live
  <2>5. FirstRule(s)
    BY <1>0, <2>3, <2>4 DEF FirstRule, CallFacts, NoOne
  <2>6. CallFacts(s) /\ s.step \in OnTheLoop
    BY <1>0, <2>3, <2>4, <2>5 DEF CallFacts, OnTheLoop
  <2>7. BarredListed(s)
    BY <1>0, <2>3 DEF BarredListed
  <2>8. LeadsInv'
    BY <1>0, <2>2, <2>3, CallOnLoop, LeadsStay
  <2> QED
    BY <1>0, <2>2, <2>3, <2>6, <2>7, <2>8, CallOnLoop, CallMoves
<1> QED
  BY <1>3, <1>5, <1>6

LEMMA ResolveDefaultStep ==
  ASSUME RouteIndInv, NEW c \in InboundCalls, ResolveDefault(c)
  PROVE  RouteIndInv'
<1> DEFINE r == inbound[c]
           found == DefaultBot(r.did, r.tenant)
<1>0. /\ r \in InboundRecords /\ CallFacts(r) /\ BarredListed(r)
      /\ r.step = "default" /\ onLoop = c /\ QuietPortal
      /\ UNCHANGED <<leadRows, routeFaults, arrivals>>
  BY CallOnLoop DEF ResolveDefault, Here
<1>1. CASE found = {}
  <2>1. HangUp(c, "no_route")
    BY <1>1 DEF ResolveDefault
  <2>2. Live(r) = {}
    BY <1>0 DEF CallFacts
  <2> QED
    BY <1>0, <2>1, <2>2, HangUpKeeps
<1>2. CASE found # {}
  <2>1. PICK b \in found :
          Becomes(c, [r EXCEPT !.bot = b, !.why = "default_did_bot", !.step = "bot"])
    BY <1>2 DEF ResolveDefault
  <2> DEFINE s == [r EXCEPT !.bot = b, !.why = "default_did_bot", !.step = "bot"]
  <2>2. b \in Bots /\ BotTenant[b] = r.tenant /\ UNCHANGED onLoop
    BY <1>2 DEF DefaultBot, ResolveDefault
  <2> HIDE DEF r
  <2>3. s \in InboundRecords
    BY <1>0, <2>2 DEF InboundRecords, OnTheLoop
  <2>4. /\ s.step = "bot" /\ s.why = "default_did_bot" /\ s.bot = b
        /\ s.tenant = r.tenant /\ s.caller = r.caller /\ s.plus = r.plus /\ s.at = r.at
        /\ s.saw = r.saw /\ s.newLead = r.newLead /\ s.looked = r.looked
        /\ s.barred = r.barred /\ s.row = r.row
    BY <1>0 DEF InboundRecords
  <2>5. Becomes(c, s)
    BY <2>1
  <2> HIDE DEF s
  <2>6. Live(s) = Live(r) /\ PhoneOf(s) = PhoneOf(r)
    BY <2>4 DEF Live, PhoneOf
  <2>7. CallFacts(s) /\ s.step \in OnTheLoop
    BY <1>0, <2>2, <2>4, <2>6 DEF CallFacts, FirstRule, OnTheLoop
  <2>8. BarredListed(s)
    BY <1>0, <2>4 DEF BarredListed
  <2>9. LeadsInv'
    BY <1>0, <2>2, <2>4, <2>5, CallOnLoop, LeadsStay
  <2> QED
    BY <1>0, <2>2, <2>3, <2>5, <2>7, <2>8, <2>9, CallOnLoop, CallMoves DEF r
<1> QED
  BY <1>1, <1>2

\* A call goes on to a later step with the bot it was given.
LEMMA GoesOn ==
  ASSUME RouteIndInv, NEW c \in InboundCalls, onLoop = c \/ onLoop = NoOne,
         inbound[c].step \notin {"ringing", "rules", "default"},
         NEW s, SameChoice(inbound[c], s), s.why = inbound[c].why,
         s.step \notin {"rules", "default", "bot"},
         s.step \in {"lead", "newlead"} => ~s.newLead, s.step = "lead" => ~s.looked,
         s.plus \in s.barred =>
                     /\ s.row = "none" /\ ~s.newLead
                     /\ s.step \notin {"lead", "newlead", "row", "session", "bridged"},
         s.step \in OnTheLoop => inbound[c].step \in OnTheLoop,
         Becomes(c, s), QuietPortal, LeadsInv',
         RouteFault \/ UNCHANGED routeFaults, UNCHANGED arrivals,
         onLoop' = NoOne \/ (onLoop' = c /\ s.step \in OnTheLoop)
  PROVE  RouteIndInv'
<1> DEFINE r == inbound[c]
<1>0. r \in InboundRecords /\ CallFacts(r)
  BY CallOnLoop
<1> HIDE DEF r
<1>1. /\ s \in InboundRecords /\ s.tenant = r.tenant /\ s.caller = r.caller /\ s.at = r.at
      /\ s.bot = r.bot /\ s.rule = r.rule /\ s.why = r.why
  BY DEF SameChoice, r
<1>2. Live(s) = Live(r)
  BY SameLive DEF r
<1>3. FirstRule(s)
  BY <1>0, <1>1, <1>2 DEF FirstRule, CallFacts
<1>4. s.step \in OnTheLoop => r.step \in OnTheLoop
  BY DEF r
<1>5. CallFacts(s)
  BY <1>0, <1>1, <1>3, <1>4 DEF CallFacts
<1>6. BarredListed(s)
  BY DEF BarredListed
<1>7. routeFaults' \in 0..MaxRouteFaults /\ arrivals' \in 0..MaxArrivals
  BY CallOnLoop
<1> QED
  BY <1>1, <1>5, <1>6, <1>7, CallMoves

LEMMA LeadsStayOnLoop ==
  ASSUME RouteIndInv, NEW c \in InboundCalls, NEW r, Becomes(c, r),
         UNCHANGED <<leadRows, arrivals>>, onLoop = c, onLoop' \in {NoOne, c},
         r.step # "newlead" \/ ~r.looked \/ \A l \in leadRows : ~LeadMatches(l, r)
  PROVE  LeadsInv'
<1>1. arrivals \in Nat /\ arrivals > 0
  BY CallOnLoop
<1>2. arrivals' \in Nat /\ arrivals' >= arrivals /\ arrivals' > 0
  BY <1>1
<1> QED
  BY <1>2, LeadsStay

LEMMA ScreenStep ==
  ASSUME RouteIndInv, NEW c \in InboundCalls, Screen(c)
  PROVE  RouteIndInv'
<1> DEFINE r == inbound[c]
<1>0. /\ r \in InboundRecords /\ CallFacts(r) /\ BarredListed(r)
      /\ r.step = "bot" /\ onLoop = c /\ QuietPortal /\ UNCHANGED <<leadRows, arrivals>>
  BY CallOnLoop DEF Screen, Here
<1>1. ASSUME NEW why \in {"bot_not_found", "dnc"}, HangUp(c, why), UNCHANGED routeFaults
      PROVE  RouteIndInv'
  BY <1>0, <1>1, HangUpKeeps
<1>2. ASSUME NEW barred \in SUBSET BOOLEAN, r.plus \notin barred, NEW s,
             s = [r EXCEPT !.step = "lead", !.barred = barred], Becomes(c, s),
             RouteFault \/ UNCHANGED routeFaults, UNCHANGED onLoop
      PROVE  RouteIndInv'
  <2>1. s \in InboundRecords
    BY <1>0, <1>2 DEF InboundRecords, OnTheLoop
  <2>2. /\ s.tenant = r.tenant /\ s.caller = r.caller /\ s.plus = r.plus /\ s.at = r.at
        /\ s.saw = r.saw /\ s.rule = r.rule /\ s.bot = r.bot /\ s.did = r.did
        /\ s.step = "lead" /\ s.why = r.why /\ s.newLead = r.newLead /\ s.barred = barred
        /\ s.looked = r.looked
    BY <1>0, <1>2 DEF InboundRecords
  <2>3. SameChoice(r, s)
    BY <2>1, <2>2 DEF SameChoice
  <2>4. ~r.newLead /\ ~r.looked
    BY <1>0 DEF CallFacts
  <2>5. s.step \in OnTheLoop /\ r.step \in OnTheLoop
    BY <1>0, <2>2 DEF OnTheLoop
  <2>6. LeadsInv'
    BY <1>0, <1>2, <2>2, LeadsStayOnLoop
  <2> QED
    BY <1>0, <1>2, <2>2, <2>3, <2>4, <2>5, <2>6, GoesOn
<1>3. ASSUME ~InDNC(r), Becomes(c, [r EXCEPT !.step = "lead"]),
             UNCHANGED <<onLoop, routeFaults>>
      PROVE  RouteIndInv'
  <2>1. [r EXCEPT !.step = "lead"] = [r EXCEPT !.step = "lead", !.barred = r.barred]
        /\ r.barred \in SUBSET BOOLEAN
    BY <1>0 DEF InboundRecords
  <2>2. r.plus \notin r.barred
    BY <1>0, <1>3 DEF BarredListed, InDNC, PhoneOf, ListedForms
  <2> QED
    BY <1>2, <1>3, <2>1, <2>2
<1>4. ASSUME RouteFault, Becomes(c, [r EXCEPT !.step = "lead", !.barred = {}]),
             UNCHANGED onLoop
      PROVE  RouteIndInv'
  BY <1>2, <1>4
<1> QED
  BY <1>1, <1>3, <1>4 DEF Screen

LEMMA FindLeadStep ==
  ASSUME RouteIndInv, NEW c \in InboundCalls, FindLeadByPhone(c)
  PROVE  RouteIndInv'
<1> DEFINE r == inbound[c]
           found == \E l \in leadRows : LeadMatches(l, r)
<1>0. /\ r \in InboundRecords /\ CallFacts(r)
      /\ r.step = "lead" /\ onLoop = c /\ QuietPortal
      /\ UNCHANGED <<leadRows, onLoop, arrivals>>
  BY CallOnLoop DEF FindLeadByPhone, Here
<1>1. ~r.newLead /\ r.plus \notin r.barred
  BY <1>0 DEF CallFacts
<1>2. ASSUME NEW step \in {"row", "newlead"}, NEW looked \in BOOLEAN, NEW s,
             step = "newlead" => ~looked \/ ~found,
             RouteFault \/ UNCHANGED routeFaults,
             s = [r EXCEPT !.step = step, !.looked = looked], Becomes(c, s)
      PROVE  RouteIndInv'
  <2>1. s \in InboundRecords
    BY <1>0, <1>2 DEF InboundRecords, OnTheLoop
  <2>2. /\ s.tenant = r.tenant /\ s.caller = r.caller /\ s.plus = r.plus /\ s.at = r.at
        /\ s.saw = r.saw /\ s.rule = r.rule /\ s.bot = r.bot /\ s.did = r.did
        /\ s.step = step /\ s.why = r.why /\ s.newLead = r.newLead
        /\ s.looked = looked /\ s.barred = r.barred
    BY <1>0, <1>2 DEF InboundRecords
  <2>4. s.step \in OnTheLoop /\ r.step \in OnTheLoop
    BY <1>0, <2>2 DEF OnTheLoop
  <2>5. SameChoice(r, s)
    BY <2>1, <2>2 DEF SameChoice
  <2>6. ~found => \A l \in leadRows : ~LeadMatches(l, s)
    BY <2>2 DEF LeadMatches
  <2>7. LeadsInv'
    BY <1>0, <1>2, <2>2, <2>6, LeadsStayOnLoop
  <2> QED
    BY <1>0, <1>1, <1>2, <2>2, <2>4, <2>5, <2>7, GoesOn
<1>3. CASE RouteFault /\ Becomes(c, [r EXCEPT !.step = "newlead"])
  <2>1. [r EXCEPT !.step = "newlead"] = [r EXCEPT !.step = "newlead", !.looked = r.looked]
        /\ r.looked \in BOOLEAN
    BY <1>0 DEF InboundRecords
  <2>2. ~r.looked
    BY <1>0 DEF CallFacts
  <2> QED
    BY <1>2, <1>3, <2>1, <2>2
<1>4. CASE /\ Becomes(c, [r EXCEPT !.step = IF found THEN "row" ELSE "newlead",
                                   !.looked = TRUE])
           /\ UNCHANGED routeFaults
  <2> DEFINE step == IF found THEN "row" ELSE "newlead"
  <2>1. step \in {"row", "newlead"} /\ (step = "newlead" => ~found)
    OBVIOUS
  <2>2. Becomes(c, [r EXCEPT !.step = step, !.looked = TRUE])
    BY <1>4
  <2> HIDE DEF step
  <2> QED
    BY <1>2, <1>4, <2>1, <2>2
<1> QED
  BY <1>3, <1>4 DEF FindLeadByPhone

LEMMA CreateLeadStep ==
  ASSUME RouteIndInv, NEW c \in InboundCalls, CreateLead(c)
  PROVE  RouteIndInv'
<1> DEFINE r == inbound[c]
           m == [n |-> arrivals, tenant |-> r.tenant, caller |-> r.caller,
                 plus |-> r.plus, looked |-> r.looked]
<1>0. /\ r \in InboundRecords /\ CallFacts(r) /\ LeadsInv
      /\ arrivals \in Nat /\ arrivals \in 0..MaxArrivals /\ arrivals > 0
      /\ r.step = "newlead" /\ onLoop = c /\ QuietPortal /\ UNCHANGED <<onLoop, arrivals>>
  BY CallOnLoop DEF CreateLead, Here
<1>1. /\ ~r.newLead /\ r.plus \notin r.barred /\ r.tenant \in Tenants /\ r.caller \in Callers
      /\ r.plus \in BOOLEAN /\ r.looked \in BOOLEAN
  BY <1>0 DEF CallFacts, OnTheLoop, InboundRecords
<1>2. ASSUME NEW new \in BOOLEAN, NEW s, s = [r EXCEPT !.step = "row", !.newLead = new],
             Becomes(c, s), LeadsInv', RouteFault \/ UNCHANGED routeFaults
      PROVE  RouteIndInv'
  <2>1. s \in InboundRecords
    BY <1>0, <1>2 DEF InboundRecords, OnTheLoop
  <2>2. /\ s.tenant = r.tenant /\ s.caller = r.caller /\ s.plus = r.plus /\ s.at = r.at
        /\ s.saw = r.saw /\ s.rule = r.rule /\ s.bot = r.bot /\ s.did = r.did
        /\ s.step = "row" /\ s.why = r.why /\ s.barred = r.barred
    BY <1>0, <1>2 DEF InboundRecords
  <2>3. s.step \in OnTheLoop /\ r.step \in OnTheLoop
    BY <1>0, <2>2 DEF OnTheLoop
  <2>4. SameChoice(r, s)
    BY <2>1, <2>2 DEF SameChoice
  <2> QED
    BY <1>0, <1>1, <1>2, <2>2, <2>3, <2>4, GoesOn
<1>3. CASE /\ leadRows' = leadRows \cup {m}
           /\ Becomes(c, [r EXCEPT !.step = "row", !.newLead = TRUE])
           /\ UNCHANGED routeFaults
  <2>1. /\ m.n = arrivals /\ m.tenant = r.tenant /\ m.caller = r.caller /\ m.plus = r.plus
        /\ m.looked = r.looked /\ m \in LeadRows
    BY <1>0, <1>1 DEF LeadRows
  <2> HIDE DEF m
  <2>2. \A l \in leadRows : l.n \in Nat /\ l.n <= arrivals /\ l.plus \in BOOLEAN
    BY <1>0 DEF LeadsInv, LeadRows
  <2>3. r.looked => \A l \in leadRows : ~LeadMatches(l, r)
    BY <1>0 DEF LeadsInv, Here
  <2>4. \A l \in leadRows :
          l.tenant = m.tenant /\ l.caller = m.caller /\ m.looked => ~l.plus /\ m.plus
    BY <1>1, <2>1, <2>2, <2>3 DEF LeadMatches
  <2>5. \A k \in leadRows' : ~(m.n < k.n)
    BY <1>0, <1>3, <2>1, <2>2
  <2>6. ReturningCallerKeepsLead'
    BY <1>0, <1>3, <2>4, <2>5 DEF LeadsInv, ReturningCallerKeepsLead
  <2>7. inbound'[c].step = "row"
    BY <1>0, <1>3 DEF Becomes, RouteIndInv, InboundInv, InboundRecords
  <2>8. \A k \in InboundCalls : ~Here(k, "newlead")'
    BY <1>0, <2>7 DEF Here
  <2>9. LeadsInv'
    BY <1>0, <1>3, <2>1, <2>2, <2>6, <2>8 DEF LeadsInv
  <2> QED
    BY <1>2, <1>3, <2>9
<1>4. CASE RouteFault /\ Becomes(c, [r EXCEPT !.step = "row"]) /\ UNCHANGED leadRows
  <2>1. [r EXCEPT !.step = "row"] = [r EXCEPT !.step = "row", !.newLead = FALSE]
    BY <1>0, <1>1 DEF InboundRecords
  <2>2. [r EXCEPT !.step = "row"].step = "row"
    BY <1>0 DEF InboundRecords
  <2>3. LeadsInv'
    BY <1>0, <1>4, <2>2, LeadsStayOnLoop
  <2> QED
    BY <1>2, <1>4, <2>1, <2>3
<1> QED
  BY <1>3, <1>4 DEF CreateLead

LEMMA CreateCallStep ==
  ASSUME RouteIndInv, NEW c \in InboundCalls, CreateInboundCall(c) \/ CreateInboundSession(c)
  PROVE  RouteIndInv'
<1> DEFINE r == inbound[c]
<1>0. /\ r \in InboundRecords /\ CallFacts(r)
      /\ r.step \in {"row", "session"} /\ onLoop = c /\ QuietPortal
      /\ UNCHANGED <<leadRows, arrivals>>
  BY CallOnLoop DEF CreateInboundCall, CreateInboundSession, Here
<1>1. r.plus \notin r.barred
  BY <1>0 DEF CallFacts
<1>2. ASSUME NEW why \in {"row_failed", "session_failed"}, RouteFault, HangUp(c, why)
      PROVE  RouteIndInv'
  BY <1>0, <1>2, HangUpKeeps
<1>3. ASSUME NEW step \in {"session", "bridged"}, NEW row \in {r.row, "answered"}, NEW s,
             s = [r EXCEPT !.step = step, !.row = row], Becomes(c, s), UNCHANGED routeFaults,
             onLoop' = NoOne \/ (UNCHANGED onLoop /\ step = "session")
      PROVE  RouteIndInv'
  <2>1. s \in InboundRecords
    BY <1>0, <1>3 DEF InboundRecords, OnTheLoop
  <2>2. /\ s.tenant = r.tenant /\ s.caller = r.caller /\ s.plus = r.plus /\ s.at = r.at
        /\ s.saw = r.saw /\ s.rule = r.rule /\ s.bot = r.bot /\ s.did = r.did
        /\ s.step = step /\ s.why = r.why /\ s.newLead = r.newLead /\ s.barred = r.barred
    BY <1>0, <1>3 DEF InboundRecords
  <2>3. r.step \in OnTheLoop /\ (step = "session" => s.step \in OnTheLoop)
    BY <1>0, <2>2 DEF OnTheLoop
  <2>4. SameChoice(r, s)
    BY <2>1, <2>2 DEF SameChoice
  <2>5. s.step \notin {"rules", "default", "bot", "lead", "newlead"}
    BY <1>3, <2>2
  <2>6. r.step \notin {"ringing", "rules", "default"}
    BY <1>0
  <2>7. LeadsInv'
    BY <1>0, <1>3, <2>5, LeadsStayOnLoop
  <2> QED
    BY <1>0, <1>1, <1>3, <2>2, <2>3, <2>4, <2>5, <2>6, <2>7, GoesOn
<1>4. CASE CreateInboundCall(c)
  BY <1>0, <1>2, <1>3, <1>4 DEF CreateInboundCall
<1>5. CASE CreateInboundSession(c)
  <2>1. CASE Becomes(c, [r EXCEPT !.step = "bridged"]) /\ onLoop' = NoOne
             /\ UNCHANGED routeFaults
    <3>1. [r EXCEPT !.step = "bridged"] = [r EXCEPT !.step = "bridged", !.row = r.row]
      BY <1>0 DEF InboundRecords
    <3> QED
      BY <1>3, <2>1, <3>1
  <2> QED
    BY <1>2, <1>5, <2>1 DEF CreateInboundSession
<1> QED
  BY <1>4, <1>5

LEMMA DestroyedStep ==
  ASSUME RouteIndInv, NEW c \in InboundCalls, InboundDestroyed(c)
  PROVE  RouteIndInv'
<1> DEFINE r == inbound[c]
<1>0. /\ r \in InboundRecords /\ CallFacts(r)
      /\ r.step \in {"hungup", "bridged"} /\ onLoop = NoOne /\ QuietPortal
      /\ UNCHANGED <<leadRows, onLoop, arrivals>>
  BY CallOnLoop DEF InboundDestroyed
<1>1. r.plus \in r.barred => r.row = "none" /\ ~r.newLead
  BY <1>0 DEF CallFacts
<1>2. ASSUME NEW row \in {"none", "answered", "completed", "unclosed"}, NEW s,
             r.row = "none" => row = "none",
             s = [r EXCEPT !.step = "gone", !.row = row], Becomes(c, s),
             RouteFault \/ UNCHANGED routeFaults
      PROVE  RouteIndInv'
  <2>1. s \in InboundRecords
    BY <1>0, <1>2 DEF InboundRecords, OnTheLoop
  <2>2. /\ s.tenant = r.tenant /\ s.caller = r.caller /\ s.plus = r.plus /\ s.at = r.at
        /\ s.saw = r.saw /\ s.rule = r.rule /\ s.bot = r.bot /\ s.did = r.did
        /\ s.step = "gone" /\ s.why = r.why /\ s.newLead = r.newLead
        /\ s.barred = r.barred /\ s.row = row
    BY <1>0, <1>2 DEF InboundRecords
  <2>3. s.step \notin OnTheLoop
    BY <2>2 DEF OnTheLoop
  <2>4. SameChoice(r, s)
    BY <2>1, <2>2 DEF SameChoice
  <2>5. s.step \notin {"rules", "default", "bot", "lead", "newlead", "row", "session", "bridged"}
    BY <2>2
  <2>6. r.step \notin {"ringing", "rules", "default"}
    BY <1>0
  <2>7. LeadsInv'
    BY <1>0, <1>2, <2>5, RoutingAssumption, CallOnLoop, LeadsStay DEF NoOne
  <2> QED
    BY <1>0, <1>1, <1>2, <2>2, <2>3, <2>4, <2>5, <2>6, <2>7, GoesOn
<1>3. r.row \in {"none", "answered", "completed", "unclosed"}
  BY <1>0 DEF InboundRecords
<1>4. CASE /\ Becomes(c, [[r EXCEPT !.step = "gone"] EXCEPT !.row = ClosedRow(r)])
           /\ UNCHANGED routeFaults
  <2>1. [[r EXCEPT !.step = "gone"] EXCEPT !.row = ClosedRow(r)]
          = [r EXCEPT !.step = "gone", !.row = ClosedRow(r)]
    BY <1>0 DEF InboundRecords
  <2>2. /\ ClosedRow(r) \in {"none", "answered", "completed", "unclosed"}
        /\ r.row = "none" => ClosedRow(r) = "none"
    BY <1>3 DEF ClosedRow
  <2> QED
    BY <1>2, <1>4, <2>1, <2>2
<1>5. CASE /\ RouteFault
           /\ Becomes(c, [[r EXCEPT !.step = "gone"]
                             EXCEPT !.row = IF @ = "answered" THEN "unclosed" ELSE @])
  <2> DEFINE row == IF r.row = "answered" THEN "unclosed" ELSE r.row
  <2>1. [[r EXCEPT !.step = "gone"] EXCEPT !.row = IF @ = "answered" THEN "unclosed" ELSE @]
          = [r EXCEPT !.step = "gone", !.row = row]
    BY <1>0 DEF InboundRecords
  <2>2. /\ row \in {"none", "answered", "completed", "unclosed"}
        /\ r.row = "none" => row = "none"
    BY <1>3
  <2> HIDE DEF row
  <2> QED
    BY <1>2, <1>5, <2>1, <2>2
<1> QED
  BY <1>4, <1>5 DEF InboundDestroyed

LEMMA RouteIndStep ==
  ASSUME RouteIndInv, [RouteNext]_routeVars
  PROVE  RouteIndInv'
<1>1. CASE PortalStep
  BY <1>1, ReadsStep, AssignDIDDetachesStep, AssignDIDStep, AssignRollsBackStep, AssignBotStep,
     CreateRuleStep, UpdateRuleStep, OnceStep, Zenon DEF PortalStep
<1>2. CASE LoopStep
  BY <1>2, ResolveRulesStep, ResolveDefaultStep, ScreenStep, FindLeadStep, CreateLeadStep,
     CreateCallStep, DestroyedStep, Zenon DEF LoopStep
<1>3. ASSUME NEW c \in InboundCalls, NEW d \in Dids, NEW p \in Callers, NEW plus \in BOOLEAN,
             NEW at \in Moments, StasisStart(c, d, p, plus, at)
      PROVE  RouteIndInv'
  BY <1>3, StasisStartStep
<1>4. CASE UNCHANGED routeVars
  <2>1. UNCHANGED <<inbound, onLoop, dnc>>
    BY <1>4 DEF routeVars
  <2>2. InboundInv'
    BY <2>1, CallsUntouched
  <2>3. LeadsInv'
    BY <1>4, LeadsUntouched DEF routeVars
  <2>4. MovesInv'
    BY <1>4, MovesKept DEF routeVars
  <2> QED
    BY <1>4, <2>2, <2>3, <2>4
       DEF routeVars, RouteIndInv, RowTypes, RouteBounds, RulesInv, BotDidOfItsTenant
<1> QED
  BY <1>1, <1>2, <1>3, <1>4 DEF RouteNext

(* A call is answered by a bot of the number's tenant, the one the first   *)
(* rule that applies names; no bot keeps another tenant's number but by a  *)
(* race of two requests; callers keep their lead and barred ones stay out, *)
(* for any tables, any number of calls and any requests of the portal      *)
(* between the statements of handleInbound and of AssignDIDToTenant.       *)
THEOREM CallsAreRouted == RouteSpec => []RoutingInv
<1>1. RouteSpec => []RouteIndInv
  BY RouteIndInit, RouteIndStep, PTL DEF RouteSpec
<1> QED
  BY <1>1, RouteIndImplies, PTL
=============================================================================
