------------------------------ MODULE Trunks ------------------------------
(***************************************************************************)
(* SIP trunks (backend/internal/store/trunks.go and the administrator's    *)
(* handlers in backend/internal/api/handlers_telephony.go).  A trunk is a  *)
(* row of sip_trunks, and Asterisk reads what it dials from the ps_*       *)
(* tables, which the same transactions rewrite: the trunk's endpoint name  *)
(* is the key of its ps_* rows.                                            *)
(*                                                                         *)
(* Updating and deleting read the trunk's row first and write it later in  *)
(* the same READ COMMITTED transaction without having locked it, so two    *)
(* administrators' requests may both hold the old endpoint name.  From the *)
(* UPDATE or DELETE of the row to the commit the row is locked: that part  *)
(* is one step here.  The administrators' requests are bounded by          *)
(* MaxTrunkEdits.                                                          *)
(***************************************************************************)
EXTENDS Naturals, FiniteSets

CONSTANTS Trunks, Endpoints, Passwords, Admins, MaxTrunkEdits

ASSUME TrunkAssumption == MaxTrunkEdits \in Nat /\ "none" \notin Endpoints

NoTrunk == [endpoint |-> "none", password |-> "none"]
NoEdit == [op |-> "none"]
Masked == "masked"          \* the password as the portal shows it
Missing == "missing"

VARIABLES
  trunkRow,    \* Trunks -> row of sip_trunks, or NoTrunk
  psRow,       \* Endpoints -> password of the ps_* rows with that key, or Missing
  numbers,     \* Trunks -> number of DIDs on it
  edit,        \* Admins -> the request being served, or NoEdit
  trunkEdits,  \* requests started so far
  overlapped   \* some request wrote a row another one had renamed since it read it

trunkVars == <<trunkRow, psRow, numbers, edit, trunkEdits, overlapped>>

TrunkRows == [endpoint: Endpoints, password: Passwords]

Edits == [op: {"update"}, trunk: Trunks, old: TrunkRows,
          endpoint: Endpoints, password: Passwords \cup {Masked}]
         \cup [op: {"delete"}, trunk: Trunks, old: TrunkRows]

TrunkInit ==
  /\ trunkRow = [t \in Trunks |-> NoTrunk]
  /\ psRow = [e \in Endpoints |-> Missing]
  /\ numbers = [t \in Trunks |-> 0]
  /\ edit = [a \in Admins |-> NoEdit]
  /\ trunkEdits = 0
  /\ overlapped = FALSE

Present(t) == trunkRow[t] # NoTrunk

(* asterisk_endpoint is UNIQUE: another trunk's row with the name refuses the write. *)
NameFree(t, e) == \A u \in Trunks \ {t} : Present(u) => trunkRow[u].endpoint # e

(* The inserts into ps_* have the endpoint name as primary key and no ON CONFLICT. *)
UpsertRealtimeTrunk(rows, e, p) == [rows EXCEPT ![e] = p]
Insertable(rows, e) == rows[e] = Missing

DeleteRealtimeTrunk(rows, e) == [rows EXCEPT ![e] = Missing]

TrunkCounted == trunkEdits < MaxTrunkEdits /\ trunkEdits' = trunkEdits + 1

(* CreateTrunk: one transaction, and any conflict rolls all of it back. *)
CreateTrunk(t, e, p) ==
  /\ ~Present(t)
  /\ TrunkCounted
  /\ IF NameFree(t, e) /\ Insertable(psRow, e)
       THEN /\ trunkRow' = [trunkRow EXCEPT ![t] = [endpoint |-> e, password |-> p]]
            /\ psRow' = UpsertRealtimeTrunk(psRow, e, p)
       ELSE UNCHANGED <<trunkRow, psRow>>
  /\ UNCHANGED <<numbers, edit, overlapped>>

UpdateTrunkReads(a, t, e, p) ==
  /\ edit[a] = NoEdit /\ Present(t)
  /\ TrunkCounted
  /\ edit' = [edit EXCEPT ![a] = [op |-> "update", trunk |-> t, old |-> trunkRow[t],
                                  endpoint |-> e, password |-> p]]
  /\ UNCHANGED <<trunkRow, psRow, numbers, overlapped>>

DeleteTrunkReads(a, t) ==
  /\ edit[a] = NoEdit /\ Present(t)
  /\ TrunkCounted
  /\ edit' = [edit EXCEPT ![a] = [op |-> "delete", trunk |-> t, old |-> trunkRow[t]]]
  /\ UNCHANGED <<trunkRow, psRow, numbers, overlapped>>

(* A masked or empty password keeps the one that was read. *)
PasswordOf(q) == IF q.password = Masked THEN q.old.password ELSE q.password

(* The ps_* rows removed are those of the name that was read. *)
NewName(q) == IF q.op = "update" THEN q.endpoint ELSE q.old.endpoint
OldName(q) == q.old.endpoint

Stale(q) == trunkRow[q.trunk].endpoint # q.old.endpoint

Answered(a) == edit' = [edit EXCEPT ![a] = NoEdit]

UpdateTrunkWrites(a) ==
  LET q == edit[a]
      cleared == DeleteRealtimeTrunk(psRow, OldName(q))
  IN  /\ q.op = "update"
      /\ Answered(a)
      /\ IF Present(q.trunk) /\ NameFree(q.trunk, q.endpoint) /\ Insertable(cleared, q.endpoint)
           THEN /\ trunkRow' = [trunkRow EXCEPT ![q.trunk] =
                                  [endpoint |-> q.endpoint, password |-> PasswordOf(q)]]
                /\ psRow' = UpsertRealtimeTrunk(cleared, q.endpoint, PasswordOf(q))
                /\ overlapped' = (overlapped \/ Stale(q))
           ELSE UNCHANGED <<trunkRow, psRow, overlapped>>
      /\ UNCHANGED <<numbers, trunkEdits>>

(* ON DELETE RESTRICT: a trunk with DIDs is not deleted. *)
DeletableWithNumbers(t) == Present(t)
Deletable(t) == Present(t) /\ numbers[t] = 0

DeleteTrunkWrites(a) ==
  LET q == edit[a]
  IN  /\ q.op = "delete"
      /\ Answered(a)
      /\ IF Deletable(q.trunk)
           THEN /\ trunkRow' = [trunkRow EXCEPT ![q.trunk] = NoTrunk]
                /\ psRow' = DeleteRealtimeTrunk(psRow, OldName(q))
                /\ overlapped' = (overlapped \/ Stale(q))
           ELSE UNCHANGED <<trunkRow, psRow, overlapped>>
      /\ UNCHANGED <<numbers, trunkEdits>>

(* CreateDID and DeleteDID, of which a trunk only knows that it is referenced. *)
CreateDID(t) ==
  /\ Present(t) /\ numbers[t] = 0
  /\ TrunkCounted
  /\ numbers' = [numbers EXCEPT ![t] = @ + 1]
  /\ UNCHANGED <<trunkRow, psRow, edit, overlapped>>

RemoveDID(t) ==
  /\ numbers[t] > 0
  /\ numbers' = [numbers EXCEPT ![t] = @ - 1]
  /\ UNCHANGED <<trunkRow, psRow, edit, trunkEdits, overlapped>>

TrunkNext ==
  \/ \E t \in Trunks, e \in Endpoints, p \in Passwords : CreateTrunk(t, e, p)
  \/ \E a \in Admins, t \in Trunks, e \in Endpoints, p \in Passwords \cup {Masked} :
       UpdateTrunkReads(a, t, e, p)
  \/ \E a \in Admins, t \in Trunks : DeleteTrunkReads(a, t)
  \/ \E a \in Admins : UpdateTrunkWrites(a) \/ DeleteTrunkWrites(a)
  \/ \E t \in Trunks : CreateDID(t) \/ RemoveDID(t)

TrunkSpec == TrunkInit /\ [][TrunkNext]_trunkVars

-----------------------------------------------------------------------------

(* The rows, requests and counters have their types, and a DID's trunk     *)
(* exists (the foreign key).                                               *)
TrunkTypeOK ==
  /\ trunkRow \in [Trunks -> TrunkRows \cup {NoTrunk}]
  /\ psRow \in [Endpoints -> Passwords \cup {Missing}]
  /\ numbers \in [Trunks -> 0..1]
  /\ edit \in [Admins -> Edits \cup {NoEdit}]
  /\ trunkEdits \in 0..MaxTrunkEdits
  /\ overlapped \in BOOLEAN
  /\ \A t \in Trunks : numbers[t] > 0 => Present(t)

(* Asterisk dials exactly the trunks of the portal: unless two requests    *)
(* overlapped on a renamed trunk, the ps_* rows are those of the existing  *)
(* trunks' endpoints, with their current passwords (Create, Update and     *)
(* DeleteTrunk, upsertRealtimeTrunk, deleteRealtimeTrunk).                 *)
PeersOfTrunks ==
  ~overlapped =>
    \A e \in Endpoints :
      psRow[e] = IF \E t \in Trunks : Present(t) /\ trunkRow[t].endpoint = e
                   THEN trunkRow[CHOOSE t \in Trunks :
                                   Present(t) /\ trunkRow[t].endpoint = e].password
                   ELSE Missing

(* The tables keep their keys and Asterisk dials exactly the trunks of the *)
(* portal (trunks.go).                                                     *)
TrunkInv == TrunkTypeOK /\ PeersOfTrunks
=============================================================================
