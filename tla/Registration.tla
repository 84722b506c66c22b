---------------------------- MODULE Registration ----------------------------
(***************************************************************************)
(* The DEWA meter registration of internal/registration: the gRPC calls    *)
(* InitiateMeterClaim and ReverifyRegistration write meter_registrations   *)
(* and create link requests at DEWA; a poll loop per link request waits    *)
(* for the decision, writes it to the row and publishes ACTIVATE_METER.    *)
(* DEWA, Postgres and Kafka are external.  Calls and poll loops run        *)
(* concurrently and die with the process.                                  *)
(*                                                                         *)
(* A transient error of a status request changes nothing and is left out.  *)
(***************************************************************************)
EXTENDS Naturals

CONSTANTS
  Regs,        \* registration IDs
  Meters,
  Users,
  Requests,    \* identities of DEWA link requests
  Calls,       \* gRPC calls in flight at the same time
  None,
  MaxReverify, \* bound on ReverifyRegistration calls
  MaxFaults    \* bound on environment faults in one behaviour

\* meter_approval_status
Statuses == {"DEWA_APPROVAL_PENDING", "REJECTED", "APPROVED", "EXPIRED"}

\* What DEWA answers to a status request; "OTHER" is any unexpected status.
Answers == {"PENDING", "APPROVED", "REJECTED", "OTHER"}

\* Rows, link requests, gRPC calls and poll loops.
Row == [meter : Meters, user : Users, status : Statuses]
Request == [reg : Regs, meter : Meters, user : Users, claim : BOOLEAN,
            state : Answers]
Call == [at : {"save", "link", "read", "create", "relink", "resave", "reset"},
         reg : Regs, meter : Meters, user : Users, claim : BOOLEAN,
         req : Requests \cup {None}]
Loop == [at : {"poll", "update", "read", "send", "done"}, status : Statuses,
         bound : BOOLEAN, cancelled : BOOLEAN]

\* No row, request, call or loop is "none"; nor is a request ID.
ASSUME RegistrationAssumption ==
  /\ MaxReverify \in Nat
  /\ MaxFaults \in Nat
  /\ None \notin Row \cup Request \cup Call \cup Loop \cup Requests

VARIABLES
  row,       \* meter_registrations: [Regs -> row or None]
  dewa,      \* link requests at DEWA: [Requests -> request or None]
  call,      \* what each gRPC call is doing, or None
  loop,      \* runPollLoop, one per link request, or None
  activated, \* meters of the ACTIVATE_METER commands published
  reverifies,\* ReverifyRegistration calls left
  faults     \* environment faults left

vars == <<row, dewa, call, loop, activated, reverifies, faults>>

Fault == faults > 0 /\ faults' = faults - 1

Init ==
  /\ row = [r \in Regs |-> None]
  /\ dewa = [q \in Requests |-> None]
  /\ call = [c \in Calls |-> None]
  /\ loop = [q \in Requests |-> None]
  /\ activated = {}
  /\ reverifies = MaxReverify
  /\ faults = MaxFaults

-----------------------------------------------------------------------------
(* Postgres                                                                *)

\* Mutant of SaveMeterRegistration: the upsert overwrites the whole row.
BugUpsertAll(j) ==
  row' = [row EXCEPT ![j.reg] =
            [meter |-> j.meter, user |-> j.user,
             status |-> "DEWA_APPROVAL_PENDING"]]

\* unique_primary_owner_per_meter: every row has the role PRIMARY_OWNER.
MeterTaken(j) == \E r \in Regs : row[r] # None /\ row[r].meter = j.meter

\* ON CONFLICT (registration_id) updates nothing but the status; a meter that
\* another registration holds is a unique violation.
SaveMeterRegistration(j) ==
  IF row[j.reg] # None
  THEN row' = [row EXCEPT ![j.reg].status = "DEWA_APPROVAL_PENDING"]
  ELSE /\ ~MeterTaken(j)
       /\ row' = [row EXCEPT ![j.reg] =
                    [meter |-> j.meter, user |-> j.user,
                     status |-> "DEWA_APPROVAL_PENDING"]]

SaveFails(j) == row[j.reg] = None /\ MeterTaken(j)

UpdateMeterRegistrationStatus(r, s) ==
  row[r] # None /\ row' = [row EXCEPT ![r].status = s]

-----------------------------------------------------------------------------
(* The gRPC calls                                                          *)

At(c, s)   == call[c] # None /\ call[c].at = s
Go(c, s)   == call' = [call EXCEPT ![c].at = s]
Return(c)  == call' = [call EXCEPT ![c] = None]
Start(c, s, r, m, u, claim) ==
  call' = [call EXCEPT ![c] = [at |-> s, reg |-> r, meter |-> m, user |-> u,
                               claim |-> claim, req |-> None]]

\* A registration ID nobody has seen: uuid.New.
NewID(r) ==
  /\ row[r] = None
  /\ \A c \in Calls : call[c] # None => call[c].reg # r
  /\ \A q \in Requests : dewa[q] # None => dewa[q].reg # r

\* A free call and a new ID: which one makes no difference.
Free(c)  == c = CHOOSE d \in Calls : call[d] = None
Fresh(r) == NewID(r) /\ r = CHOOSE n \in Regs : NewID(n)

\* The ID of a claim is known to no caller before its row can be read.
Unseen(r) == \E c \in Calls : At(c, "save") /\ call[c].reg = r

CallFrame == UNCHANGED <<activated, reverifies>>

\* InitiateMeterClaim, then RegisterHouse: save first.
InitiateMeterClaim(c) ==
  /\ call[c] = None /\ Free(c)
  /\ \E r \in Regs, m \in Meters, u \in Users :
       Fresh(r) /\ Start(c, "save", r, m, u, TRUE)
  /\ CallFrame
  /\ UNCHANGED <<row, dewa, loop, faults>>

\* RegisterHouse: an error ends the call, the row written or not.
Save(c) ==
  /\ At(c, "save")
  /\ \/ SaveMeterRegistration(call[c]) /\ Go(c, "link") /\ UNCHANGED faults
     \/ SaveFails(call[c]) /\ Return(c) /\ UNCHANGED <<row, faults>>
     \/ /\ Fault
        /\ SaveMeterRegistration(call[c]) \/ UNCHANGED row
        /\ Return(c)
  /\ CallFrame
  /\ UNCHANGED <<dewa, loop>>

\* ReverifyRegistration for any registration ID, meter and user a caller may
\* name: a missing row, and any error of the read, lead to "create".
ReverifyRegistration(c) ==
  /\ call[c] = None /\ Free(c)
  /\ reverifies > 0
  /\ reverifies' = reverifies - 1
  /\ \E r \in Regs, m \in Meters, u \in Users :
       ~Unseen(r) /\ Start(c, "read", r, m, u, FALSE)
  /\ UNCHANGED <<row, dewa, loop, activated, faults>>

GetByRegistrationID(c) ==
  /\ At(c, "read")
  /\ \/ Go(c, IF row[call[c].reg] = None THEN "create" ELSE "relink")
        /\ UNCHANGED faults
     \/ Fault /\ Go(c, "create")
  /\ CallFrame
  /\ UNCHANGED <<row, dewa, loop>>

\* The link request as DEWA sees it.
CreateAtDEWA(c, q) ==
  /\ dewa[q] = None /\ q = CHOOSE n \in Requests : dewa[n] = None
  /\ dewa' = [dewa EXCEPT ![q] =
                [reg |-> call[c].reg, meter |-> call[c].meter,
                 user |-> call[c].user, claim |-> call[c].claim,
                 state |-> "PENDING"]]

\* runPollLoop, if DEWA's answer named the request; only the loops of a
\* reverification have a context that is cancelled as they are started.
StartLoop(q, bound) ==
  loop' = IF q = None THEN loop
          ELSE [loop EXCEPT ![q] = [at |-> "poll", status |-> "REJECTED",
                                    bound |-> bound, cancelled |-> FALSE]]

\* RegisterHouse goes on to poll; ReverifyRegistration first writes the row.
CreateLinkRequest(c) ==
  /\ call[c] # None
  /\ call[c].at \in {"link", "create", "relink"}
  /\ \E q \in Requests : \E id \in {q, None} :
       /\ CreateAtDEWA(c, q)
       /\ IF call[c].at = "link"
          THEN StartLoop(id, FALSE) /\ Return(c)
          ELSE /\ call' = [call EXCEPT
                    ![c].at = IF call[c].at = "create" THEN "resave" ELSE "reset",
                    ![c].req = id]
               /\ UNCHANGED loop
  /\ CallFrame
  /\ UNCHANGED <<row, faults>>

\* An HTTP error or a lost answer: the request may exist, no one polls it.
LinkError(c) ==
  /\ call[c] # None
  /\ call[c].at \in {"link", "create", "relink"}
  /\ Fault
  /\ (\E q \in Requests : CreateAtDEWA(c, q)) \/ UNCHANGED dewa
  /\ Return(c)
  /\ CallFrame
  /\ UNCHANGED <<row, loop>>

\* The writes of ReverifyRegistration, whose errors are ignored.
Rewrite(c) ==
  /\ call[c] # None
  /\ \/ call[c].at = "resave" /\ SaveMeterRegistration(call[c]) /\ UNCHANGED faults
     \/ call[c].at = "resave" /\ SaveFails(call[c]) /\ UNCHANGED <<row, faults>>
     \/ /\ call[c].at = "reset"
        /\ UpdateMeterRegistrationStatus(call[c].reg, "DEWA_APPROVAL_PENDING")
        /\ UNCHANGED faults
     \/ call[c].at \in {"resave", "reset"} /\ Fault /\ UNCHANGED row
  /\ StartLoop(call[c].req, TRUE)
  /\ Return(c)
  /\ CallFrame
  /\ UNCHANGED dewa

-----------------------------------------------------------------------------
(* runPollLoop                                                             *)

LoopAt(q, s) == loop[q] # None /\ loop[q].at = s
Stop(q)      == loop' = [loop EXCEPT ![q].at = "done"]
Decided(q, s) ==
  loop' = [loop EXCEPT ![q].at = "update", ![q].status = s]

LoopFrame == UNCHANGED <<dewa, call, reverifies>>

\* Mutant of CancelLoop: RegisterHouse starts its loop the same way.
BugCancelAll(q) ==
  /\ loop[q] # None
  /\ ~loop[q].cancelled
  /\ loop' = [loop EXCEPT ![q].cancelled = TRUE]
  /\ LoopFrame
  /\ UNCHANGED <<row, activated, faults>>

\* The deferred cancel of the goroutine that started the loop.
CancelLoop(q) ==
  /\ loop[q] # None
  /\ loop[q].bound
  /\ ~loop[q].cancelled
  /\ loop' = [loop EXCEPT ![q].cancelled = TRUE]
  /\ LoopFrame
  /\ UNCHANGED <<row, activated, faults>>

\* Mutant of PollLinkRequest: a request still in progress counts as approved.
BugPollPending(q) ==
  /\ LoopAt(q, "poll")
  /\ ~loop[q].cancelled
  /\ Decided(q, IF dewa[q].state \in {"PENDING", "APPROVED"}
                THEN "APPROVED" ELSE "REJECTED")
  /\ LoopFrame
  /\ UNCHANGED <<row, activated, faults>>

\* A decision, or a status the poller does not know, which ends as rejected.
PollLinkRequest(q) ==
  /\ LoopAt(q, "poll")
  /\ ~loop[q].cancelled
  /\ dewa[q].state # "PENDING"
  /\ Decided(q, IF dewa[q].state = "APPROVED" THEN "APPROVED" ELSE "REJECTED")
  /\ LoopFrame
  /\ UNCHANGED <<row, activated, faults>>

\* pollingError: the poll timeout, or the cancelled context.
PollTimesOut(q) ==
  /\ LoopAt(q, "poll")
  /\ ~loop[q].cancelled
  /\ Decided(q, "EXPIRED")
  /\ LoopFrame
  /\ UNCHANGED <<row, activated, faults>>

PollStops(q) ==
  /\ LoopAt(q, "poll")
  /\ loop[q].cancelled
  /\ Decided(q, "REJECTED")
  /\ LoopFrame
  /\ UNCHANGED <<row, activated, faults>>

\* The decision is written; only an approval goes on.
UpdateStatus(q) ==
  /\ LoopAt(q, "update")
  /\ ~loop[q].cancelled
  /\ UpdateMeterRegistrationStatus(dewa[q].reg, loop[q].status)
  /\ IF loop[q].status = "APPROVED"
     THEN loop' = [loop EXCEPT ![q].at = "read"] ELSE Stop(q)
  /\ LoopFrame
  /\ UNCHANGED <<activated, faults>>

\* No row, a cancelled context, or (a fault) an error after which the row may
\* have been written: logged, not retried.
UpdateFails(q) ==
  /\ LoopAt(q, "update")
  /\ \/ (row[dewa[q].reg] = None \/ loop[q].cancelled) /\ UNCHANGED <<row, faults>>
     \/ /\ Fault
        /\ UpdateMeterRegistrationStatus(dewa[q].reg, loop[q].status)
             \/ UNCHANGED row
  /\ Stop(q)
  /\ LoopFrame
  /\ UNCHANGED activated

\* GetByRegistrationID, then SendActivateMeter for the meter of the row.
ReadRow(q) ==
  /\ LoopAt(q, "read")
  /\ ~loop[q].cancelled
  /\ loop' = [loop EXCEPT ![q].at = "send"]
  /\ LoopFrame
  /\ UNCHANGED <<row, activated, faults>>

SendActivateMeter(q) ==
  /\ LoopAt(q, "send")
  /\ ~loop[q].cancelled
  /\ activated' = activated \cup {row[dewa[q].reg].meter}
  /\ Stop(q)
  /\ LoopFrame
  /\ UNCHANGED <<row, faults>>

\* An error of either, the command published or not: logged, not retried.
ActivationFails(q) ==
  /\ loop[q] # None
  /\ loop[q].at \in {"read", "send"}
  /\ IF loop[q].cancelled THEN UNCHANGED faults ELSE Fault
  /\ \/ UNCHANGED activated
     \/ /\ loop[q].at = "send"
        /\ activated' = activated \cup {row[dewa[q].reg].meter}
  /\ Stop(q)
  /\ LoopFrame
  /\ UNCHANGED row

LoopStep(q) ==
  \/ PollLinkRequest(q) \/ PollTimesOut(q) \/ PollStops(q) \/ UpdateStatus(q)
  \/ UpdateFails(q) \/ ReadRow(q) \/ SendActivateMeter(q)
  \/ ActivationFails(q)

-----------------------------------------------------------------------------
(* DEWA and the process                                                    *)

DEWADecides(q) ==
  /\ dewa[q] # None
  /\ dewa[q].state = "PENDING"
  /\ \E s \in Answers \ {"PENDING"} : dewa' = [dewa EXCEPT ![q].state = s]
  /\ UNCHANGED <<row, call, loop, activated, reverifies, faults>>

\* Calls and poll loops are lost; nothing starts the loops again.
Restart ==
  /\ Fault
  /\ call' = [c \in Calls |-> None]
  /\ loop' = [q \in Requests |-> None]
  /\ UNCHANGED <<row, dewa, activated, reverifies>>

CallStep(c) ==
  \/ InitiateMeterClaim(c) \/ Save(c) \/ ReverifyRegistration(c)
  \/ GetByRegistrationID(c) \/ CreateLinkRequest(c) \/ LinkError(c)
  \/ Rewrite(c)

Next ==
  \/ \E c \in Calls : CallStep(c)
  \/ \E q \in Requests : LoopStep(q) \/ CancelLoop(q) \/ DEWADecides(q)
  \/ Restart

Spec == Init /\ [][Next]_vars

\* The poll timeout fires, a running goroutine makes progress, and DEWA
\* decides in the end.  Nothing forces a call, a fault or a restart.
FairSpec ==
  /\ Spec
  /\ \A q \in Requests : /\ WF_vars(LoopStep(q))
                         /\ WF_vars(CancelLoop(q))
                         /\ WF_vars(DEWADecides(q))

-----------------------------------------------------------------------------
(* Properties                                                              *)

\* The state components keep their types.
TypeOK ==
  /\ row \in [Regs -> Row \cup {None}]
  /\ dewa \in [Requests -> Request \cup {None}]
  /\ call \in [Calls -> Call \cup {None}]
  /\ loop \in [Requests -> Loop \cup {None}]
  /\ activated \in SUBSET Meters
  /\ reverifies \in 0..MaxReverify
  /\ faults \in 0..MaxFaults

\* Link request q belongs to registration r and DEWA approved it.
ApprovedRequest(q, r) ==
  dewa[q] # None /\ dewa[q].reg = r /\ dewa[q].state = "APPROVED"

\* Link request q asks for the meter and the user of row r.
AsksFor(q, r) == dewa[q].meter = row[r].meter /\ dewa[q].user = row[r].user

\* DEWA approved the meter of row r for the user of row r.
Vouched(r) == \E q \in Requests : ApprovedRequest(q, r) /\ AsksFor(q, r)

\* DEWA approved a reverification of r that named another meter or user, which
\* the code does not compare with the row.
Misnamed(r) ==
  \E q \in Requests :
    ApprovedRequest(q, r) /\ ~AsksFor(q, r) /\ ~dewa[q].claim

\* What may approve a registration and activate its meter.
Cleared(r) == Vouched(r) \/ Misnamed(r)

\* A registration is APPROVED only after DEWA approved its own meter for its
\* own user, whatever timeouts, cancelled loops, unexpected answers and
\* concurrent reverifications do to its status.  The one exception is a
\* caller who reverifies it under another meter or user, which DEWA approves.
ApprovedByDEWA ==
  \A r \in Regs : row[r] # None /\ row[r].status = "APPROVED" => Cleared(r)

\* ACTIVATE_METER is published only for the meter of a registration that DEWA
\* approved for its user, with the same exception.
ActivatedApproved ==
  \A m \in activated :
    \E r \in Regs : row[r] # None /\ row[r].meter = m /\ Cleared(r)

\* The owner of a meter never changes: neither a second claim, nor a
\* reverification that names another meter or user, nor one whose read of the
\* row failed rebinds a registration.
OwnerNeverMoves ==
  [][\A r \in Regs : row[r] # None =>
       /\ row'[r] # None
       /\ row'[r].meter = row[r].meter
       /\ row'[r].user = row[r].user]_vars

\* A link request of a claim has its row, with the same meter and user: the
\* registration is saved before the request is sent, so a lost answer leaves
\* a pending row to reconcile and never a request nobody knows of.
ClaimSaved ==
  \A q \in Requests : dewa[q] # None /\ dewa[q].claim =>
    LET r == row[dewa[q].reg] IN
    r # None /\ r.meter = dewa[q].meter /\ r.user = dewa[q].user

\* The state is well typed and the three records of a claim agree: what is
\* activated or APPROVED was approved by DEWA for that meter and user, or was
\* reverified under others; and what DEWA was asked for is saved.
ClaimInv == TypeOK /\ ApprovedByDEWA /\ ActivatedApproved /\ ClaimSaved

\* The row of link request q has left the pending state.
RowDecided(q) ==
  /\ dewa[q] # None
  /\ row[dewa[q].reg] # None
  /\ row[dewa[q].reg].status # "DEWA_APPROVAL_PENDING"

\* A claim that is being polled does not stay pending, unless a fault (a lost
\* update, a restart) comes in: DEWA's decision or the poll timeout reaches
\* the row, whatever a reverification does meanwhile.
ClaimDecided ==
  \A q \in Requests :
    (loop[q] # None /\ ~loop[q].bound /\ loop[q].at = "poll") ~>
      (RowDecided(q) \/ faults < MaxFaults)

\* Expected to fail.  The runbook: "A separate polling workflow checks the
\* approval state and updates the local record".  The loop of a
\* reverification is cancelled as it starts, and its row stays pending.
ReverifyDecided ==
  \A q \in Requests :
    (/\ loop[q] # None
     /\ loop[q].bound
     /\ loop[q].at = "poll"
     /\ row[dewa[q].reg] # None) ~> RowDecided(q)
=============================================================================
