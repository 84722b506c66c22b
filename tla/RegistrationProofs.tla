------------------------- MODULE RegistrationProofs -------------------------
(***************************************************************************)
(* Proofs about Registration for any registrations, meters, users, link    *)
(* requests, calls in flight, reverifications and faults.                  *)
(***************************************************************************)
EXTENDS Registration, TLAPS

\* A claim that has not saved yet has its registration ID to itself; one that
\* has saved finds its row; a request ID a call holds exists at DEWA.
CallInv ==
  \A c \in Calls : call[c] # None =>
    /\ call[c].claim => call[c].at \in {"save", "link"}
    /\ call[c].at = "save" =>
         /\ row[call[c].reg] = None
         /\ \A d \in Calls \ {c} : call[d] # None => call[d].reg # call[c].reg
    /\ (call[c].at = "link" /\ call[c].claim) =>
         /\ row[call[c].reg] # None
         /\ row[call[c].reg].meter = call[c].meter
         /\ row[call[c].reg].user = call[c].user
    /\ call[c].req # None => dewa[call[c].req] # None

\* A poll loop has its request, and an approval it carries is DEWA's; past the
\* update its registration has a row.
LoopInv ==
  \A q \in Requests : loop[q] # None =>
    /\ dewa[q] # None
    /\ (loop[q].at = "update" /\ loop[q].status = "APPROVED") =>
         dewa[q].state = "APPROVED"
    /\ loop[q].at \in {"read", "send"} =>
         dewa[q].state = "APPROVED" /\ row[dewa[q].reg] # None

\* The inductive invariant.
IInv == ClaimInv /\ CallInv /\ LoopInv

-----------------------------------------------------------------------------
(* Postgres and DEWA only ever gain.                                       *)

\* A row that is there stays, with its meter and its user.
RowsKept ==
  \A r \in Regs : row[r] # None =>
    row'[r] # None /\ row'[r].meter = row[r].meter /\ row'[r].user = row[r].user

\* A link request stays what it is, and what is approved stays approved.
RequestsKept ==
  \A q \in Requests : dewa[q] # None =>
    /\ dewa'[q] # None
    /\ dewa'[q].reg = dewa[q].reg
    /\ dewa'[q].meter = dewa[q].meter
    /\ dewa'[q].user = dewa[q].user
    /\ dewa'[q].claim = dewa[q].claim
    /\ dewa[q].state = "APPROVED" => dewa'[q].state = "APPROVED"

\* A loop is left alone, dropped, or starts to poll a request that exists.
LoopsFollow ==
  \A q \in Requests : \/ loop'[q] = loop[q]
                      \/ loop'[q] = None
                      \/ dewa'[q] # None /\ loop'[q].at = "poll"

\* A fault uses up one of the budget.
LEMMA FaultType ==
  ASSUME TypeOK, Fault
  PROVE  faults' \in 0..MaxFaults
BY RegistrationAssumption DEF TypeOK, Fault, RegistrationAssumption

\* SaveMeterRegistration writes a typed row, creates or resets it to pending,
\* and leaves the other rows alone.
LEMMA SaveEffect ==
  ASSUME TypeOK, NEW j \in Call, SaveMeterRegistration(j)
  PROVE  /\ row' \in [Regs -> Row \cup {None}]
         /\ RowsKept
         /\ \A r \in Regs : row'[r] # row[r] =>
              r = j.reg /\ row'[r].status = "DEWA_APPROVAL_PENDING"
         /\ row'[j.reg] # None
         /\ row[j.reg] = None =>
              row'[j.reg].meter = j.meter /\ row'[j.reg].user = j.user
BY RegistrationAssumption
   DEF TypeOK, SaveMeterRegistration, RowsKept, RegistrationAssumption, Row, Call, Statuses

\* UpdateMeterRegistrationStatus changes the status of one row.
LEMMA UpdateEffect ==
  ASSUME TypeOK, NEW r \in Regs, NEW s \in Statuses, UpdateMeterRegistrationStatus(r, s)
  PROVE  /\ row' \in [Regs -> Row \cup {None}]
         /\ RowsKept
         /\ \A t \in Regs : row'[t] # row[t] => t = r /\ row'[t].status = s
         /\ row[r] # None
BY RegistrationAssumption
   DEF TypeOK, UpdateMeterRegistrationStatus, RowsKept, RegistrationAssumption, Row

\* CreateAtDEWA adds a pending request with the fields of the call.
LEMMA CreateEffect ==
  ASSUME TypeOK, NEW c \in Calls, call[c] # None, NEW q \in Requests, CreateAtDEWA(c, q)
  PROVE  /\ dewa' \in [Requests -> Request \cup {None}]
         /\ RequestsKept
         /\ dewa[q] = None /\ dewa'[q] # None
         /\ \A p \in Requests \ {q} : dewa'[p] = dewa[p]
         /\ dewa'[q] = [reg |-> call[c].reg, meter |-> call[c].meter,
                        user |-> call[c].user, claim |-> call[c].claim,
                        state |-> "PENDING"]
BY RegistrationAssumption
   DEF TypeOK, CreateAtDEWA, RequestsKept, RegistrationAssumption, Request, Call, Answers

-----------------------------------------------------------------------------
(* What a step does to the parts of the invariant that are about one call, *)
(* one loop or the rows, given what it does to the tables.                 *)

\* An approved request of a row clears it: it asks for the meter and user of
\* the row, or it is no claim's, whose row has the meter and user it asks for.
LEMMA ApprovalClears ==
  ASSUME ClaimSaved, NEW r \in Regs, NEW q \in Requests, ApprovedRequest(q, r)
  PROVE  Cleared(r)
BY DEF ClaimSaved, ApprovedRequest, Cleared, Vouched, Misnamed, AsksFor

\* A row stays cleared while it keeps its meter and user and the requests stay
\* what they are.
LEMMA ClearedKept ==
  ASSUME RowsKept, RequestsKept, NEW r \in Regs, row[r] # None, Cleared(r)
  PROVE  Cleared(r)'
<1>1. PICK q \in Requests :
        ApprovedRequest(q, r) /\ (AsksFor(q, r) \/ (~AsksFor(q, r) /\ ~dewa[q].claim))
  BY DEF Cleared, Vouched, Misnamed
<1>2. ApprovedRequest(q, r)'
  BY <1>1 DEF ApprovedRequest, RequestsKept
<1>3. /\ AsksFor(q, r)' <=> AsksFor(q, r)
      /\ dewa'[q].claim = dewa[q].claim
  BY <1>1 DEF ApprovedRequest, AsksFor, RowsKept, RequestsKept
<1>4. QED
  BY <1>1, <1>2, <1>3 DEF Cleared, Vouched, Misnamed

\* Approvals and activations survive a step that keeps rows and requests and
\* approves or activates only what is cleared.
LEMMA ApprovalsKept ==
  ASSUME ApprovedByDEWA, ActivatedApproved, RowsKept, RequestsKept,
         \A r \in Regs : (row'[r] # row[r] /\ row'[r].status = "APPROVED") =>
           row[r] # None /\ Cleared(r),
         \A m \in activated' \ activated :
           \E r \in Regs : row[r] # None /\ row[r].meter = m /\ Cleared(r)
  PROVE  ApprovedByDEWA' /\ ActivatedApproved'
<1>1. \A r \in Regs : (row[r] # None /\ Cleared(r)) => Cleared(r)'
  BY ClearedKept
<1>2. ApprovedByDEWA'
  BY <1>1 DEF ApprovedByDEWA
<1>3. ActivatedApproved'
  BY <1>1 DEF ActivatedApproved, RowsKept
<1>4. QED
  BY <1>2, <1>3

\* The loops survive a step that keeps rows and requests and leaves them alone,
\* except for loops that are dropped or start to poll an existing request.
LEMMA LoopsKept ==
  ASSUME LoopInv, RowsKept, RequestsKept, TypeOK, LoopsFollow
  PROVE  LoopInv'
<1>1. SUFFICES ASSUME NEW q \in Requests, loop'[q] # None
               PROVE  /\ dewa'[q] # None
                      /\ (loop'[q].at = "update" /\ loop'[q].status = "APPROVED") =>
                           dewa'[q].state = "APPROVED"
                      /\ loop'[q].at \in {"read", "send"} =>
                           dewa'[q].state = "APPROVED" /\ row'[dewa'[q].reg] # None
  BY DEF LoopInv
<1>2. CASE loop'[q] = loop[q]
  BY <1>1, <1>2 DEF LoopInv, RowsKept, RequestsKept, TypeOK, Request
<1>3. CASE dewa'[q] # None /\ loop'[q].at = "poll"
  BY <1>3
<1>4. QED
  BY <1>1, <1>2, <1>3 DEF LoopsFollow

\* The claims survive a step that keeps rows and creates no request of a claim.
LEMMA ClaimsKept ==
  ASSUME ClaimSaved, RowsKept, RequestsKept, TypeOK,
         \A q \in Requests : (dewa[q] = None /\ dewa'[q] # None) =>
           (dewa'[q].claim => /\ row'[dewa'[q].reg] # None
                             /\ row'[dewa'[q].reg].meter = dewa'[q].meter
                             /\ row'[dewa'[q].reg].user = dewa'[q].user)
  PROVE  ClaimSaved'
BY DEF ClaimSaved, RowsKept, RequestsKept, TypeOK, Request

\* The calls survive a step that keeps rows and requests, saves no row of a
\* claim that is still saving, and only ends calls.
LEMMA CallsKept ==
  ASSUME CallInv, RowsKept, RequestsKept, TypeOK,
         \A c \in Calls : call'[c] = call[c] \/ call'[c] = None,
         \A c \in Calls : (call'[c] # None /\ call[c].at = "save") =>
           row'[call[c].reg] = row[call[c].reg]
  PROVE  CallInv'
<1>1. SUFFICES ASSUME NEW c \in Calls, call'[c] # None
               PROVE  /\ call[c].claim => call[c].at \in {"save", "link"}
                      /\ call[c].at = "save" =>
                           /\ row'[call[c].reg] = None
                           /\ \A d \in Calls \ {c} :
                                call'[d] # None => call'[d].reg # call[c].reg
                      /\ (call[c].at = "link" /\ call[c].claim) =>
                           /\ row'[call[c].reg] # None
                           /\ row'[call[c].reg].meter = call[c].meter
                           /\ row'[call[c].reg].user = call[c].user
                      /\ call[c].req # None => dewa'[call[c].req] # None
  BY DEF CallInv
<1>2. call[c] # None /\ call[c] \in Call
  BY <1>1 DEF TypeOK
<1>3. QED
  BY <1>1, <1>2 DEF CallInv, RowsKept, RequestsKept, Call

-----------------------------------------------------------------------------
(* The gRPC calls.                                                         *)

\* A step that leaves the tables alone keeps them.
LEMMA SameTables ==
  ASSUME UNCHANGED <<row, dewa>>
  PROVE  RowsKept /\ RequestsKept
BY DEF RowsKept, RequestsKept

\* A call that begins: a claim with an ID of its own, or a reverification of
\* an ID that no saving claim has.
LEMMA BeginInv ==
  ASSUME IInv, NEW c \in Calls, InitiateMeterClaim(c) \/ ReverifyRegistration(c)
  PROVE  IInv'
<1> USE RegistrationAssumption DEF RegistrationAssumption
<1>1. UNCHANGED <<row, dewa, loop, activated, faults>> /\ call[c] = None
  BY DEF InitiateMeterClaim, ReverifyRegistration, CallFrame
<1>2. PICK s \in {"save", "read"}, r \in Regs, m \in Meters, u \in Users,
           claim \in BOOLEAN :
        /\ Start(c, s, r, m, u, claim)
        /\ claim <=> s = "save"
        /\ s = "save" => NewID(r)
        /\ s = "read" => ~Unseen(r)
  BY DEF InitiateMeterClaim, ReverifyRegistration, Fresh
<1>3. /\ call' \in [Calls -> Call \cup {None}]
      /\ \A d \in Calls \ {c} : call'[d] = call[d]
      /\ call'[c] = [at |-> s, reg |-> r, meter |-> m, user |-> u,
                     claim |-> claim, req |-> None]
  BY <1>2 DEF Start, IInv, ClaimInv, TypeOK, Call
<1>4. reverifies' \in 0..MaxReverify
  <2>1. reverifies \in 0..MaxReverify
    BY DEF IInv, ClaimInv, TypeOK
  <2>2. reverifies' = reverifies \/ (reverifies > 0 /\ reverifies' = reverifies - 1)
    BY DEF InitiateMeterClaim, ReverifyRegistration, CallFrame
  <2>3. QED
    BY <2>1, <2>2
<1>5. TypeOK'
  BY <1>1, <1>3, <1>4 DEF IInv, ClaimInv, TypeOK
<1>6. ApprovedByDEWA' /\ ActivatedApproved' /\ ClaimSaved' /\ LoopInv'
  BY <1>1 DEF IInv, ClaimInv, ApprovedByDEWA, ActivatedApproved, ClaimSaved, LoopInv, Cleared,
     Vouched, Misnamed, ApprovedRequest, AsksFor
<1>7. CallInv'
  <2>1. SUFFICES ASSUME NEW d \in Calls, call'[d] # None
                 PROVE  /\ call'[d].claim => call'[d].at \in {"save", "link"}
                        /\ call'[d].at = "save" =>
                             /\ row[call'[d].reg] = None
                             /\ \A e \in Calls \ {d} : call'[e] # None => call'[e].reg # call'[d].reg
                        /\ (call'[d].at = "link" /\ call'[d].claim) =>
                             /\ row[call'[d].reg] # None
                             /\ row[call'[d].reg].meter = call'[d].meter
                             /\ row[call'[d].reg].user = call'[d].user
                        /\ call'[d].req # None => dewa[call'[d].req] # None
    BY <1>1 DEF CallInv
  <2>2. CASE d = c
    <3>1. s = "save" => row[r] = None /\ \A e \in Calls : call[e] # None => call[e].reg # r
      BY <1>2 DEF NewID
    <3>2. QED
      BY <1>1, <1>2, <1>3, <2>2, <3>1
  <2>3. CASE d # c
    <3>1. call'[d] = call[d] /\ call[d] # None
      BY <1>3, <2>1, <2>3
    <3>2. call[d].at = "save" => call[d].reg # r
      BY <1>2, <3>1 DEF NewID, Unseen, At
    <3>3. QED
      BY <1>3, <3>1, <3>2 DEF IInv, CallInv
  <2>4. QED
    BY <2>2, <2>3
<1>8. QED
  BY <1>5, <1>6, <1>7 DEF IInv, ClaimInv

\* Going on with a call: it stays what it was, at another point.
LEMMA GoEffect ==
  ASSUME TypeOK, NEW c \in Calls, call[c] # None,
         NEW s \in {"link", "create", "relink"}, Go(c, s)
  PROVE  /\ call' \in [Calls -> Call \cup {None}]
         /\ \A d \in Calls \ {c} : call'[d] = call[d]
         /\ call'[c] = [call[c] EXCEPT !.at = s]
         /\ call'[c] # None
         /\ call'[c].at = s
         /\ call'[c].reg = call[c].reg
         /\ call'[c].meter = call[c].meter
         /\ call'[c].user = call[c].user
         /\ call'[c].claim = call[c].claim
         /\ call'[c].req = call[c].req
BY RegistrationAssumption DEF TypeOK, Go, Call, RegistrationAssumption

\* Returning from a call drops it.
LEMMA ReturnEffect ==
  ASSUME TypeOK, NEW c \in Calls, Return(c)
  PROVE  /\ call' \in [Calls -> Call \cup {None}]
         /\ call'[c] = None
         /\ \A d \in Calls \ {c} : call'[d] = call[d]
BY DEF TypeOK, Return

\* Saving a registration: the row of a claim is its own.
LEMMA SaveInv ==
  ASSUME IInv, NEW c \in Calls, Save(c)
  PROVE  IInv'
<1>1. /\ UNCHANGED <<dewa, loop, activated, reverifies>>
      /\ call[c] # None /\ call[c].at = "save" /\ call[c] \in Call /\ TypeOK
  BY DEF Save, CallFrame, At, IInv, ClaimInv, TypeOK
<1>2. faults' \in 0..MaxFaults
  BY FaultType, <1>1 DEF Save, TypeOK
<1>3. SaveMeterRegistration(call[c]) \/ UNCHANGED row
  BY DEF Save
<1>4. /\ row' \in [Regs -> Row \cup {None}]
      /\ RowsKept
      /\ \A r \in Regs : row'[r] # row[r] =>
           r = call[c].reg /\ row'[r].status = "DEWA_APPROVAL_PENDING"
  <2>1. CASE SaveMeterRegistration(call[c])
    BY <1>1, <2>1, SaveEffect
  <2>2. CASE UNCHANGED row
    BY <1>1, <2>2 DEF TypeOK, RowsKept
  <2>3. QED
    BY <1>3, <2>1, <2>2
<1>5. RequestsKept
  BY <1>1 DEF RequestsKept
<1>6. call' \in [Calls -> Call \cup {None}]
  BY <1>1, GoEffect, ReturnEffect DEF Save
<1>7. TypeOK'
  BY <1>1, <1>2, <1>4, <1>6 DEF TypeOK
<1>8. ApprovedByDEWA' /\ ActivatedApproved'
  <2>1. \A r \in Regs : ~(row'[r] # row[r] /\ row'[r].status = "APPROVED")
    BY <1>4
  <2>2. QED
    BY <1>1, <1>4, <1>5, <2>1, ApprovalsKept DEF IInv, ClaimInv
<1>9. ClaimSaved' /\ LoopInv'
  <2>1. ClaimSaved'
    BY <1>1, <1>4, <1>5, ClaimsKept DEF IInv, ClaimInv
  <2>2. LoopsFollow
    BY <1>1 DEF LoopsFollow
  <2>3. LoopInv'
    BY <1>1, <1>4, <1>5, <2>2, LoopsKept DEF IInv
  <2>4. QED
    BY <2>1, <2>3
<1>10. CallInv'
  <2>1. \A d \in Calls \ {c} : call[d] # None => call[d].reg # call[c].reg
    BY <1>1 DEF IInv, CallInv
  <2>2. CASE Return(c)
    <3>1. \A d \in Calls : (call'[d] # None /\ call[d].at = "save") =>
            row'[call[d].reg] = row[call[d].reg]
      BY <1>1, <1>4, <2>1, <2>2, ReturnEffect DEF TypeOK, Call
    <3>2. QED
      BY <1>1, <1>4, <1>5, <2>2, <3>1, ReturnEffect, CallsKept DEF IInv
  <2>3. CASE SaveMeterRegistration(call[c]) /\ Go(c, "link")
    <3>1. row[call[c].reg] = None
      BY <1>1 DEF IInv, CallInv
    <3>2. /\ row'[call[c].reg] # None
          /\ row'[call[c].reg].meter = call[c].meter
          /\ row'[call[c].reg].user = call[c].user
      BY <1>1, <2>3, <3>1, SaveEffect
    <3>3. SUFFICES ASSUME NEW d \in Calls, call'[d] # None
                   PROVE  /\ call'[d].claim => call'[d].at \in {"save", "link"}
                          /\ call'[d].at = "save" =>
                               /\ row'[call'[d].reg] = None
                               /\ \A e \in Calls \ {d} :
                                    call'[e] # None => call'[e].reg # call'[d].reg
                          /\ (call'[d].at = "link" /\ call'[d].claim) =>
                               /\ row'[call'[d].reg] # None
                               /\ row'[call'[d].reg].meter = call'[d].meter
                               /\ row'[call'[d].reg].user = call'[d].user
                          /\ call'[d].req # None => dewa[call'[d].req] # None
      BY <1>1 DEF CallInv
    <3>4. CASE d = c
      BY <1>1, <2>3, <3>2, <3>4, GoEffect DEF IInv, CallInv
    <3>5. CASE d # c
      <4>1. call'[d] = call[d]
        BY <1>1, <2>3, <3>5, GoEffect
      <4>5. call[d] # None /\ call[d].reg # call[c].reg /\ call[d] \in Call
        BY <1>1, <2>1, <3>3, <3>5, <4>1 DEF TypeOK
      <4>2. row'[call[d].reg] = row[call[d].reg]
        BY <1>4, <4>5 DEF Call
      <4>3. \A e \in Calls : call'[e] # None => call[e] # None /\ call'[e].reg = call[e].reg
        BY <1>1, <2>3, GoEffect
      <4>4. QED
        BY <4>1, <4>2, <4>3, <4>5 DEF IInv, CallInv
    <3>6. QED
      BY <3>4, <3>5
  <2>4. QED
    BY <2>2, <2>3 DEF Save
<1>11. QED
  BY <1>7, <1>8, <1>9, <1>10 DEF IInv, ClaimInv

\* Reading the row of a reverification.
LEMMA ReadInv ==
  ASSUME IInv, NEW c \in Calls, GetByRegistrationID(c)
  PROVE  IInv'
<1>1. /\ UNCHANGED <<row, dewa, loop, activated, reverifies>>
      /\ call[c] # None /\ call[c].at = "read" /\ call[c] \in Call /\ TypeOK
  BY DEF GetByRegistrationID, CallFrame, At, IInv, ClaimInv, TypeOK
<1>2. PICK s \in {"create", "relink"} : Go(c, s)
  BY DEF GetByRegistrationID
<1>3. faults' \in 0..MaxFaults
  BY FaultType, <1>1 DEF GetByRegistrationID, TypeOK
<1>4. TypeOK'
  BY <1>1, <1>2, <1>3, GoEffect DEF TypeOK
<1>5. ApprovedByDEWA' /\ ActivatedApproved' /\ ClaimSaved' /\ LoopInv'
  BY <1>1 DEF IInv, ClaimInv, ApprovedByDEWA, ActivatedApproved, ClaimSaved, LoopInv, Cleared,
     Vouched, Misnamed, ApprovedRequest, AsksFor
<1>6. CallInv'
  <2>1. ~call[c].claim
    BY <1>1 DEF IInv, CallInv
  <2>2. /\ \A d \in Calls \ {c} : call'[d] = call[d]
        /\ call'[c] # None /\ call'[c].at = s
        /\ call'[c].reg = call[c].reg
        /\ call'[c].claim = call[c].claim
        /\ call'[c].req = call[c].req
    BY <1>1, <1>2, GoEffect
  <2>3. QED
    BY <1>1, <2>1, <2>2 DEF IInv, CallInv
<1>7. QED
  BY <1>4, <1>5, <1>6 DEF IInv, ClaimInv

\* A loop that starts polls an existing request.
LEMMA StartLoopEffect ==
  ASSUME TypeOK, NEW q \in Requests \cup {None}, NEW b \in BOOLEAN, StartLoop(q, b)
  PROVE  /\ loop' \in [Requests -> Loop \cup {None}]
         /\ \A p \in Requests : \/ loop'[p] = loop[p]
                                \/ p = q /\ loop'[p].at = "poll"
<1>1. CASE q = None
  BY <1>1 DEF StartLoop, TypeOK
<1>2. CASE q # None
  <2>1. loop' = [loop EXCEPT ![q] = [at |-> "poll", status |-> "REJECTED",
                                     bound |-> b, cancelled |-> FALSE]]
    BY <1>2 DEF StartLoop
  <2>2. [at |-> "poll", status |-> "REJECTED", bound |-> b, cancelled |-> FALSE] \in Loop
    BY DEF Loop, Statuses
  <2>3. QED
    BY <1>2, <2>1, <2>2 DEF TypeOK
<1>3. QED
  BY <1>1, <1>2

\* Creating a link request, whether its ID comes back or not.
LEMMA CreateLinkInv ==
  ASSUME IInv, NEW c \in Calls, CreateLinkRequest(c)
  PROVE  IInv'
<1>1. /\ UNCHANGED <<row, faults, activated, reverifies>>
      /\ call[c] # None /\ call[c] \in Call /\ TypeOK
      /\ call[c].at \in {"link", "create", "relink"}
  BY DEF CreateLinkRequest, CallFrame, IInv, ClaimInv, TypeOK
<1>2. PICK q \in Requests, id \in Requests \cup {None} :
        /\ id \in {q, None}
        /\ CreateAtDEWA(c, q)
        /\ IF call[c].at = "link"
           THEN StartLoop(id, FALSE) /\ Return(c)
           ELSE /\ call' = [call EXCEPT
                     ![c].at = IF call[c].at = "create" THEN "resave" ELSE "reset",
                     ![c].req = id]
                /\ UNCHANGED loop
  BY DEF CreateLinkRequest
<1>3. /\ dewa' \in [Requests -> Request \cup {None}]
      /\ RequestsKept
      /\ dewa'[q] # None
      /\ \A p \in Requests \ {q} : dewa'[p] = dewa[p]
      /\ dewa'[q] = [reg |-> call[c].reg, meter |-> call[c].meter,
                     user |-> call[c].user, claim |-> call[c].claim,
                     state |-> "PENDING"]
  BY <1>1, <1>2, CreateEffect
<1>4. RowsKept
  BY <1>1 DEF RowsKept
<1>5. \/ Return(c) /\ call'[c] = None
      \/ /\ call[c].at # "link"
         /\ call'[c] \in Call /\ call'[c] # None
         /\ call'[c].at \in {"resave", "reset"}
         /\ call'[c].reg = call[c].reg
         /\ call'[c].claim = call[c].claim
         /\ call'[c].req = id
  <2>1. CASE call[c].at = "link"
    BY <1>1, <1>2, <2>1, ReturnEffect
  <2>2. CASE call[c].at # "link"
    <3>1. call'[c] = [call[c] EXCEPT !.at = IF call[c].at = "create" THEN "resave" ELSE "reset",
                                     !.req = id]
      BY <1>1, <1>2, <2>2 DEF TypeOK
    <3>2. call'[c] \in Call /\ call'[c].at \in {"resave", "reset"} /\ call'[c].reg = call[c].reg
          /\ call'[c].claim = call[c].claim /\ call'[c].req = id
      BY <1>1, <3>1 DEF Call
    <3>3. QED
      BY <2>2, <3>2, RegistrationAssumption DEF RegistrationAssumption
  <2>3. QED
    BY <2>1, <2>2
<1>6. call' \in [Calls -> Call \cup {None}] /\ \A d \in Calls \ {c} : call'[d] = call[d]
  <2>1. CASE call[c].at = "link"
    BY <1>1, <1>2, <2>1, ReturnEffect
  <2>2. CASE call[c].at # "link"
    <3>1. call' \in [Calls -> {call'[d] : d \in Calls}] /\ \A d \in Calls \ {c} : call'[d] = call[d]
      BY <1>1, <1>2, <2>2 DEF TypeOK
    <3>2. \A d \in Calls : call'[d] \in Call \cup {None}
      BY <1>1, <1>5, <3>1 DEF TypeOK
    <3>3. QED
      BY <3>1, <3>2
  <2>3. QED
    BY <2>1, <2>2
<1>7. loop' \in [Requests -> Loop \cup {None}]
  <2>1. CASE StartLoop(id, FALSE)
    BY <1>1, <2>1, StartLoopEffect
  <2>2. CASE UNCHANGED loop
    BY <1>1, <2>2 DEF TypeOK
  <2>3. QED
    BY <1>2, <2>1, <2>2
<1>8. TypeOK'
  BY <1>1, <1>3, <1>6, <1>7 DEF TypeOK
<1>9. ApprovedByDEWA' /\ ActivatedApproved'
  BY <1>1, <1>3, <1>4, ApprovalsKept DEF IInv, ClaimInv
<1>10. ClaimSaved'
  <2>1. call[c].claim => /\ row'[call[c].reg] # None
                        /\ row'[call[c].reg].meter = call[c].meter
                        /\ row'[call[c].reg].user = call[c].user
    BY <1>1 DEF IInv, CallInv
  <2>2. \A p \in Requests : (dewa[p] = None /\ dewa'[p] # None) => p = q
    BY <1>3
  <2>3. QED
    BY <1>1, <1>3, <1>4, <2>1, <2>2, ClaimsKept DEF IInv, ClaimInv
<1>11. LoopInv'
  <2>1. CASE call[c].at = "link"
    <3>1. StartLoop(id, FALSE)
      BY <1>2, <2>1
    <3>2. \A p \in Requests : loop'[p] = loop[p] \/ (p = id /\ loop'[p].at = "poll")
      BY <1>1, <3>1, StartLoopEffect
    <3>3. LoopsFollow
      BY <1>2, <1>3, <3>2, RegistrationAssumption DEF LoopsFollow, RegistrationAssumption
    <3>4. QED
      BY <1>1, <1>3, <1>4, <3>3, LoopsKept DEF IInv
  <2>2. CASE call[c].at # "link"
    <3>1. LoopsFollow
      BY <1>2, <2>2 DEF LoopsFollow
    <3>2. QED
      BY <1>1, <1>3, <1>4, <3>1, LoopsKept DEF IInv
  <2>3. QED
    BY <2>1, <2>2
<1>12. CallInv'
  <2>1. CASE call'[c] = None
    <3>1. \A d \in Calls : call'[d] = call[d] \/ call'[d] = None
      BY <1>6, <2>1
    <3>2. QED
      BY <1>1, <1>3, <1>4, <3>1, CallsKept DEF IInv
  <2>2. CASE call'[c] # None
    <3>1. ~call[c].claim
      BY <1>1, <1>5, <2>2 DEF IInv, CallInv
    <3>2. SUFFICES ASSUME NEW d \in Calls, call'[d] # None
                   PROVE  /\ call'[d].claim => call'[d].at \in {"save", "link"}
                          /\ call'[d].at = "save" =>
                               /\ row[call'[d].reg] = None
                               /\ \A e \in Calls \ {d} :
                                    call'[e] # None => call'[e].reg # call'[d].reg
                          /\ (call'[d].at = "link" /\ call'[d].claim) =>
                               /\ row[call'[d].reg] # None
                               /\ row[call'[d].reg].meter = call'[d].meter
                               /\ row[call'[d].reg].user = call'[d].user
                          /\ call'[d].req # None => dewa'[call'[d].req] # None
      BY <1>1 DEF CallInv
    <3>3. CASE d = c
      BY <1>2, <1>3, <1>5, <2>2, <3>1, <3>3
    <3>4. CASE d # c
      <4>1. call'[d] = call[d] /\ call[d] # None /\ call[d] \in Call
        BY <1>1, <1>6, <3>2, <3>4 DEF TypeOK
      <4>2. \A e \in Calls : call'[e] # None => call[e] # None /\ call'[e].reg = call[e].reg
        BY <1>1, <1>5, <1>6, <2>2
      <4>3. call[d].req # None => dewa'[call[d].req] # None
        BY <1>3, <4>1 DEF IInv, CallInv, RequestsKept, Call
      <4>4. QED
        BY <4>1, <4>2, <4>3 DEF IInv, CallInv
    <3>5. QED
      BY <3>3, <3>4
  <2>3. QED
    BY <2>1, <2>2
<1>13. QED
  BY <1>8, <1>9, <1>10, <1>11, <1>12 DEF IInv, ClaimInv

\* A link request whose answer was lost: the call ends, no loop starts.
LEMMA LinkErrorInv ==
  ASSUME IInv, NEW c \in Calls, LinkError(c)
  PROVE  IInv'
<1>1. /\ UNCHANGED <<row, loop, activated, reverifies>>
      /\ call[c] # None /\ call[c] \in Call /\ TypeOK
      /\ call[c].at \in {"link", "create", "relink"}
      /\ Return(c)
  BY DEF LinkError, CallFrame, IInv, ClaimInv, TypeOK
<1>2. faults' \in 0..MaxFaults
  BY FaultType, <1>1 DEF LinkError
<1>3. RowsKept
  BY <1>1 DEF RowsKept
<1>4. /\ dewa' \in [Requests -> Request \cup {None}]
      /\ RequestsKept
      /\ \A q \in Requests : (dewa[q] = None /\ dewa'[q] # None) =>
           /\ dewa'[q].claim = call[c].claim
           /\ dewa'[q].reg = call[c].reg
           /\ dewa'[q].meter = call[c].meter
           /\ dewa'[q].user = call[c].user
  <2>1. CASE UNCHANGED dewa
    BY <1>1, <2>1 DEF TypeOK, RequestsKept
  <2>2. CASE \E q \in Requests : CreateAtDEWA(c, q)
    <3>1. PICK q \in Requests : CreateAtDEWA(c, q)
      BY <2>2
    <3>2. /\ dewa' \in [Requests -> Request \cup {None}]
          /\ RequestsKept
          /\ \A p \in Requests \ {q} : dewa'[p] = dewa[p]
          /\ dewa'[q] = [reg |-> call[c].reg, meter |-> call[c].meter,
                         user |-> call[c].user, claim |-> call[c].claim,
                         state |-> "PENDING"]
      BY <1>1, <3>1, CreateEffect
    <3>3. \A p \in Requests : (dewa[p] = None /\ dewa'[p] # None) => p = q
      BY <3>2
    <3>4. QED
      BY <3>2, <3>3
  <2>3. QED
    BY <2>1, <2>2 DEF LinkError
<1>5. TypeOK'
  BY <1>1, <1>2, <1>4, ReturnEffect DEF TypeOK
<1>6. ApprovedByDEWA' /\ ActivatedApproved'
  BY <1>1, <1>3, <1>4, ApprovalsKept DEF IInv, ClaimInv
<1>7. ClaimSaved'
  <2>1. call[c].claim => /\ row'[call[c].reg] # None
                         /\ row'[call[c].reg].meter = call[c].meter
                         /\ row'[call[c].reg].user = call[c].user
    BY <1>1 DEF IInv, CallInv
  <2>2. QED
    BY <1>1, <1>3, <1>4, <2>1, ClaimsKept DEF IInv, ClaimInv
<1>8. LoopInv'
  <2>1. LoopsFollow
    BY <1>1 DEF LoopsFollow
  <2>2. QED
    BY <1>1, <1>3, <1>4, <2>1, LoopsKept DEF IInv
<1>9. CallInv'
  <2>1. \A d \in Calls : call'[d] = call[d] \/ call'[d] = None
    BY <1>1, ReturnEffect
  <2>2. QED
    BY <1>1, <1>3, <1>4, <2>1, CallsKept DEF IInv
<1>10. QED
  BY <1>5, <1>6, <1>7, <1>8, <1>9 DEF IInv, ClaimInv

\* The write of a reverification, done or not: the row of a claim that is
\* still saving is not the one it writes.
LEMMA RewriteInv ==
  ASSUME IInv, NEW c \in Calls, Rewrite(c)
  PROVE  IInv'
<1>1. /\ UNCHANGED <<dewa, activated, reverifies>>
      /\ call[c] # None /\ call[c] \in Call /\ TypeOK
      /\ call[c].at \in {"resave", "reset"}
      /\ Return(c)
      /\ StartLoop(call[c].req, TRUE)
  BY DEF Rewrite, CallFrame, IInv, ClaimInv, TypeOK
<1>2. faults' \in 0..MaxFaults
  BY FaultType, <1>1 DEF Rewrite, TypeOK
<1>3. RequestsKept
  BY <1>1 DEF RequestsKept
<1>4. /\ row' \in [Regs -> Row \cup {None}]
      /\ RowsKept
      /\ \A r \in Regs : row'[r] # row[r] =>
           r = call[c].reg /\ row'[r].status = "DEWA_APPROVAL_PENDING"
  <2>1. CASE SaveMeterRegistration(call[c])
    BY <1>1, <2>1, SaveEffect
  <2>2. CASE UNCHANGED row
    BY <1>1, <2>2 DEF TypeOK, RowsKept
  <2>3. CASE UpdateMeterRegistrationStatus(call[c].reg, "DEWA_APPROVAL_PENDING")
    BY <1>1, <2>3, UpdateEffect DEF Call, Statuses
  <2>4. QED
    BY <2>1, <2>2, <2>3 DEF Rewrite
<1>5. /\ loop' \in [Requests -> Loop \cup {None}]
      /\ LoopsFollow
  <2>1. /\ loop' \in [Requests -> Loop \cup {None}]
        /\ \A p \in Requests : loop'[p] = loop[p] \/ (p = call[c].req /\ loop'[p].at = "poll")
    BY <1>1, StartLoopEffect DEF Call
  <2>2. call[c].req # None => dewa'[call[c].req] # None
    BY <1>1 DEF IInv, CallInv
  <2>3. QED
    BY <2>1, <2>2, RegistrationAssumption DEF LoopsFollow, RegistrationAssumption
<1>6. TypeOK'
  BY <1>1, <1>2, <1>4, <1>5, ReturnEffect DEF TypeOK
<1>7. ApprovedByDEWA' /\ ActivatedApproved'
  <2>1. \A r \in Regs : ~(row'[r] # row[r] /\ row'[r].status = "APPROVED")
    BY <1>4
  <2>2. QED
    BY <1>1, <1>3, <1>4, <2>1, ApprovalsKept DEF IInv, ClaimInv
<1>8. ClaimSaved'
  BY <1>1, <1>3, <1>4, ClaimsKept DEF IInv, ClaimInv
<1>9. LoopInv'
  BY <1>1, <1>3, <1>4, <1>5, LoopsKept DEF IInv
<1>10. CallInv'
  <2>1. /\ call'[c] = None
        /\ \A d \in Calls \ {c} : call'[d] = call[d]
    BY <1>1, ReturnEffect
  <2>2. \A d \in Calls : (call'[d] # None /\ call[d].at = "save") =>
          row'[call[d].reg] = row[call[d].reg]
    <3>1. SUFFICES ASSUME NEW d \in Calls, call'[d] # None, call[d].at = "save"
                   PROVE  row'[call[d].reg] = row[call[d].reg]
      OBVIOUS
    <3>2. d # c /\ call[d] # None /\ call[d] \in Call
      BY <1>1, <2>1, <3>1 DEF TypeOK
    <3>3. call[c].reg # call[d].reg
      BY <1>1, <3>1, <3>2 DEF IInv, CallInv
    <3>4. QED
      BY <1>4, <3>2, <3>3 DEF Call
  <2>3. QED
    BY <1>1, <1>3, <1>4, <2>1, <2>2, CallsKept DEF IInv
<1>11. QED
  BY <1>6, <1>7, <1>8, <1>9, <1>10 DEF IInv, ClaimInv

-----------------------------------------------------------------------------
(* The poll loops.                                                         *)

\* What a step of poll loop q leaves behind: the loop itself is sound, the row
\* got at most the status the loop carries, and what it activated is the meter
\* of its row.
LoopMoves(q) ==
  /\ LoopFrame
  /\ loop[q] # None
  /\ loop'[q] \in Loop
  /\ loop' = [loop EXCEPT ![q] = loop'[q]]
  /\ \/ UNCHANGED row
     \/ /\ loop[q].at = "update"
        /\ UpdateMeterRegistrationStatus(dewa[q].reg, loop[q].status)
  /\ \/ UNCHANGED activated
     \/ /\ loop[q].at = "send"
        /\ activated' = activated \cup {row[dewa[q].reg].meter}
  /\ UNCHANGED faults \/ Fault
  /\ (loop'[q].at = "update" /\ loop'[q].status = "APPROVED") =>
       dewa[q].state = "APPROVED"
  /\ loop'[q].at \in {"read", "send"} =>
       dewa[q].state = "APPROVED" /\ row[dewa[q].reg] # None

\* Such a step preserves the invariant: the status it writes is an approval
\* only if DEWA's is, and the row it writes exists, so no claim is about to
\* create it.
LEMMA LoopMovesInv ==
  ASSUME IInv, NEW q \in Requests, LoopMoves(q)
  PROVE  IInv'
<1>1. /\ UNCHANGED <<dewa, call, reverifies>>
      /\ loop[q] # None /\ loop[q] \in Loop /\ TypeOK
      /\ dewa[q] # None /\ dewa[q] \in Request /\ dewa[q].reg \in Regs
      /\ \A p \in Requests \ {q} : loop'[p] = loop[p]
      /\ loop' \in [Requests -> Loop \cup {None}]
  <2>1. UNCHANGED <<dewa, call, reverifies>> /\ loop[q] # None /\ TypeOK
    BY DEF LoopMoves, LoopFrame, IInv, ClaimInv
  <2>2. loop[q] \in Loop
    BY <2>1 DEF TypeOK
  <2>3. dewa[q] # None
    BY <2>1 DEF IInv, LoopInv
  <2>4. dewa[q] \in Request /\ dewa[q].reg \in Regs
    BY <2>1, <2>3 DEF TypeOK, Request
  <2>5. /\ \A p \in Requests \ {q} : loop'[p] = loop[p]
        /\ loop' \in [Requests -> Loop \cup {None}]
    BY <2>1 DEF TypeOK, LoopMoves
  <2>6. QED
    BY <2>1, <2>2, <2>3, <2>4, <2>5
<1>2. faults' \in 0..MaxFaults
  BY <1>1, FaultType DEF LoopMoves, TypeOK
<1>3. RequestsKept
  BY <1>1 DEF RequestsKept
<1>4. /\ row' \in [Regs -> Row \cup {None}]
      /\ RowsKept
      /\ \A r \in Regs : row'[r] # row[r] =>
           /\ r = dewa[q].reg /\ row[r] # None
           /\ loop[q].at = "update" /\ row'[r].status = loop[q].status
  <2>1. CASE UNCHANGED row
    BY <1>1, <2>1 DEF TypeOK, RowsKept
  <2>2. CASE /\ loop[q].at = "update"
             /\ UpdateMeterRegistrationStatus(dewa[q].reg, loop[q].status)
    <3>1. loop[q].status \in Statuses
      BY <1>1 DEF Loop
    <3>2. QED
      BY <1>1, <2>2, <3>1, UpdateEffect
  <2>3. QED
    BY <2>1, <2>2 DEF LoopMoves
<1>5. activated' \in SUBSET Meters
      /\ \A m \in activated' \ activated :
           \E r \in Regs : row[r] # None /\ row[r].meter = m /\ Cleared(r)
  <2>1. CASE UNCHANGED activated
    BY <1>1, <2>1 DEF TypeOK
  <2>2. CASE /\ loop[q].at = "send"
             /\ activated' = activated \cup {row[dewa[q].reg].meter}
    <3>1. dewa[q].state = "APPROVED" /\ row[dewa[q].reg] # None
      BY <1>1, <2>2 DEF IInv, LoopInv
    <3>2. Cleared(dewa[q].reg)
      BY <1>1, <3>1, ApprovalClears DEF ApprovedRequest, IInv, ClaimInv
    <3>3. row[dewa[q].reg].meter \in Meters
      BY <1>1, <3>1 DEF TypeOK, Row
    <3>4. QED
      BY <1>1, <2>2, <3>1, <3>2, <3>3 DEF TypeOK
  <2>3. QED
    BY <2>1, <2>2 DEF LoopMoves
<1>6. TypeOK'
  BY <1>1, <1>2, <1>4, <1>5 DEF TypeOK
<1>7. ApprovedByDEWA' /\ ActivatedApproved'
  <2>1. \A r \in Regs : (row'[r] # row[r] /\ row'[r].status = "APPROVED") =>
          row[r] # None /\ Cleared(r)
    <3>1. loop[q].at = "update" /\ loop[q].status = "APPROVED" => dewa[q].state = "APPROVED"
      BY <1>1 DEF IInv, LoopInv
    <3>2. dewa[q].state = "APPROVED" => Cleared(dewa[q].reg)
      BY <1>1, ApprovalClears DEF ApprovedRequest, IInv, ClaimInv
    <3>3. QED
      BY <1>1, <1>4, <3>1, <3>2
  <2>2. QED
    BY <1>3, <1>4, <1>5, <2>1, ApprovalsKept DEF IInv, ClaimInv
<1>8. ClaimSaved'
  BY <1>1, <1>3, <1>4, ClaimsKept DEF IInv, ClaimInv
<1>9. LoopInv'
  <2>1. SUFFICES ASSUME NEW p \in Requests, loop'[p] # None
                 PROVE  /\ dewa[p] # None
                        /\ (loop'[p].at = "update" /\ loop'[p].status = "APPROVED") =>
                             dewa[p].state = "APPROVED"
                        /\ loop'[p].at \in {"read", "send"} =>
                             dewa[p].state = "APPROVED" /\ row'[dewa[p].reg] # None
    BY <1>1 DEF LoopInv
  <2>2. CASE p = q
    BY <1>1, <1>4, <2>1, <2>2 DEF LoopMoves, RowsKept
  <2>3. CASE p # q
    BY <1>1, <1>4, <2>1, <2>3 DEF IInv, LoopInv, RowsKept, TypeOK, Request
  <2>4. QED
    BY <2>2, <2>3
<1>10. CallInv'
  <2>1. \A d \in Calls : (call'[d] # None /\ call[d].at = "save") =>
          row'[call[d].reg] = row[call[d].reg]
    BY <1>1, <1>4 DEF IInv, CallInv, TypeOK, Call
  <2>2. QED
    BY <1>1, <1>3, <1>4, <2>1, CallsKept DEF IInv
<1>11. QED
  BY <1>6, <1>7, <1>8, <1>9, <1>10 DEF IInv, ClaimInv

\* Every step of a poll loop, and its cancellation, is such a step.
LEMMA LoopStepMoves ==
  ASSUME IInv, NEW q \in Requests, LoopStep(q) \/ CancelLoop(q)
  PROVE  LoopMoves(q)
<1>1. /\ loop[q] # None /\ loop[q] \in Loop /\ TypeOK
      /\ loop \in [Requests -> Loop \cup {None}]
  <2>1. loop[q] # None
    BY DEF LoopStep, CancelLoop, PollLinkRequest, PollTimesOut, PollStops, UpdateStatus,
           UpdateFails, ReadRow, SendActivateMeter, ActivationFails, LoopAt
  <2>2. QED
    BY <2>1 DEF IInv, ClaimInv, TypeOK
<1>2. /\ (loop[q].at = "update" /\ loop[q].status = "APPROVED") => dewa[q].state = "APPROVED"
      /\ loop[q].at \in {"read", "send"} =>
           dewa[q].state = "APPROVED" /\ row[dewa[q].reg] # None
  BY <1>1 DEF IInv, LoopInv
<1>3. CASE PollLinkRequest(q)
  BY <1>1, <1>3 DEF LoopMoves, PollLinkRequest, LoopAt, Decided, Loop, Statuses
<1>4. CASE PollTimesOut(q)
  BY <1>1, <1>4 DEF LoopMoves, PollTimesOut, LoopAt, Decided, Loop, Statuses
<1>5. CASE PollStops(q)
  BY <1>1, <1>5 DEF LoopMoves, PollStops, LoopAt, Decided, Loop, Statuses
<1>6. CASE UpdateStatus(q)
  BY <1>1, <1>2, <1>6
     DEF LoopMoves, UpdateStatus, LoopAt, Stop, Loop, UpdateMeterRegistrationStatus
<1>7. CASE UpdateFails(q)
  BY <1>1, <1>2, <1>7 DEF LoopMoves, UpdateFails, LoopAt, Stop, Loop
<1>8. CASE ReadRow(q)
  BY <1>1, <1>2, <1>8 DEF LoopMoves, ReadRow, LoopAt, Loop
<1>9. CASE SendActivateMeter(q)
  BY <1>1, <1>9 DEF LoopMoves, SendActivateMeter, LoopAt, Stop, Loop
<1>10. CASE ActivationFails(q)
  BY <1>1, <1>10 DEF LoopMoves, ActivationFails, Stop, Loop
<1>11. CASE CancelLoop(q)
  BY <1>1, <1>2, <1>11 DEF LoopMoves, CancelLoop, Loop
<1>12. QED
  BY <1>3, <1>4, <1>5, <1>6, <1>7, <1>8, <1>9, <1>10, <1>11 DEF LoopStep

-----------------------------------------------------------------------------
(* DEWA, the process, and the theorems.                                    *)

\* DEWA's decision on a pending request.
LEMMA DecideInv ==
  ASSUME IInv, NEW q \in Requests, DEWADecides(q)
  PROVE  IInv'
<1>1. /\ UNCHANGED <<row, call, loop, activated, reverifies, faults>>
      /\ dewa[q] # None /\ dewa[q].state = "PENDING" /\ dewa[q] \in Request /\ TypeOK
  BY DEF DEWADecides, IInv, ClaimInv, TypeOK
<1>2. /\ dewa' \in [Requests -> Request \cup {None}]
      /\ RequestsKept
      /\ \A p \in Requests : dewa'[p] # None => dewa[p] # None
  BY <1>1, RegistrationAssumption
     DEF DEWADecides, TypeOK, Request, Answers, RequestsKept, RegistrationAssumption
<1>3. RowsKept /\ LoopsFollow
  BY <1>1 DEF RowsKept, LoopsFollow
<1>4. TypeOK'
  BY <1>1, <1>2 DEF TypeOK
<1>5. ApprovedByDEWA' /\ ActivatedApproved'
  BY <1>1, <1>2, <1>3, ApprovalsKept DEF IInv, ClaimInv
<1>6. ClaimSaved'
  BY <1>1, <1>2, <1>3, ClaimsKept DEF IInv, ClaimInv
<1>7. LoopInv'
  BY <1>1, <1>2, <1>3, LoopsKept DEF IInv
<1>8. CallInv'
  BY <1>1, <1>2, <1>3, CallsKept DEF IInv
<1>9. QED
  BY <1>4, <1>5, <1>6, <1>7, <1>8 DEF IInv, ClaimInv

\* A restart drops the calls and the loops.
LEMMA RestartInv ==
  ASSUME IInv, Restart
  PROVE  IInv'
<1>1. UNCHANGED <<row, dewa, activated, reverifies>> /\ TypeOK /\ faults' \in 0..MaxFaults
  BY FaultType DEF Restart, IInv, ClaimInv
<1>2. /\ call' = [c \in Calls |-> None]
      /\ loop' = [q \in Requests |-> None]
  BY DEF Restart
<1>3. TypeOK'
  BY <1>1, <1>2 DEF TypeOK
<1>4. ApprovedByDEWA' /\ ActivatedApproved' /\ ClaimSaved'
  BY <1>1 DEF IInv, ClaimInv, ApprovedByDEWA, ActivatedApproved, ClaimSaved, Cleared,
         Vouched, Misnamed, ApprovedRequest, AsksFor
<1>5. CallInv' /\ LoopInv'
  BY <1>2 DEF CallInv, LoopInv
<1>6. QED
  BY <1>3, <1>4, <1>5 DEF IInv, ClaimInv

\* The invariant holds when the service is installed.
LEMMA InitInv == Init => IInv
<1> SUFFICES ASSUME Init PROVE IInv
  OBVIOUS
<1>1. TypeOK
  BY RegistrationAssumption DEF Init, TypeOK, RegistrationAssumption
<1>2. ApprovedByDEWA /\ ActivatedApproved /\ ClaimSaved /\ CallInv /\ LoopInv
  BY DEF Init, ApprovedByDEWA, ActivatedApproved, ClaimSaved, CallInv, LoopInv
<1>3. QED
  BY <1>1, <1>2 DEF IInv, ClaimInv

\* Stuttering changes nothing.
LEMMA StutterInv ==
  ASSUME IInv, UNCHANGED vars
  PROVE  IInv'
BY DEF vars, IInv, ClaimInv, TypeOK, ApprovedByDEWA, ActivatedApproved, ClaimSaved,
       Cleared, Vouched, Misnamed, ApprovedRequest, AsksFor, CallInv, LoopInv

\* Every step preserves the invariant.
LEMMA NextInv ==
  ASSUME IInv, [Next]_vars
  PROVE  IInv'
<1>1. ASSUME NEW c \in Calls, CallStep(c)
      PROVE  IInv'
  BY <1>1, BeginInv, SaveInv, ReadInv, CreateLinkInv, LinkErrorInv, RewriteInv DEF CallStep
<1>2. ASSUME NEW q \in Requests, LoopStep(q) \/ CancelLoop(q)
      PROVE  IInv'
  BY <1>2, LoopStepMoves, LoopMovesInv
<1>3. QED
  BY <1>1, <1>2, DecideInv, RestartInv, StutterInv DEF Next

\* The inductive invariant holds throughout.
THEOREM InductiveInvariant == Spec => []IInv
<1>1. Init => IInv
  BY InitInv
<1>2. IInv /\ [Next]_vars => IInv'
  BY NextInv
<1>3. QED
  BY <1>1, <1>2, PTL DEF Spec

\* ClaimInv for every number of registrations, requests, calls, poll loops
\* and faults: what is activated or APPROVED was approved by DEWA for its own
\* meter and user unless a caller reverified it under others, and every
\* request DEWA has for a claim finds the row of that claim.
THEOREM ClaimsSound == Spec => []ClaimInv
<1>1. IInv => ClaimInv
  BY DEF IInv
<1>2. QED
  BY <1>1, InductiveInvariant, PTL

\* OwnerNeverMoves: no call, poll loop, decision, fault or restart changes
\* the meter or the user of a registration that has a row.
THEOREM OwnerFixed == Spec => OwnerNeverMoves
<1>1. ASSUME IInv, [Next]_vars
      PROVE  RowsKept
  <2>1. TypeOK
    BY <1>1 DEF IInv, ClaimInv
  <2>2. CASE UNCHANGED row
    BY <2>2 DEF RowsKept
  <2>3. ASSUME NEW c \in Calls, CallStep(c)
        PROVE  RowsKept
    <3>1. CASE SaveMeterRegistration(call[c]) /\ call[c] # None
      BY <2>1, <3>1, SaveEffect DEF TypeOK
    <3>2. CASE UpdateMeterRegistrationStatus(call[c].reg, "DEWA_APPROVAL_PENDING") /\ call[c] # None
      BY <2>1, <3>2, UpdateEffect DEF TypeOK, Call, Statuses
    <3>3. QED
      BY <2>2, <2>3, <3>1, <3>2
         DEF CallStep, InitiateMeterClaim, Save, At, ReverifyRegistration, GetByRegistrationID,
             CreateLinkRequest, LinkError, Rewrite
  <2>4. ASSUME NEW q \in Requests, LoopStep(q) \/ CancelLoop(q)
        PROVE  RowsKept
    <3>1. LoopMoves(q)
      BY <1>1, <2>4, LoopStepMoves
    <3>2. CASE UpdateMeterRegistrationStatus(dewa[q].reg, loop[q].status)
      <4>1. loop[q] \in Loop /\ dewa[q] \in Request
        BY <1>1, <2>1, <3>1 DEF IInv, LoopInv, LoopMoves, TypeOK
      <4>2. QED
        BY <2>1, <3>2, <4>1, UpdateEffect DEF Loop, Request
    <3>3. QED
      BY <2>2, <3>1, <3>2 DEF LoopMoves
  <2>5. QED
    BY <1>1, <2>2, <2>3, <2>4 DEF Next, DEWADecides, Restart, vars
<1>2. IInv /\ [Next]_vars =>
        [\A r \in Regs : row[r] # None =>
           /\ row'[r] # None
           /\ row'[r].meter = row[r].meter
           /\ row'[r].user = row[r].user]_vars
  BY <1>1 DEF RowsKept
<1>3. QED
  BY <1>2, InductiveInvariant, PTL DEF Spec, OwnerNeverMoves

=============================================================================
