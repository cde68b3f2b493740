-------------------------- MODULE LeaveRequest_proofs --------------------------
(***************************************************************************)
(* Proofs about LeaveRequest, for any number of handlers, requests, levels *)
(* of approval and deaths: the days of a request are charged once, a       *)
(* verdict stands, and the books agree with the statuses; and one handler  *)
(* at a time keeps the balance true to the ledger.                         *)
(***************************************************************************)
EXTENDS LeaveRequestCalls, LeaveLedger_proofs

-----------------------------------------------------------------------------
(* The inductive invariant.                                                *)

(* Handlers, calls of the ledger and requests are records with their       *)
(* fields.                                                                 *)
HandlerShape(h) == h \in [flow : {h.flow}, pc : {h.pc}, req : {h.req}, doc : {h.doc}]
CallShape(c) ==
  c \in [pc : {c.pc}, entry : {c.entry}, delta : {c.delta}, attempt : {c.attempt}, seq : {c.seq},
         totals : {c.totals}, seen : {c.seen}, reserved : {c.reserved}, posted : {c.posted}]
DocShape(d) ==
  d \in [status : {d.status}, level : {d.level}, paid : {d.paid}, eventIds : {d.eventIds}]

RequestsOK == /\ request = [r \in Requests |-> request[r]]
              /\ \A r \in Requests : DocShape(request[r])

Shapes ==
  /\ handler = [p \in Callers |-> handler[p]]
  /\ call = [p \in Callers |-> call[p]]
  /\ RequestsOK

Entering == {"readBalance", "insert"}
Withdrawing == {"reversing", "void", "withdrawSave"}
Asking == {"readSeq", "create"}

(* What a handler is about at each point, and what the call that it waits  *)
(* for will post.                                                          *)
ControlOK(h, c) ==
  /\ HandlerShape(h) /\ CallShape(c)
  /\ h.pc \notin {"idle", "crediting"} => h.req \in Requests
  /\ h.pc \in {"idle", "crediting"} => h.req = None
  /\ h.pc \in Entering => h.flow = "apply"
  /\ h.pc = "decide" => h.flow = "approve"
  /\ h.pc = "refuse" => h.flow = "reject"
  /\ h.pc = "cancelSave" => h.flow = "cancel"
  /\ h.pc \in Withdrawing => h.flow = "withdraw"
  /\ c.pc \in Asking => \/ h.pc = "posting" /\ c.entry.type = "usage" /\ c.entry.ref = h.req
                        \/ h.pc = "reversing" /\ c.entry.type = "usage_reversal"
                        \/ h.pc = "crediting" /\ c.entry.type = "accrual"

Control == \A p \in Callers : ControlOK(handler[p], call[p])

(* A handler that is going to charge the request it works on.              *)
Charging(h, c) == \/ h.pc = "posting" /\ c.pc \in Asking
                  \/ h.pc = "reserving" /\ ChainOf[h.req] = 0

Charges(p, r) == handler[p].req = r /\ Charging(handler[p], call[p])

(* An application has its request to itself until it is inserted.          *)
EntersAlone ==
  \A p \in Callers : handler[p].pc \in Entering =>
    /\ request[handler[p].req].status = "none"
    /\ \A q \in Callers : handler[q].req = handler[p].req => q = p

(* A request is charged, or about to be, by one handler once, and only     *)
(* when it can be decided no more.                                         *)
ChargedAfterVerdict ==
  \A r \in Requests :
    /\ \A c, d \in Posts(r, "usage") : c = d
    /\ Posts(r, "usage") # {} => request[r].status \notin {"none", "pending"}
    /\ \A p \in Callers : Charges(p, r) =>
         /\ Posts(r, "usage") = {}
         /\ request[r].status \notin {"none", "pending"}
         /\ \A q \in Callers : Charges(q, r) => q = p

(* The handlers of a request that has not clashed are compatible, so what  *)
(* a cancellation and a withdrawal read is still true when they save.      *)
ReadsHold ==
  \A p \in Callers : handler[p].req \in Requests \ clashed =>
    /\ \A q \in Callers : q # p /\ handler[q].req = handler[p].req
                            => Compatible(handler[p].flow, handler[q].flow)
    /\ handler[p].pc = "cancelSave" => request[handler[p].req].status = "pending"
    /\ handler[p].pc \in Withdrawing => request[handler[p].req].status = "approved"

IInv == Shapes /\ Control /\ EntersAlone /\ ChargedAfterVerdict /\ ReadsHold

-----------------------------------------------------------------------------
(* Rest and the idle call are as they should be.                           *)
LEMMA RestOK ==
  /\ ControlOK(Rest, Idle) /\ ~Charging(Rest, Idle) /\ Rest.pc = "idle" /\ Rest.req = None
<1>1. HandlerShape(Rest) /\ Rest.pc = "idle" /\ Rest.req = None
  BY DEF Rest, HandlerShape
<1>2. CallShape(Idle) /\ Idle.pc = "idle"
  BY DEF Idle, CallShape
<1>3. QED
  BY <1>1, <1>2 DEF ControlOK, Charging, Entering, Withdrawing, Asking

(* Calls of the ledger, as they begin.                                     *)
LEMMA CallsOK ==
  /\ \A e : CallShape(Appending(e)) /\ Appending(e).pc = "readSeq" /\ Appending(e).entry = e
  /\ \A d : CallShape(Adjusting(d)) /\ Adjusting(d).pc = "inc"
  /\ \A c : CallShape(Finished(c)) /\ Finished(c).pc = "done"
BY DEF CallShape, Appending, Adjusting, Finished, Idle

(* The state of one handler and its call is replaced.                      *)
Moves(p, h, c) ==
  /\ handler' = [handler EXCEPT ![p] = h]
  /\ call' = [call EXCEPT ![p] = c]

LEMMA MovesAt ==
  ASSUME Shapes, NEW p \in Callers, NEW h, NEW c, Moves(p, h, c)
  PROVE  /\ handler' = [q \in Callers |-> handler'[q]]
         /\ call' = [q \in Callers |-> call'[q]]
         /\ handler'[p] = h /\ call'[p] = c
         /\ \A q \in Callers : q # p => handler'[q] = handler[q] /\ call'[q] = call[q]
BY DEF Shapes, Moves

(* A step by which a handler goes on with its request, or ends, without    *)
(* touching a status or a usage entry.                                     *)
GoesOn(h, c, g, b) ==
  \/ g = Rest
  \/ /\ g.req = h.req /\ g.flow = h.flow
     /\ g.pc \in Entering => h.pc \in Entering
     /\ g.pc = "cancelSave" => h.pc = "cancelSave"
     /\ g.pc \in Withdrawing => h.pc \in Withdrawing
     /\ Charging(g, b) => Charging(h, c)

LEMMA QuietStep ==
  ASSUME IInv, NEW p \in Callers, NEW h, NEW c, Moves(p, h, c),
         ControlOK(h, c), GoesOn(handler[p], call[p], h, c), h = Rest => c = Idle,
         Shapes', \A r \in Requests : request'[r].status = request[r].status,
         \A r \in Requests : Posts(r, "usage")' = Posts(r, "usage"),
         clashed \subseteq clashed'
  PROVE  IInv'
<1>1. /\ handler'[p] = h /\ call'[p] = c
      /\ \A q \in Callers : q # p => handler'[q] = handler[q] /\ call'[q] = call[q]
  BY MovesAt DEF IInv
<1>2. Control'
  BY <1>1 DEF IInv, Control
<1>3. h.req \in Requests => h.req = handler[p].req /\ h # Rest
  BY RestOK, RequestAssumption DEF GoesOn
<1>4. \A q \in Callers : handler'[q].pc \in Entering \cup Withdrawing \cup {"cancelSave"}
                           => handler'[q].req \in Requests
  BY <1>2 DEF Control, ControlOK, Entering, Withdrawing
<1>5. \A q \in Callers : handler'[q].req \in Requests => handler'[q].req = handler[q].req
  BY <1>1, <1>3
<1>6. \A q \in Callers : handler'[q].pc \in Entering => handler[q].pc \in Entering
  BY <1>1, RestOK DEF GoesOn, Entering
<1>7. \A q \in Callers, r \in Requests : Charges(q, r)' => Charges(q, r)
  BY <1>1, <1>3, RestOK DEF Charges, GoesOn
<1>8. EntersAlone'
  BY <1>4, <1>5, <1>6 DEF IInv, EntersAlone
<1>9. ChargedAfterVerdict'
  BY <1>7 DEF IInv, ChargedAfterVerdict
<1>10. ReadsHold'
  <2>1. \A q \in Callers : handler'[q].req \in Requests => handler'[q].flow = handler[q].flow
    BY <1>1, <1>3 DEF GoesOn
  <2>2. \A q \in Callers : handler'[q].pc = "cancelSave" => handler[q].pc = "cancelSave"
    BY <1>1, RestOK DEF GoesOn
  <2>3. \A q \in Callers : handler'[q].pc \in Withdrawing => handler[q].pc \in Withdrawing
    BY <1>1, RestOK DEF GoesOn, Withdrawing
  <2>4. QED
    BY <1>5, <2>1, <2>2, <2>3 DEF IInv, ReadsHold
<1>11. QED
  BY <1>2, <1>8, <1>9, <1>10 DEF IInv

(* Compatibility is mutual.                                                *)
LEMMA CompatibleSymmetric == \A f, g : Compatible(f, g) => Compatible(g, f)
BY DEF Compatible

(* A handler begins with a request.                                        *)
LEMMA BeginStep ==
  ASSUME IInv, NEW p \in Callers, NEW flow, NEW pc, NEW r \in Requests \cup {None}, NEW doc, NEW c,
         Begin(p, flow, pc, r, doc), call' = [call EXCEPT ![p] = c],
         UNCHANGED <<ledger, request>>,
         LET h == [flow |-> flow, pc |-> pc, req |-> r, doc |-> doc]
         IN  ControlOK(h, c) /\ ~Charging(h, c),
         pc \in Entering => request[r].status = "none" /\ \A q \in Callers : handler[q].req # r,
         r \in Requests /\ pc \notin Entering => request[r].status # "none",
         pc = "cancelSave" => request[r].status = "pending",
         pc \in Withdrawing => request[r].status = "approved"
  PROVE  IInv'
<1> DEFINE h == [flow |-> flow, pc |-> pc, req |-> r, doc |-> doc]
<1>1. Moves(p, h, c) /\ h.flow = flow /\ h.pc = pc /\ h.req = r
  BY DEF Begin, Moves
<1>2. /\ handler'[p] = h /\ call'[p] = c
      /\ \A q \in Callers : q # p => handler'[q] = handler[q] /\ call'[q] = call[q]
  BY <1>1, MovesAt DEF IInv
<1>3. Shapes'
  BY <1>1, MovesAt DEF IInv, Shapes, RequestsOK
<1>4. Control'
  BY <1>2 DEF IInv, Control
<1>5. EntersAlone'
  <2>1. ASSUME NEW q \in Callers, handler'[q].pc \in Entering
        PROVE  /\ request[handler'[q].req].status = "none"
               /\ \A o \in Callers : handler'[o].req = handler'[q].req => o = q
    <3>1. CASE q = p
      BY <1>1, <1>2, <2>1, <3>1
    <3>2. CASE q # p
      <4>1. handler'[q] = handler[q] /\ handler[q].req \in Requests
        BY <1>2, <1>4, <2>1, <3>2 DEF Control, ControlOK, Entering
      <4>2. /\ request[handler[q].req].status = "none"
            /\ \A o \in Callers : handler[o].req = handler[q].req => o = q
        BY <2>1, <4>1 DEF IInv, EntersAlone
      <4>3. r # handler[q].req
        BY <1>1, <4>1, <4>2
      <4>4. QED
        BY <1>1, <1>2, <4>1, <4>2, <4>3
    <3>3. QED
      BY <3>1, <3>2
  <2>2. QED
    BY <2>1 DEF EntersAlone
<1>6. ChargedAfterVerdict'
  <2>1. \A q \in Callers, o \in Requests : Charges(q, o)' => Charges(q, o)
    BY <1>2 DEF Charges
  <2>2. \A o \in Requests : Posts(o, "usage")' = Posts(o, "usage")
    BY DEF Posts
  <2>3. QED
    BY <2>1, <2>2 DEF IInv, ChargedAfterVerdict
<1>7. ReadsHold'
  <2>1. clashed \subseteq clashed'
    BY DEF Begin
  <2>2. ASSUME r \in Requests \ clashed', NEW q \in Callers, handler[q].req = r
        PROVE  Compatible(flow, handler[q].flow) /\ Compatible(handler[q].flow, flow)
    BY <2>2, CompatibleSymmetric, RequestAssumption DEF Begin
  <2>3. ASSUME NEW q \in Callers, handler'[q].req \in Requests \ clashed'
        PROVE  /\ \A o \in Callers : o # q /\ handler'[o].req = handler'[q].req
                                    => Compatible(handler'[q].flow, handler'[o].flow)
               /\ handler'[q].pc = "cancelSave" => request[handler'[q].req].status = "pending"
               /\ handler'[q].pc \in Withdrawing => request[handler'[q].req].status = "approved"
    <3>1. CASE q = p
      BY <1>1, <1>2, <2>2, <2>3, <3>1
    <3>2. CASE q # p
      <4>1. handler'[q] = handler[q] /\ handler[q].req \in Requests \ clashed
        BY <1>2, <2>1, <2>3, <3>2
      <4>2. QED
        BY <1>1, <1>2, <2>2, <2>3, <4>1 DEF IInv, ReadsHold
    <3>3. QED
      BY <3>1, <3>2
  <2>4. QED
    BY <2>3 DEF ReadsHold
<1>8. QED
  BY <1>3, <1>4, <1>5, <1>6, <1>7 DEF IInv

(* A step that writes the status of its request.                           *)
LEMMA StatusStep ==
  ASSUME IInv, NEW p \in Callers, NEW r \in Requests, handler[p].req = r, NEW h, NEW c,
         Moves(p, h, c), ControlOK(h, c),
         h = Rest \/ (h.req = r /\ h.flow = handler[p].flow),
         h.pc \notin Entering \cup Withdrawing \cup {"cancelSave"},
         handler[p].pc = "insert" \/ handler[p].flow \in {"approve", "reject", "cancel", "withdraw"},
         Shapes', \A o \in Requests : o # r => request'[o].status = request[o].status,
         UNCHANGED <<ledger, clashed>>,
         request'[r].status # "none",
         request'[r].status = "pending" => request[r].status \in {"none", "pending"},
         Charging(h, c) => /\ request[r].status \in {"none", "pending"}
                           /\ request'[r].status \notin {"none", "pending"}
  PROVE  IInv'
<1>1. /\ handler'[p] = h /\ call'[p] = c
      /\ \A q \in Callers : q # p => handler'[q] = handler[q] /\ call'[q] = call[q]
  BY MovesAt DEF IInv
<1>2. Control'
  BY <1>1 DEF IInv, Control
<1>3. Rest.req \notin Requests /\ ~Charging(Rest, Idle)
  BY RestOK, RequestAssumption
<1>4. \A q \in Callers : handler'[q].req \in Requests =>
         handler'[q].req = handler[q].req /\ handler'[q].flow = handler[q].flow
  BY <1>1, <1>3
<1>5. \A o \in Requests : Posts(o, "usage")' = Posts(o, "usage")
  BY DEF Posts
<1>6. EntersAlone'
  <2>1. ASSUME NEW q \in Callers, handler'[q].pc \in Entering
        PROVE  /\ request'[handler'[q].req].status = "none"
               /\ \A o \in Callers : handler'[o].req = handler'[q].req => o = q
    <3>1. q # p /\ handler'[q] = handler[q]
      BY <1>1, <2>1
    <3>2. handler[q].req \in Requests
      BY <2>1, <3>1 DEF IInv, Control, ControlOK, Entering
    <3>3. /\ request[handler[q].req].status = "none"
          /\ \A o \in Callers : handler[o].req = handler[q].req => o = q
      BY <2>1, <3>1 DEF IInv, EntersAlone
    <3>4. handler[q].req # r
      BY <3>1, <3>3
    <3>5. QED
      BY <1>4, <3>1, <3>2, <3>3, <3>4
  <2>2. QED
    BY <2>1 DEF EntersAlone
<1>7. ChargedAfterVerdict'
  <2>1. ASSUME NEW o \in Requests, Posts(o, "usage") # {} \/ \E q \in Callers : Charges(q, o)
        PROVE  request'[o].status \notin {"none", "pending"}
    <3>1. request[o].status \notin {"none", "pending"}
      BY <2>1 DEF IInv, ChargedAfterVerdict
    <3>2. QED
      BY <3>1
  <2>2. ASSUME NEW q \in Callers, q # p, NEW o \in Requests
        PROVE  Charges(q, o)' <=> Charges(q, o)
    BY <1>1, <2>2 DEF Charges
  <2>3. ASSUME NEW o \in Requests, Charges(p, o)', ~Charges(p, o)
        PROVE  /\ Posts(o, "usage") = {} /\ request'[o].status \notin {"none", "pending"}
               /\ \A q \in Callers : ~Charges(q, o)
    <3>1. Charging(h, c) /\ h.req = o
      BY <1>1, <2>3 DEF Charges
    <3>2. o = r
      BY <1>1, <1>4, <3>1
    <3>3. request[r].status \in {"none", "pending"} /\ request'[r].status \notin {"none", "pending"}
      BY <3>1
    <3>4. QED
      BY <3>2, <3>3 DEF IInv, ChargedAfterVerdict
  <2>4. QED
    BY <1>5, <2>1, <2>2, <2>3 DEF IInv, ChargedAfterVerdict
<1>8. ReadsHold'
  <2>1. ASSUME NEW q \in Callers, handler'[q].req \in Requests \ clashed'
        PROVE  /\ \A o \in Callers : o # q /\ handler'[o].req = handler'[q].req
                                    => Compatible(handler'[q].flow, handler'[o].flow)
               /\ handler'[q].pc = "cancelSave" => request'[handler'[q].req].status = "pending"
               /\ handler'[q].pc \in Withdrawing => request'[handler'[q].req].status = "approved"
    <3>1. handler[q].req = handler'[q].req /\ handler'[q].req \notin clashed
      BY <1>4, <2>1
    <3>2. \A o \in Callers : o # q /\ handler'[o].req = handler'[q].req
                                    => Compatible(handler'[q].flow, handler'[o].flow)
      BY <1>4, <2>1, <3>1 DEF IInv, ReadsHold
    <3>3. CASE handler'[q].pc \in Withdrawing \cup {"cancelSave"}
      <4>1. q # p /\ handler'[q] = handler[q]
        BY <1>1, <3>3
      <4>2. /\ handler[q].pc = "cancelSave" => request[handler[q].req].status = "pending"
            /\ handler[q].pc \in Withdrawing => request[handler[q].req].status = "approved"
        BY <2>1, <3>1 DEF IInv, ReadsHold
      <4>3. handler[q].flow \in {"cancel", "withdraw"}
        BY <3>3, <4>1 DEF IInv, Control, ControlOK
      <4>4. handler[q].req # r
        <5>1. SUFFICES ASSUME handler[q].req = r PROVE FALSE
          OBVIOUS
        <5>2. handler[p].pc # "insert"
          BY <4>1, <5>1 DEF IInv, EntersAlone, Entering
        <5>3. Compatible(handler[q].flow, handler[p].flow)
          BY <2>1, <3>1, <4>1, <5>1 DEF IInv, ReadsHold
        <5>4. QED
          BY <4>3, <5>2, <5>3 DEF Compatible
      <4>5. QED
        BY <2>1, <3>1, <3>2, <4>1, <4>2, <4>4
    <3>4. QED
      BY <3>2, <3>3
  <2>2. QED
    BY <2>1 DEF ReadsHold
<1>9. QED
  BY <1>2, <1>6, <1>7, <1>8 DEF IInv

-----------------------------------------------------------------------------
(* The ledger's steps.                                                     *)

(* An entry that is created is a usage entry only for the request of a     *)
(* handler that charges it.                                                *)
LEMMA CreateStep ==
  ASSUME IInv, NEW p \in Callers, Create(p), UNCHANGED <<request, handler, clashed>>
  PROVE  IInv'
<1> DEFINE new == [seq |-> call[p].seq, entry |-> call[p].entry]
           c == [call[p] EXCEPT !.pc = "fold", !.posted = TRUE]
           r == handler[p].req
<1>1. ControlOK(handler[p], call[p]) /\ call[p].pc = "create"
  BY DEF IInv, Control, Create, At
<1>2. c.pc = "fold" /\ CallShape(c)
  BY <1>1 DEF ControlOK, CallShape
<1>3. Moves(p, handler[p], c)
  BY DEF Moves, Create, Put, IInv, Shapes
<1>4. /\ handler'[p] = handler[p] /\ call'[p] = c
      /\ \A q \in Callers : q # p => handler'[q] = handler[q] /\ call'[q] = call[q]
  BY <1>3, MovesAt DEF IInv
<1>5. Shapes'
  BY <1>3, MovesAt DEF IInv, Shapes, RequestsOK
<1>6. Control'
  <2>1. ControlOK(handler[p], c)
    BY <1>1, <1>2 DEF ControlOK, Asking
  <2>2. QED
    BY <1>4, <2>1 DEF IInv, Control
<1>7. EntersAlone' /\ ReadsHold'
  BY DEF IInv, EntersAlone, ReadsHold
<1>8. ChargedAfterVerdict'
  <2>1. \A q \in Callers, o \in Requests : Charges(q, o)' => Charges(q, o) /\ q # p
    <3>1. handler[p].pc # "reserving"
      BY <1>1 DEF ControlOK, Asking
    <3>2. QED
      BY <1>2, <1>4, <3>1 DEF Charges, Charging, Asking
  <2>2. \A o \in Requests : Posts(o, "usage")' =
           IF call[p].entry.type = "usage" /\ call[p].entry.ref = o
             THEN Posts(o, "usage") \cup {new} ELSE Posts(o, "usage")
    <3>1. ledger' = ledger \cup {new} /\ new.entry = call[p].entry
      BY DEF Create
    <3>2. QED
      BY <3>1 DEF Posts
  <2>3. CASE call[p].entry.type = "usage"
    <3>1. Charges(p, r) /\ call[p].entry.ref = r /\ r \in Requests
      BY <1>1, <2>3 DEF Charges, Charging, ControlOK, Asking
    <3>2. /\ Posts(r, "usage") = {}
          /\ request[r].status \notin {"none", "pending"}
          /\ \A q \in Callers : Charges(q, r) => q = p
      BY <3>1 DEF IInv, ChargedAfterVerdict
    <3>3. \A q \in Callers : ~Charges(q, r)'
      BY <2>1, <3>1, <3>2
    <3>4. Posts(r, "usage")' = {new}
      BY <2>2, <2>3, <3>1, <3>2
    <3>5. \A o \in Requests : o # r => Posts(o, "usage")' = Posts(o, "usage")
      BY <2>2, <3>1
    <3>6. ASSUME NEW o \in Requests
          PROVE  /\ \A d, e \in Posts(o, "usage")' : d = e
                 /\ Posts(o, "usage")' # {} => request'[o].status \notin {"none", "pending"}
                 /\ \A q \in Callers : Charges(q, o)' =>
                      /\ Posts(o, "usage")' = {}
                      /\ request'[o].status \notin {"none", "pending"}
                      /\ \A i \in Callers : Charges(i, o)' => i = q
      <4>1. CASE o = r
        BY <3>2, <3>3, <3>4, <4>1
      <4>2. CASE o # r
        BY <2>1, <3>5, <4>2 DEF IInv, ChargedAfterVerdict
      <4>3. QED
        BY <4>1, <4>2
    <3>7. QED
      BY <3>6 DEF ChargedAfterVerdict
  <2>4. CASE call[p].entry.type # "usage"
    BY <2>1, <2>2, <2>4 DEF IInv, ChargedAfterVerdict
  <2>5. QED
    BY <2>3, <2>4
<1>9. QED
  BY <1>5, <1>6, <1>7, <1>8 DEF IInv

(* Every other step of the ledger leaves the log alone, and never asks for *)
(* more than the call did.                                                 *)
LEMMA OtherLedgerStep ==
  ASSUME IInv, NEW p \in Callers, NEW c, Put(p, c), CallShape(c),
         c.pc \in Asking => call[p].pc \in Asking /\ c.entry = call[p].entry,
         Busy(p), UNCHANGED <<ledger, request, handler, clashed>>
  PROVE  IInv'
<1>1. ControlOK(handler[p], call[p])
  BY DEF IInv, Control
<1>2. Moves(p, handler[p], c)
  BY DEF Moves, Put, IInv, Shapes
<1>3. ControlOK(handler[p], c)
  BY <1>1 DEF ControlOK
<1>4. GoesOn(handler[p], call[p], handler[p], c)
  BY DEF GoesOn, Charging
<1>5. Shapes'
  BY <1>2, MovesAt DEF IInv, Shapes, RequestsOK
<1>6. \A r \in Requests : Posts(r, "usage")' = Posts(r, "usage")
  BY DEF Posts
<1>7. QED
  BY <1>2, <1>3, <1>4, <1>5, <1>6, QuietStep DEF Busy

LEMMA ServeStep ==
  ASSUME IInv, NEW p \in Callers, Serve(p) PROVE IInv'
<1>1. CallShape(call[p])
  BY DEF IInv, Control, ControlOK
<1>2. CASE ReadSeq(p)
  <2> DEFINE c == [call[p] EXCEPT !.pc = "create", !.seq = LastSeq + 1, !.attempt = @ + 1]
  <2>1. CallShape(c) /\ c.pc = "create" /\ c.entry = call[p].entry
    BY <1>1 DEF CallShape
  <2>2. QED
    BY <1>2, <2>1, OtherLedgerStep DEF Serve, ReadSeq, At, Asking
<1>3. CASE Create(p)
  BY <1>3, CreateStep DEF Serve
<1>4. CASE Collide(p)
  <2> DEFINE next == IF call[p].attempt < RetryLimit THEN "readSeq" ELSE "failed"
             c == [call[p] EXCEPT !.pc = next]
  <2>1. CallShape(c) /\ c.entry = call[p].entry
    BY <1>1 DEF CallShape
  <2>2. QED
    BY <1>4, <2>1, OtherLedgerStep DEF Serve, Collide, At, Asking
<1>5. CASE Inc(p)
  <2> DEFINE c == [call[p] EXCEPT !.pc = "fold", !.posted = TRUE]
  <2>1. CallShape(c) /\ c.pc = "fold"
    BY <1>1 DEF CallShape
  <2>2. QED
    BY <1>5, <2>1, OtherLedgerStep DEF Serve, Inc, Asking
<1>6. CASE Fold(p)
  <2> DEFINE c == [call[p] EXCEPT !.pc = "readPending", !.totals = Totals(ledger), !.seen = LastSeq]
  <2>1. CallShape(c) /\ c.pc = "readPending"
    BY <1>1 DEF CallShape
  <2>2. QED
    BY <1>6, <2>1, OtherLedgerStep DEF Serve, Fold, Asking
<1>7. CASE ReadPending(p)
  <2> DEFINE c == [call[p] EXCEPT !.pc = "write", !.reserved = balance.pending]
  <2>1. CallShape(c) /\ c.pc = "write"
    BY <1>1 DEF CallShape
  <2>2. QED
    BY <1>7, <2>1, OtherLedgerStep DEF Serve, ReadPending, Asking
<1>8. CASE Write(p)
  <2> DEFINE c == Finished(call[p])
  <2>1. CallShape(c) /\ c.pc = "done"
    BY CallsOK
  <2>2. QED
    BY <1>8, <2>1, OtherLedgerStep DEF Serve, Write, Asking
<1>9. QED
  BY <1>2, <1>3, <1>4, <1>5, <1>6, <1>7, <1>8 DEF Serve, LedgerStep

-----------------------------------------------------------------------------
(* The steps of the handlers.                                              *)

LEMMA ControlAt ==
  ASSUME IInv, NEW p \in Callers
  PROVE  ControlOK(handler[p], call[p]) /\ HandlerShape(handler[p]) /\ CallShape(call[p])
BY DEF IInv, Control, ControlOK

(* What Goto and Return leave behind.                                      *)
LEMMA GotoIs ==
  ASSUME IInv, NEW p \in Callers, NEW x, Goto(p, x)
  PROVE  LET h == [handler[p] EXCEPT !.pc = x]
         IN  /\ handler' = [handler EXCEPT ![p] = h] /\ HandlerShape(h)
             /\ h.pc = x /\ h.req = handler[p].req /\ h.flow = handler[p].flow
<1>1. HandlerShape(handler[p])
  BY ControlAt
<1>2. QED
  BY <1>1 DEF Goto, HandlerShape, IInv, Shapes

LEMMA CallStays == ASSUME IInv, NEW p \in Callers, UNCHANGED call PROVE call' = [call EXCEPT ![p] = call[p]]
BY DEF IInv, Shapes

(* A status, or another field of a request, is written.                    *)
LEMMA RequestsStay == ASSUME IInv, UNCHANGED request PROVE RequestsOK'
BY DEF IInv, Shapes, RequestsOK

Marks(r, s) == request' = [request EXCEPT ![r].status = s]

LEMMA StatusIs ==
  ASSUME IInv, NEW r \in Requests, NEW s, Marks(r, s)
  PROVE  /\ RequestsOK' /\ request'[r].status = s
         /\ \A o \in Requests : o # r => request'[o].status = request[o].status
<1>1. request = [o \in Requests |-> request[o]] /\ \A o \in Requests : DocShape(request[o])
  BY DEF IInv, Shapes, RequestsOK
<1> DEFINE d == [request[r] EXCEPT !.status = s]
<1>2. DocShape(d) /\ d.status = s
  BY <1>1 DEF DocShape
<1>3. /\ request'[r] = d /\ request' = [o \in Requests |-> request'[o]]
      /\ \A o \in Requests : o # r => request'[o] = request[o]
  BY <1>1 DEF Marks
<1>4. QED
  BY <1>1, <1>2, <1>3 DEF RequestsOK

(* A handler ends.                                                         *)
LEMMA ReturnStep ==
  ASSUME IInv, NEW p \in Callers, Return(p), RequestsOK',
         \A r \in Requests : request'[r].status = request[r].status,
         UNCHANGED ledger, clashed \subseteq clashed'
  PROVE  IInv'
<1>1. Moves(p, Rest, Idle)
  BY DEF Moves, Return, Put
<1>2. Shapes'
  BY <1>1, MovesAt DEF IInv, Shapes
<1>3. \A r \in Requests : Posts(r, "usage")' = Posts(r, "usage")
  BY DEF Posts
<1>4. QED
  BY <1>1, <1>2, <1>3, RestOK, QuietStep DEF GoesOn

(* A handler goes on.                                                      *)
LEMMA GotoStep ==
  ASSUME IInv, NEW p \in Callers, NEW x, NEW c,
         Goto(p, x), call' = [call EXCEPT ![p] = c], CallShape(c),
         handler[p].req \in Requests,
         x \in {"posting", "settling", "project", "saveIds", "void", "withdrawSave"},
         x \in Withdrawing => handler[p].pc \in Withdrawing,
         c.pc \in Asking => /\ x = "posting" /\ Charging(handler[p], call[p])
                            /\ c.entry.type = "usage" /\ c.entry.ref = handler[p].req,
         RequestsOK', \A r \in Requests : request'[r].status = request[r].status,
         UNCHANGED <<ledger, clashed>>
  PROVE  IInv'
<1> DEFINE h == [handler[p] EXCEPT !.pc = x]
<1>1. /\ handler' = [handler EXCEPT ![p] = h] /\ HandlerShape(h)
      /\ h.pc = x /\ h.req = handler[p].req /\ h.flow = handler[p].flow
  BY GotoIs
<1>2. Moves(p, h, c)
  BY <1>1 DEF Moves
<1>3. ControlOK(h, c)
  <2>1. ControlOK(handler[p], call[p])
    BY ControlAt
  <2>2. QED
    BY <1>1, <2>1 DEF ControlOK, Entering, Withdrawing
<1>4. GoesOn(handler[p], call[p], h, c)
  BY <1>1 DEF GoesOn, Charging, Entering
<1>5. Shapes'
  BY <1>2, MovesAt DEF IInv, Shapes
<1>6. \A r \in Requests : Posts(r, "usage")' = Posts(r, "usage")
  BY DEF Posts
<1>7. h # Rest
  BY <1>1, RestOK
<1>8. QED
  BY <1>2, <1>3, <1>4, <1>5, <1>6, <1>7, QuietStep

(* The usage entry, and where finalizeApprovedRequest begins.              *)
LEMMA UsageIs ==
  \A r : LET c == Appending(Usage(r))
         IN  CallShape(c) /\ c.pc = "readSeq" /\ c.entry.type = "usage" /\ c.entry.ref = r
BY CallsOK DEF Usage

LEMMA DecomposeStep ==
  ASSUME IInv, NEW p \in Callers, Decompose(p) PROVE IInv'
<1> DEFINE covered == IF balance.available > 0 THEN balance.available ELSE 0
           paid == IF covered < Length(handler[p].req) THEN covered ELSE Length(handler[p].req)
           h == [handler[p] EXCEPT !.pc = "insert", !.doc.paid = paid]
<1>1. ControlOK(handler[p], call[p]) /\ HandlerShape(handler[p]) /\ handler[p].pc = "readBalance"
  BY ControlAt DEF Decompose, On
<1>2. handler' = [handler EXCEPT ![p] = h]
  BY DEF Decompose, IInv, Shapes
<1>3. HandlerShape(h) /\ h.pc = "insert" /\ h.req = handler[p].req /\ h.flow = handler[p].flow
  BY <1>1 DEF HandlerShape
<1>4. Moves(p, h, call[p])
  BY <1>2, CallStays DEF Moves, Decompose
<1>5. ControlOK(h, call[p])
  BY <1>1, <1>3 DEF ControlOK, Entering, Withdrawing
<1>6. GoesOn(handler[p], call[p], h, call[p])
  BY <1>1, <1>3 DEF GoesOn, Charging, Entering, Withdrawing
<1>7. Shapes'
  BY <1>4, MovesAt, RequestsStay DEF IInv, Shapes, Decompose
<1>8. \A r \in Requests : Posts(r, "usage")' = Posts(r, "usage")
  BY DEF Posts, Decompose, store
<1>9. h # Rest
  BY <1>3, RestOK
<1>10. QED
  BY <1>4, <1>5, <1>6, <1>7, <1>8, <1>9, QuietStep DEF Decompose

LEMMA InsertStep ==
  ASSUME IInv, NEW p \in Callers, Insert(p) PROVE IInv'
<1> DEFINE r == handler[p].req
           paid == handler[p].doc.paid
           s == IF ChainOf[r] = 0 THEN "approved" ELSE "pending"
           d == [request[r] EXCEPT !.status = s, !.paid = paid]
<1>1. ControlOK(handler[p], call[p]) /\ CallShape(call[p]) /\ handler[p].pc = "insert" /\ r \in Requests
  BY ControlAt DEF Insert, On, ControlOK
<1>2. request[r].status = "none"
  BY <1>1 DEF IInv, EntersAlone, Entering
<1>3. /\ RequestsOK' /\ request'[r].status = s
      /\ \A o \in Requests : o # r => request'[o].status = request[o].status
  <2>1. request = [o \in Requests |-> request[o]] /\ \A o \in Requests : DocShape(request[o])
    BY DEF IInv, Shapes, RequestsOK
  <2>2. DocShape(d) /\ d.status = s
    BY <1>1, <2>1 DEF DocShape
  <2>3. request' = [request EXCEPT ![r] = d]
    BY <1>1, <2>1 DEF Insert
  <2>4. /\ request'[r] = d /\ request' = [o \in Requests |-> request'[o]]
        /\ \A o \in Requests : o # r => request'[o] = request[o]
    BY <1>1, <2>1, <2>3
  <2>5. QED
    BY <2>1, <2>2, <2>4 DEF RequestsOK
<1>4. PICK h, c : /\ Moves(p, h, c) /\ ControlOK(h, c)
                  /\ h = Rest \/ (h.req = r /\ h.flow = handler[p].flow)
                  /\ h.pc \in {"reserving", "project", "idle"}
                  /\ Charging(h, c) => s = "approved"
  <2>1. CASE paid > 0
    <3> DEFINE h == [handler[p] EXCEPT !.pc = "reserving"]
               c == Adjusting(paid)
    <3>1. Goto(p, "reserving") /\ Put(p, c)
      BY <2>1 DEF Insert, Calls
    <3>2. /\ handler' = [handler EXCEPT ![p] = h] /\ HandlerShape(h)
          /\ h.pc = "reserving" /\ h.req = r /\ h.flow = handler[p].flow
      BY <3>1, GotoIs
    <3>3. CallShape(c) /\ c.pc = "inc"
      BY CallsOK
    <3>4. ControlOK(h, c) /\ (Charging(h, c) => s = "approved")
      BY <1>1, <3>2, <3>3 DEF ControlOK, Charging, Entering, Withdrawing, Asking
    <3>5. Moves(p, h, c)
      BY <3>1, <3>2 DEF Moves, Put
    <3>6. QED
      BY <3>2, <3>4, <3>5
  <2>2. CASE ~(paid > 0) /\ ChainOf[r] = 0
    <3> DEFINE h == [handler[p] EXCEPT !.pc = "project"]
    <3>1. Goto(p, "project") /\ UNCHANGED call
      BY <2>2 DEF Insert
    <3>2. /\ handler' = [handler EXCEPT ![p] = h] /\ HandlerShape(h)
          /\ h.pc = "project" /\ h.req = r /\ h.flow = handler[p].flow
      BY <3>1, GotoIs
    <3>3. Moves(p, h, call[p])
      BY <3>1, <3>2, CallStays DEF Moves
    <3>4. ControlOK(h, call[p]) /\ ~Charging(h, call[p])
      BY <1>1, <3>2 DEF ControlOK, Charging, Entering, Withdrawing
    <3>5. QED
      BY <3>2, <3>3, <3>4
  <2>3. CASE ~(paid > 0) /\ ChainOf[r] # 0
    <3>1. Moves(p, Rest, Idle)
      BY <2>3 DEF Insert, Return, Put, Moves
    <3>2. ControlOK(Rest, Idle) /\ Rest.pc \in {"reserving", "project", "idle"} /\ ~Charging(Rest, Idle)
      BY RestOK
    <3>3. QED
      BY <3>1, <3>2
  <2>4. QED
    BY <2>1, <2>2, <2>3
<1>5. Shapes'
  BY <1>3, <1>4, MovesAt DEF IInv, Shapes
<1>6. UNCHANGED <<ledger, clashed>>
  BY DEF Insert, store
<1>7. QED
  BY <1>1, <1>2, <1>3, <1>4, <1>5, <1>6, StatusStep DEF Entering, Withdrawing

LEMMA ReserveStep ==
  ASSUME IInv, NEW p \in Callers, Reserve(p) PROVE IInv'
<1> DEFINE r == handler[p].req
<1>1. handler[p].pc = "reserving" /\ r \in Requests /\ CallShape(call[p]) /\ call[p].pc = "done"
  BY ControlAt DEF Reserve, Served, On, At, ControlOK
<1>2. RequestsOK' /\ UNCHANGED <<ledger, request, clashed>>
  BY RequestsStay DEF Reserve, store
<1>3. CASE ChainOf[r] = 0 /\ request[r].paid > 0
  <2>1. Goto(p, "posting") /\ call' = [call EXCEPT ![p] = Appending(Usage(r))]
    BY <1>3 DEF Reserve, Finalize, Calls, Put
  <2>2. Charging(handler[p], call[p])
    BY <1>1, <1>3 DEF Charging
  <2>3. QED
    BY <1>1, <1>2, <2>1, <2>2, UsageIs, GotoStep DEF Withdrawing
<1>4. CASE ChainOf[r] = 0 /\ ~(request[r].paid > 0)
  <2>1. Goto(p, "project") /\ call' = [call EXCEPT ![p] = call[p]]
    BY <1>4, CallStays DEF Reserve, Finalize
  <2>2. QED
    BY <1>1, <1>2, <2>1, GotoStep DEF Withdrawing, Asking
<1>5. CASE ChainOf[r] # 0
  <2>1. Return(p)
    BY <1>5 DEF Reserve
  <2>2. QED
    BY <1>2, <2>1, ReturnStep
<1>6. QED
  BY <1>3, <1>4, <1>5

(* The steps of finalizeApprovedRequest.                                   *)
LEMMA FinalizeSteps ==
  ASSUME IInv, NEW p \in Callers, Posted(p) \/ Settle(p) \/ Project(p) \/ SaveIds(p) PROVE IInv'
<1> DEFINE r == handler[p].req
<1>1. handler[p].pc \in {"posting", "settling", "project", "saveIds"} /\ r \in Requests
  BY ControlAt DEF Posted, Settle, Project, SaveIds, Served, On, ControlOK
<1>2. CASE Posted(p)
  <2> DEFINE c == Adjusting(- request[r].paid)
  <2>1. Goto(p, "settling") /\ call' = [call EXCEPT ![p] = c]
    BY <1>2 DEF Posted, Calls, Put
  <2>2. CallShape(c) /\ c.pc = "inc"
    BY CallsOK
  <2>3. RequestsOK' /\ UNCHANGED <<ledger, request, clashed>>
    BY <1>2, RequestsStay DEF Posted, store
  <2>4. QED
    BY <1>1, <2>1, <2>2, <2>3, GotoStep DEF Withdrawing, Asking
<1>3. CASE Settle(p)
  <2>1. Goto(p, "project") /\ call' = [call EXCEPT ![p] = call[p]] /\ call[p].pc = "done"
    BY <1>3, CallStays DEF Settle, Served, At
  <2>2. RequestsOK' /\ UNCHANGED <<ledger, request, clashed>>
    BY <1>3, RequestsStay DEF Settle, store
  <2>3. QED
    BY <1>1, <2>1, <2>2, ControlAt, GotoStep DEF Withdrawing, Asking
<1>4. CASE Project(p)
  <2>1. Goto(p, "saveIds") /\ call' = [call EXCEPT ![p] = call[p]] /\ handler[p].pc = "project"
    BY <1>4, CallStays DEF Project, On
  <2>2. call[p].pc \notin Asking
    BY <2>1, ControlAt DEF ControlOK
  <2>3. RequestsOK' /\ UNCHANGED <<ledger, request, clashed>>
    BY <1>4, RequestsStay DEF Project, store
  <2>4. QED
    BY <1>1, <2>1, <2>2, <2>3, ControlAt, GotoStep DEF Withdrawing
<1>5. CASE SaveIds(p)
  <2> DEFINE d == [request[r] EXCEPT !.eventIds = TRUE]
  <2>1. request = [o \in Requests |-> request[o]] /\ \A o \in Requests : DocShape(request[o])
    BY DEF IInv, Shapes, RequestsOK
  <2>2. DocShape(d) /\ d.status = request[r].status
    BY <1>1, <2>1 DEF DocShape
  <2>3. request' = [request EXCEPT ![r] = d]
    BY <1>1, <1>5, <2>1 DEF SaveIds
  <2>4. /\ request'[r] = d /\ request' = [o \in Requests |-> request'[o]]
        /\ \A o \in Requests : o # r => request'[o] = request[o]
    BY <1>1, <2>1, <2>3
  <2>5. RequestsOK' /\ \A o \in Requests : request'[o].status = request[o].status
    BY <2>1, <2>2, <2>4 DEF RequestsOK
  <2>6. Return(p) /\ UNCHANGED ledger /\ UNCHANGED clashed
    BY <1>5 DEF SaveIds, store
  <2>7. QED
    BY <2>5, <2>6, ReturnStep
<1>6. QED
  BY <1>2, <1>3, <1>4, <1>5

(* A status is written, and the handler returns.                           *)
LEMMA ReturnWithStatus ==
  ASSUME IInv, NEW p \in Callers, NEW r \in Requests, NEW s, handler[p].req = r,
         Marks(r, s), Return(p),
         handler[p].flow \in {"approve", "reject", "cancel", "withdraw"},
         s \notin {"none", "pending"}, UNCHANGED <<ledger, clashed>>
  PROVE  IInv'
<1>1. /\ RequestsOK' /\ request'[r].status = s
      /\ \A o \in Requests : o # r => request'[o].status = request[o].status
  BY StatusIs
<1>2. Moves(p, Rest, Idle)
  BY DEF Return, Put, Moves
<1>3. Shapes'
  BY <1>1, <1>2, MovesAt DEF IInv, Shapes
<1>4. QED
  BY <1>1, <1>2, <1>3, RestOK, StatusStep DEF Entering, Withdrawing

(* ... or goes on to what follows the verdict.                             *)
GoesOnWithStatus(p, r, s, x, c) ==
  /\ Marks(r, s) /\ Goto(p, x) /\ call' = [call EXCEPT ![p] = c]
  /\ handler[p].req = r /\ CallShape(c)
  /\ x \in {"posting", "project", "releasing"}
  /\ c.pc \in Asking => /\ x = "posting" /\ c.entry.type = "usage" /\ c.entry.ref = r
                         /\ request[r].status = "pending"
  /\ handler[p].flow \in {"approve", "reject", "cancel", "withdraw"}
  /\ s \notin {"none", "pending"}
  /\ UNCHANGED <<ledger, clashed>>

LEMMA GotoWithStatus ==
  ASSUME IInv, NEW p \in Callers, NEW r \in Requests, NEW s, NEW x, NEW c,
         GoesOnWithStatus(p, r, s, x, c)
  PROVE  IInv'
<1> USE DEF GoesOnWithStatus
<1> DEFINE h == [handler[p] EXCEPT !.pc = x]
<1>1. /\ RequestsOK' /\ request'[r].status = s
      /\ \A o \in Requests : o # r => request'[o].status = request[o].status
  BY StatusIs
<1>2. /\ handler' = [handler EXCEPT ![p] = h] /\ HandlerShape(h)
      /\ h.pc = x /\ h.req = r /\ h.flow = handler[p].flow
  BY GotoIs
<1>3. Moves(p, h, c)
  BY <1>2 DEF Moves
<1>4. ControlOK(h, c)
  BY <1>2 DEF ControlOK, Entering, Withdrawing
<1>5. Charging(h, c) => request[r].status = "pending"
  BY <1>2 DEF Charging
<1>6. Shapes'
  BY <1>1, <1>3, MovesAt DEF IInv, Shapes
<1>7. h.pc \notin Entering \cup Withdrawing \cup {"cancelSave"}
  BY <1>2 DEF Entering, Withdrawing
<1>8. QED
  BY <1>1, <1>2, <1>3, <1>4, <1>5, <1>6, <1>7, StatusStep

LEMMA DecideStep ==
  ASSUME IInv, NEW p \in Callers, Decide(p) PROVE IInv'
<1> DEFINE r == handler[p].req
<1>1. /\ handler[p].pc = "decide" /\ r \in Requests /\ handler[p].flow = "approve"
      /\ CallShape(call[p]) /\ call[p].pc \notin Asking
  BY ControlAt DEF Decide, On, ControlOK
<1>2. request[r].status = "pending" /\ UNCHANGED <<ledger, clashed>>
  BY DEF Decide, Undecided, store
<1>3. CASE Final(handler[p].doc, r) /\ request[r].paid > 0
  <2>1. /\ Marks(r, "approved") /\ Goto(p, "posting")
        /\ call' = [call EXCEPT ![p] = Appending(Usage(r))]
    BY <1>3 DEF Decide, Finalize, Calls, Put, Marks
  <2>2. QED
    <3> DEFINE c == Appending(Usage(r))
    <3>1. CallShape(c) /\ c.pc = "readSeq" /\ c.entry.type = "usage" /\ c.entry.ref = r
      BY UsageIs
    <3>2. Marks(r, "approved") /\ Goto(p, "posting") /\ call' = [call EXCEPT ![p] = c]
      BY <2>1
    <3>3. GoesOnWithStatus(p, r, "approved", "posting", c)
      BY <1>1, <1>2, <3>1, <3>2 DEF GoesOnWithStatus
    <3>4. QED
      BY <1>1, <3>3, GotoWithStatus
<1>4. CASE Final(handler[p].doc, r) /\ ~(request[r].paid > 0)
  <2>1. Marks(r, "approved") /\ Goto(p, "project") /\ call' = [call EXCEPT ![p] = call[p]]
    BY <1>4, CallStays DEF Decide, Finalize, Marks
  <2>2. GoesOnWithStatus(p, r, "approved", "project", call[p])
    BY <1>1, <1>2, <2>1 DEF GoesOnWithStatus
  <2>3. QED
    BY <1>1, <2>2, GotoWithStatus
<1>5. CASE ~Final(handler[p].doc, r)
  <2> DEFINE d == [request[r] EXCEPT !.level = @ + 1]
  <2>1. request = [o \in Requests |-> request[o]] /\ \A o \in Requests : DocShape(request[o])
    BY DEF IInv, Shapes, RequestsOK
  <2>2. DocShape(d) /\ d.status = request[r].status
    BY <1>1, <2>1 DEF DocShape
  <2>3. request' = [request EXCEPT ![r] = d] /\ Return(p)
    BY <1>1, <1>5, <2>1 DEF Decide
  <2>4. /\ request'[r] = d /\ request' = [o \in Requests |-> request'[o]]
        /\ \A o \in Requests : o # r => request'[o] = request[o]
    BY <1>1, <2>1, <2>3
  <2>5. RequestsOK' /\ \A o \in Requests : request'[o].status = request[o].status
    BY <2>1, <2>2, <2>4 DEF RequestsOK
  <2>6. QED
    BY <1>2, <2>3, <2>5, ReturnStep
<1>6. QED
  BY <1>3, <1>4, <1>5

(* A rejection and a cancellation, which give back what was reserved.      *)
LEMMA ReleaseStep ==
  ASSUME IInv, NEW p \in Callers, Refuse(p) \/ CancelSave(p) PROVE IInv'
<1> DEFINE r == handler[p].req
           s == IF handler[p].pc = "refuse" THEN "rejected" ELSE "cancelled"
           c == Adjusting(- handler[p].doc.paid)
<1>1. /\ handler[p].pc \in {"refuse", "cancelSave"} /\ r \in Requests
      /\ handler[p].flow \in {"reject", "cancel"}
  BY ControlAt DEF Refuse, CancelSave, On, ControlOK
<1>2. Marks(r, s) /\ Release(p) /\ UNCHANGED <<ledger, clashed>>
  BY <1>1 DEF Refuse, CancelSave, On, store, Marks
<1>3. CASE handler[p].doc.paid > 0
  <2>1. Goto(p, "releasing") /\ call' = [call EXCEPT ![p] = c]
    BY <1>2, <1>3 DEF Release, Calls, Put
  <2>2. CallShape(c) /\ c.pc = "inc"
    BY CallsOK
  <2>3. GoesOnWithStatus(p, r, s, "releasing", c)
    BY <1>1, <1>2, <2>1, <2>2 DEF GoesOnWithStatus, Asking
  <2>4. QED
    BY <1>1, <2>3, GotoWithStatus
<1>4. CASE ~(handler[p].doc.paid > 0)
  <2>1. Return(p)
    BY <1>2, <1>4 DEF Release
  <2>2. QED
    BY <1>1, <1>2, <2>1, ReturnWithStatus
<1>5. QED
  BY <1>3, <1>4

LEMMA WithdrawSteps ==
  ASSUME IInv, NEW p \in Callers, Reversed(p) \/ Void(p) \/ WithdrawSave(p) PROVE IInv'
<1> DEFINE r == handler[p].req
<1>1. /\ handler[p].pc \in Withdrawing /\ r \in Requests /\ handler[p].flow = "withdraw"
      /\ CallShape(call[p])
  BY ControlAt DEF Reversed, Void, WithdrawSave, Served, On, ControlOK, Withdrawing
<1>2. CASE Reversed(p)
  <2>1. Goto(p, "void") /\ call' = [call EXCEPT ![p] = call[p]] /\ call[p].pc = "done"
    BY <1>2, CallStays DEF Reversed, Served, At
  <2>2. RequestsOK' /\ UNCHANGED <<ledger, request, clashed>>
    BY <1>2, RequestsStay DEF Reversed, store
  <2>3. QED
    BY <1>1, <2>1, <2>2, GotoStep DEF Asking
<1>3. CASE Void(p)
  <2>1. Goto(p, "withdrawSave") /\ call' = [call EXCEPT ![p] = call[p]] /\ handler[p].pc = "void"
    BY <1>3, CallStays DEF Void, On
  <2>2. RequestsOK' /\ UNCHANGED <<ledger, request, clashed>>
    BY <1>3, RequestsStay DEF Void, store
  <2>3. call[p].pc \notin Asking
    BY <2>1, ControlAt DEF ControlOK
  <2>4. QED
    BY <1>1, <2>1, <2>2, <2>3, GotoStep
<1>4. CASE WithdrawSave(p)
  <2>1. Marks(r, "withdrawn") /\ Return(p) /\ UNCHANGED <<ledger, clashed>>
    BY <1>4 DEF WithdrawSave, store, Marks
  <2>2. QED
    BY <1>1, <2>1, ReturnWithStatus
<1>5. QED
  BY <1>2, <1>3, <1>4

(* Handlers that end without a word.                                       *)
LEMMA EndSteps ==
  ASSUME IInv, NEW p \in Callers,
         Conflict(p) \/ Released(p) \/ Credited(p) \/ Abort(p) \/ Die(p)
  PROVE  IInv'
<1>1. /\ Return(p) /\ UNCHANGED <<ledger, request>> /\ clashed \subseteq clashed'
  BY DEF Conflict, Released, Credited, Abort, Die, Cut, store
<1>2. RequestsOK'
  BY <1>1, RequestsStay
<1>3. QED
  BY <1>1, <1>2, ReturnStep

LEMMA LockStep ==
  ASSUME IInv, LockPayroll PROVE IInv'
<1>1. UNCHANGED <<ledger, call, request, handler>> /\ clashed \subseteq clashed'
  BY DEF LockPayroll, store
<1>2. Shapes' /\ Control' /\ EntersAlone'
  BY <1>1 DEF IInv, Shapes, RequestsOK, Control, EntersAlone
<1>3. ChargedAfterVerdict'
  BY <1>1 DEF IInv, ChargedAfterVerdict, Charges, Posts
<1>4. ReadsHold'
  BY <1>1 DEF IInv, ReadsHold
<1>5. QED
  BY <1>2, <1>3, <1>4 DEF IInv

-----------------------------------------------------------------------------
(* The beginnings.                                                         *)

(* A handler at rest waits for no call.                                    *)
LEMMA AtRest ==
  ASSUME IInv, NEW p \in Callers, ~Busy(p)
  PROVE  CallShape(call[p]) /\ call[p].pc \notin Asking
BY ControlAt, RestOK DEF Busy, ControlOK

LEMMA BeginsOK ==
  ASSUME NEW flow, NEW pc, NEW r \in Requests, NEW doc, NEW c, CallShape(c),
         \/ flow = "apply" /\ pc = "readBalance" /\ c.pc \notin Asking
         \/ flow = "approve" /\ pc = "decide" /\ c.pc \notin Asking
         \/ flow = "reject" /\ pc = "refuse" /\ c.pc \notin Asking
         \/ flow = "cancel" /\ pc = "cancelSave" /\ c.pc \notin Asking
         \/ flow = "withdraw" /\ pc = "void" /\ c.pc \notin Asking
         \/ flow = "withdraw" /\ pc = "reversing" /\ c.entry.type = "usage_reversal"
  PROVE  LET h == [flow |-> flow, pc |-> pc, req |-> r, doc |-> doc]
         IN  ControlOK(h, c) /\ ~Charging(h, c)
<1> DEFINE h == [flow |-> flow, pc |-> pc, req |-> r, doc |-> doc]
<1>1. HandlerShape(h) /\ h.flow = flow /\ h.pc = pc /\ h.req = r
  BY DEF HandlerShape
<1>2. QED
  BY <1>1 DEF ControlOK, Charging, Entering, Withdrawing

LEMMA CallSteps ==
  ASSUME IInv, NEW p \in Callers, NEW r \in Requests,
         Apply(p, r) \/ Approve(p, r) \/ Reject(p, r) \/ Cancel(p, r)
  PROVE  IInv'
<1>1. ~Busy(p) /\ call' = [call EXCEPT ![p] = call[p]] /\ UNCHANGED <<ledger, request>>
  BY CallStays DEF Apply, Approve, Reject, Cancel, Begin, store
<1>2. CallShape(call[p]) /\ call[p].pc \notin Asking
  BY <1>1, AtRest
<1>3. CASE Apply(p, r)
  <2>1. /\ Begin(p, "apply", "readBalance", r, NoRequest)
        /\ request[r].status = "none" /\ \A q \in Callers : handler[q].req # r
    BY <1>3 DEF Apply
  <2>2. LET h == [flow |-> "apply", pc |-> "readBalance", req |-> r, doc |-> NoRequest]
        IN  ControlOK(h, call[p]) /\ ~Charging(h, call[p])
    BY <1>2, BeginsOK
  <2>3. QED
    BY <1>1, <2>1, <2>2, BeginStep DEF Entering, Withdrawing
<1>4. CASE Approve(p, r)
  <2>1. Begin(p, "approve", "decide", r, request[r]) /\ request[r].status = "pending"
    BY <1>4 DEF Approve
  <2>2. LET h == [flow |-> "approve", pc |-> "decide", req |-> r, doc |-> request[r]]
        IN  ControlOK(h, call[p]) /\ ~Charging(h, call[p])
    BY <1>2, BeginsOK
  <2>3. QED
    BY <1>1, <2>1, <2>2, BeginStep DEF Entering, Withdrawing
<1>5. CASE Reject(p, r)
  <2>1. Begin(p, "reject", "refuse", r, request[r]) /\ request[r].status = "pending"
    BY <1>5 DEF Reject
  <2>2. LET h == [flow |-> "reject", pc |-> "refuse", req |-> r, doc |-> request[r]]
        IN  ControlOK(h, call[p]) /\ ~Charging(h, call[p])
    BY <1>2, BeginsOK
  <2>3. QED
    BY <1>1, <2>1, <2>2, BeginStep DEF Entering, Withdrawing
<1>6. CASE Cancel(p, r)
  <2>1. Begin(p, "cancel", "cancelSave", r, request[r]) /\ request[r].status = "pending"
    BY <1>6 DEF Cancel
  <2>2. LET h == [flow |-> "cancel", pc |-> "cancelSave", req |-> r, doc |-> request[r]]
        IN  ControlOK(h, call[p]) /\ ~Charging(h, call[p])
    BY <1>2, BeginsOK
  <2>3. QED
    BY <1>1, <2>1, <2>2, BeginStep DEF Entering, Withdrawing
<1>7. QED
  BY <1>3, <1>4, <1>5, <1>6

LEMMA WithdrawStep ==
  ASSUME IInv, NEW p \in Callers, NEW r \in Requests, Withdraw(p, r) PROVE IInv'
<1> DEFINE pc == IF request[r].paid > 0 THEN "reversing" ELSE "void"
           c == IF request[r].paid > 0 THEN Appending(Reversal(r)) ELSE call[p]
<1>1. /\ Begin(p, "withdraw", pc, r, request[r]) /\ request[r].status = "approved" /\ ~Busy(p)
      /\ UNCHANGED <<ledger, request>>
  BY DEF Withdraw, Begin, store
<1>2. call' = [call EXCEPT ![p] = c]
  BY CallStays DEF Withdraw, Put
<1>3. CASE request[r].paid > 0
  <2>1. pc = "reversing" /\ CallShape(c) /\ c.entry.type = "usage_reversal"
    BY <1>3, CallsOK DEF Reversal
  <2>2. LET h == [flow |-> "withdraw", pc |-> pc, req |-> r, doc |-> request[r]]
        IN  ControlOK(h, c) /\ ~Charging(h, c)
    BY <2>1, BeginsOK
  <2>3. QED
    BY <1>1, <1>2, <2>1, <2>2, BeginStep DEF Entering
<1>4. CASE ~(request[r].paid > 0)
  <2>1. pc = "void" /\ CallShape(c) /\ c.pc \notin Asking
    BY <1>1, <1>4, AtRest
  <2>2. LET h == [flow |-> "withdraw", pc |-> pc, req |-> r, doc |-> request[r]]
        IN  ControlOK(h, c) /\ ~Charging(h, c)
    BY <2>1, BeginsOK
  <2>3. QED
    BY <1>1, <1>2, <2>1, <2>2, BeginStep DEF Entering
<1>5. QED
  BY <1>3, <1>4

LEMMA CreditStep ==
  ASSUME IInv, NEW p \in Callers, Credit(p) PROVE IInv'
<1> DEFINE h == [flow |-> "credit", pc |-> "crediting", req |-> None, doc |-> NoRequest]
           c == Appending(Accrual)
<1>1. /\ Begin(p, "credit", "crediting", None, NoRequest) /\ call' = [call EXCEPT ![p] = c]
      /\ UNCHANGED <<ledger, request>>
  BY DEF Credit, Put, store
<1>2. HandlerShape(h) /\ h.pc = "crediting" /\ h.req = None
  BY DEF HandlerShape
<1>3. CallShape(c) /\ c.entry.type = "accrual"
  BY CallsOK DEF Accrual
<1>4. ControlOK(h, c) /\ ~Charging(h, c)
  BY <1>2, <1>3 DEF ControlOK, Charging, Entering, Withdrawing
<1>5. QED
  BY <1>1, <1>4, BeginStep, RequestAssumption DEF Entering, Withdrawing

-----------------------------------------------------------------------------
(* The theorems.                                                           *)

LEMMA InitIInv == RequestInit => IInv
<1> SUFFICES ASSUME RequestInit PROVE IInv
  OBVIOUS
<1>1. /\ handler = [p \in Callers |-> Rest] /\ call = [p \in Callers |-> Idle]
      /\ request = [r \in Requests |-> NoRequest] /\ ledger = {} /\ clashed = {}
  BY DEF RequestInit, Init
<1>2. DocShape(NoRequest)
  BY DEF DocShape, NoRequest
<1>3. Shapes
  BY <1>1, <1>2 DEF Shapes, RequestsOK
<1>4. Control
  BY <1>1, RestOK DEF Control
<1>5. \A p \in Callers : handler[p].pc = "idle" /\ handler[p].req \notin Requests
  BY <1>1, RestOK, RequestAssumption
<1>6. EntersAlone /\ ReadsHold
  BY <1>5 DEF EntersAlone, ReadsHold, Entering
<1>7. ChargedAfterVerdict
  <2>1. \A r \in Requests : Posts(r, "usage") = {}
    BY <1>1 DEF Posts
  <2>2. \A p \in Callers, r \in Requests : ~Charges(p, r)
    BY <1>5 DEF Charges
  <2>3. QED
    BY <2>1, <2>2 DEF ChargedAfterVerdict
<1>8. QED
  BY <1>3, <1>4, <1>6, <1>7 DEF IInv

LEMMA StepIInv == IInv /\ [RequestNext]_rvars => IInv'
<1> SUFFICES ASSUME IInv, [RequestNext]_rvars PROVE IInv'
  OBVIOUS
<1>1. CASE UNCHANGED rvars
  <2>1. UNCHANGED <<ledger, call, request, handler, clashed>>
    BY <1>1 DEF rvars
  <2>2. Shapes' /\ Control' /\ EntersAlone' /\ ReadsHold'
    BY <2>1 DEF IInv, Shapes, RequestsOK, Control, EntersAlone, ReadsHold
  <2>3. ChargedAfterVerdict'
    BY <2>1 DEF IInv, ChargedAfterVerdict, Charges, Posts
  <2>4. QED
    BY <2>2, <2>3 DEF IInv
<1>2. ASSUME NEW p \in Callers, HandlerStep(p) PROVE IInv'
  BY <1>2, DecomposeStep, InsertStep, ReserveStep, DecideStep, ReleaseStep, EndSteps, FinalizeSteps,
     WithdrawSteps DEF HandlerStep
<1>3. ASSUME NEW p \in Callers, Serve(p) \/ Credit(p) \/ Abort(p) \/ Die(p) PROVE IInv'
  BY <1>3, ServeStep, CreditStep, EndSteps
<1>4. ASSUME NEW p \in Callers, NEW r \in Requests,
             Apply(p, r) \/ Approve(p, r) \/ Reject(p, r) \/ Cancel(p, r) \/ Withdraw(p, r)
      PROVE  IInv'
  BY <1>4, CallSteps, WithdrawStep
<1>5. QED
  BY <1>1, <1>2, <1>3, <1>4, LockStep DEF RequestNext

LEMMA IInvAlways == RequestSpec => []IInv
<1>1. RequestInit => IInv
  BY InitIInv
<1>2. IInv /\ [RequestNext]_rvars => IInv'
  BY StepIInv
<1>3. QED
  BY <1>1, <1>2, PTL DEF RequestSpec

LEMMA OneAtMost ==
  ASSUME NEW S, \A c, d \in S : c = d PROVE Cardinality(S) <= 1
<1>1. CASE S = {}
  BY <1>1, FS_EmptySet
<1>2. CASE S # {}
  <2>1. PICK c : S = {c}
    BY <1>2
  <2>2. Cardinality({c}) = 1
    BY FS_Singleton
  <2>3. QED
    BY <2>1, <2>2
<1>3. QED
  BY <1>1, <1>2

(* The days of a request are charged once at most, whichever handlers race *)
(* for it and wherever they die.                                           *)
THEOREM ChargedOnceAlways == RequestSpec => []UsageOnce
<1>1. IInv => UsageOnce
  BY OneAtMost DEF IInv, ChargedAfterVerdict, UsageOnce
<1>2. QED
  BY <1>1, IInvAlways, PTL

(* What a step may do to a status.                                         *)
Stands(r) ==
  /\ request[r].status \in {"rejected", "cancelled", "withdrawn"}
       => request'[r].status = request[r].status
  /\ request[r].status = "approved" => request'[r].status \in {"approved", "withdrawn"}

LEMMA StepStands ==
  ASSUME IInv, [RequestNext]_rvars, NEW r \in Requests \ clashed' PROVE Stands(r)
<1>1. CASE request'[r].status = request[r].status
  BY <1>1 DEF Stands
<1>2. CASE request'[r].status # request[r].status
  <2>1. PICK p \in Callers : \/ Insert(p) \/ Decide(p) \/ Refuse(p) \/ SaveIds(p)
                             \/ CancelSave(p) \/ WithdrawSave(p)
    <3>1. request' # request
      BY <1>2
    <3>2. PICK p \in Callers :
             \/ HandlerStep(p) \/ Serve(p) \/ Credit(p) \/ Abort(p) \/ Die(p)
             \/ \E o \in Requests : \/ Apply(p, o) \/ Approve(p, o) \/ Reject(p, o)
                                    \/ Cancel(p, o) \/ Withdraw(p, o)
      BY <3>1 DEF RequestNext, rvars, LockPayroll
    <3>3. HandlerStep(p)
      BY <3>1, <3>2 DEF Serve, Credit, Abort, Die, Apply, Approve, Reject, Cancel, Withdraw
    <3>4. QED
      BY <3>1, <3>3 DEF HandlerStep, Decompose, Reserve, Conflict, Released, Posted, Settle, Project,
                        Reversed, Void, Credited
  <2> DEFINE o == handler[p].req
  <2>2. o \in Requests /\ UNCHANGED clashed
    BY <2>1, ControlAt DEF Insert, Decide, Refuse, SaveIds, CancelSave, WithdrawSave, On, ControlOK
  <2>3. request = [i \in Requests |-> request[i]] /\ \A i \in Requests : DocShape(request[i])
    BY DEF IInv, Shapes, RequestsOK
  <2>4. CASE Insert(p)
    <3>1. request[o].status = "none"
      BY <2>4 DEF Insert, On, IInv, EntersAlone, Entering
    <3>2. \A i \in Requests : i # o => request'[i] = request[i]
      BY <2>2, <2>3, <2>4 DEF Insert
    <3>3. QED
      BY <1>2, <3>1, <3>2 DEF Stands
  <2>5. CASE Decide(p) \/ Refuse(p)
    <3>1. request[o].status = "pending"
      BY <2>5 DEF Decide, Refuse, Undecided
    <3>2. \A i \in Requests : i # o => request'[i] = request[i]
      BY <2>2, <2>3, <2>5 DEF Decide, Refuse
    <3>3. QED
      BY <1>2, <3>1, <3>2 DEF Stands
  <2>6. CASE SaveIds(p)
    <3> DEFINE d == [request[o] EXCEPT !.eventIds = TRUE]
    <3>1. d.status = request[o].status
      BY <2>2, <2>3 DEF DocShape
    <3>2. request'[r] = IF r = o THEN d ELSE request[r]
      BY <2>2, <2>3, <2>6 DEF SaveIds
    <3>3. QED
      BY <1>2, <3>1, <3>2
  <2>7. CASE CancelSave(p)
    <3>1. handler[p].pc = "cancelSave" /\ Marks(o, "cancelled")
      BY <2>7 DEF CancelSave, On, Marks
    <3>2. r = o
      BY <1>2, <2>2, <3>1, StatusIs
    <3>3. request[o].status = "pending"
      BY <2>2, <3>1, <3>2 DEF IInv, ReadsHold
    <3>4. QED
      BY <3>2, <3>3 DEF Stands
  <2>8. CASE WithdrawSave(p)
    <3>1. handler[p].pc = "withdrawSave" /\ Marks(o, "withdrawn")
      BY <2>8 DEF WithdrawSave, On, Marks
    <3>2. r = o /\ request'[o].status = "withdrawn"
      BY <1>2, <2>2, <3>1, StatusIs
    <3>3. request[o].status = "approved"
      BY <2>2, <3>1, <3>2 DEF IInv, ReadsHold, Withdrawing
    <3>4. QED
      BY <3>2, <3>3 DEF Stands
  <2>9. QED
    BY <2>1, <2>4, <2>5, <2>6, <2>7, <2>8
<1>3. QED
  BY <1>1, <1>2

(* A verdict stands: on a request whose handlers did not get in each       *)
(* other's way, what was decided is not overwritten.                       *)
THEOREM VerdictAlwaysStands == RequestSpec => VerdictStands
<1>1. IInv /\ [RequestNext]_rvars
        => [\A r \in Requests \ clashed' :
              /\ request[r].status \in {"rejected", "cancelled", "withdrawn"}
                   => request'[r].status = request[r].status
              /\ request[r].status = "approved" => request'[r].status \in {"approved", "withdrawn"}]_rvars
  BY StepStands DEF Stands
<1>2. QED
  BY <1>1, IInvAlways, PTL DEF RequestSpec, VerdictStands

-----------------------------------------------------------------------------
(* The documents are of their types.                                       *)

CallNumbers(c) == c.delta \in Int /\ c.reserved \in Int /\ c.totals \in [Fields -> Int]

BalanceNumbers == balance \in [totals : [Fields -> Int], pending : Int, available : Int,
                               lastLedgerSeq : {balance.lastLedgerSeq}]

(* What a call will post, or did, is a number of days.                     *)
Asked(c) == c.entry.quantity \in Int

Numbers ==
  /\ RequestTypeOK
  /\ \A p \in Callers : CallNumbers(call[p]) /\ Asked(call[p])
  /\ BalanceNumbers
  /\ Counted(ledger)

LEMMA CallsNumbers ==
  /\ CallNumbers(Idle) /\ Asked(Idle)
  /\ \A e : e.quantity \in Int => CallNumbers(Appending(e)) /\ Asked(Appending(e))
  /\ \A d \in Int : CallNumbers(Adjusting(d)) /\ Asked(Adjusting(d))
  /\ \A c : c.delta \in Int => CallNumbers(Finished(c)) /\ Asked(Finished(c))
<1>1. CallShape(Idle) /\ CallNumbers(Idle) /\ Asked(Idle)
  BY EmptyTotals DEF CallNumbers, Asked, Idle, NoEntry, CallShape
<1>2. QED
  BY <1>1 DEF CallNumbers, Asked, Appending, Adjusting, Finished, CallShape

LEMMA PostsNumbers ==
  ASSUME Numbers, NEW r \in Requests
  PROVE  /\ request[r].paid \in Nat /\ Usage(r).quantity \in Int /\ Reversal(r).quantity \in Int
         /\ Accrual.quantity \in Int
BY RequestAssumption DEF Numbers, RequestTypeOK, RequestDoc, Usage, Reversal, Accrual

(* A handler and its call, after a step of theirs.                         *)
LEMMA NumbersStep ==
  ASSUME Numbers, NEW p \in Callers, NEW h \in Local, NEW c, Moves(p, h, c),
         CallNumbers(c), Asked(c),
         request' \in [Requests -> RequestDoc], event' \in [Requests -> {"none", "live", "void"}],
         locked' \in BOOLEAN, clashed' \subseteq Requests, BalanceNumbers', Counted(ledger)',
         call = [q \in Callers |-> call[q]]
  PROVE  Numbers'
<1>1. handler' \in [Callers -> Local]
  BY DEF Numbers, RequestTypeOK, Moves
<1>2. \A q \in Callers : CallNumbers(call'[q]) /\ Asked(call'[q])
  BY DEF Numbers, Moves
<1>3. QED
  BY <1>1, <1>2 DEF Numbers, RequestTypeOK

(* Types that a step leaves alone.                                         *)
LEMMA StoreTyped ==
  ASSUME Numbers
  PROVE  /\ UNCHANGED ledger => Counted(ledger)'
         /\ UNCHANGED balance => BalanceNumbers'
BY DEF Numbers, BalanceNumbers, Counted

LEMMA LocalTyped ==
  ASSUME Numbers, IInv, NEW p \in Callers
  PROVE  /\ handler[p] \in Local /\ Rest \in Local
         /\ \A x \in Points : [handler[p] EXCEPT !.pc = x] \in Local
         /\ CallShape(call[p]) /\ CallNumbers(call[p]) /\ Asked(call[p])
         /\ call = [q \in Callers |-> call[q]]
<1>1. NoRequest \in RequestDoc
  BY DEF NoRequest, RequestDoc, Status
<1>2. Rest \in Local
  BY <1>1 DEF Rest, Local, Points
<1>3. handler[p] \in Local
  BY DEF Numbers, RequestTypeOK
<1>4. QED
  BY <1>2, <1>3, ControlAt DEF Numbers, Local, IInv, Shapes

(* What a step leaves of the types, besides its handler's.                 *)
OthersTyped ==
  /\ request' \in [Requests -> RequestDoc]
  /\ event' \in [Requests -> {"none", "live", "void"}]
  /\ locked' \in BOOLEAN
  /\ clashed' \subseteq Requests
  /\ BalanceNumbers'
  /\ Counted(ledger)'

LEMMA OthersStay ==
  ASSUME Numbers
  PROVE  /\ UNCHANGED request => request' \in [Requests -> RequestDoc]
         /\ UNCHANGED event => event' \in [Requests -> {"none", "live", "void"}]
         /\ UNCHANGED locked => locked' \in BOOLEAN
         /\ UNCHANGED clashed => clashed' \subseteq Requests
         /\ UNCHANGED store => BalanceNumbers' /\ Counted(ledger)'
         /\ UNCHANGED <<store, request, event, locked, clashed>> => OthersTyped
BY StoreTyped DEF Numbers, RequestTypeOK, store, OthersTyped

LEMMA GotoNumbers ==
  ASSUME Numbers, IInv, NEW p \in Callers, NEW x \in Points, NEW c, Goto(p, x),
         call' = [call EXCEPT ![p] = c], CallNumbers(c), Asked(c), OthersTyped
  PROVE  Numbers'
<1> DEFINE h == [handler[p] EXCEPT !.pc = x]
<1>1. h \in Local /\ call = [q \in Callers |-> call[q]]
  BY LocalTyped
<1>2. Moves(p, h, c)
  BY GotoIs DEF Moves
<1>3. QED
  BY <1>1, <1>2, NumbersStep DEF OthersTyped

LEMMA ReturnNumbers ==
  ASSUME Numbers, IInv, NEW p \in Callers, Return(p), OthersTyped PROVE Numbers'
<1>1. Moves(p, Rest, Idle)
  BY DEF Return, Put, Moves
<1>2. QED
  BY <1>1, LocalTyped, CallsNumbers, NumbersStep DEF OthersTyped

LEMMA BeginNumbers ==
  ASSUME Numbers, IInv, NEW p \in Callers, NEW flow \in Flows, NEW pc \in Points,
         NEW r \in Requests \cup {None}, NEW doc \in RequestDoc, NEW c,
         Begin(p, flow, pc, r, doc), call' = [call EXCEPT ![p] = c], CallNumbers(c), Asked(c),
         UNCHANGED <<store, request, event, locked>>
  PROVE  Numbers'
<1> DEFINE h == [flow |-> flow, pc |-> pc, req |-> r, doc |-> doc]
<1>1. h \in Local
  BY DEF Local
<1>2. Moves(p, h, c)
  BY DEF Begin, Moves
<1>3. clashed' \subseteq Requests
  BY DEF Numbers, RequestTypeOK, Begin
<1>4. QED
  BY <1>1, <1>2, <1>3, LocalTyped, OthersStay, NumbersStep

(* A request that is written is still one.                                 *)
LEMMA RequestTyped ==
  ASSUME Numbers, NEW r \in Requests
  PROVE  /\ \A s \in Status : Marks(r, s) => request' \in [Requests -> RequestDoc]
         /\ request' = [request EXCEPT ![r].level = @ + 1] => request' \in [Requests -> RequestDoc]
         /\ request' = [request EXCEPT ![r].eventIds = TRUE] => request' \in [Requests -> RequestDoc]
         /\ \A s \in Status, n \in Nat :
              request' = [request EXCEPT ![r].status = s, ![r].paid = n]
                => request' \in [Requests -> RequestDoc]
<1>1. request \in [Requests -> RequestDoc]
  BY DEF Numbers, RequestTypeOK
<1>2. request[r] \in [status : Status, level : Nat, paid : Nat, eventIds : BOOLEAN]
  BY <1>1 DEF RequestDoc
<1>3. ASSUME NEW d \in RequestDoc, request' = [request EXCEPT ![r] = d]
      PROVE  request' \in [Requests -> RequestDoc]
  BY <1>1, <1>3
<1>4. ASSUME NEW s \in Status PROVE [request[r] EXCEPT !.status = s] \in RequestDoc
  BY <1>2 DEF RequestDoc
<1>5. [request[r] EXCEPT !.level = @ + 1] \in RequestDoc
  BY <1>2 DEF RequestDoc
<1>6. [request[r] EXCEPT !.eventIds = TRUE] \in RequestDoc
  BY <1>2 DEF RequestDoc
<1>7. ASSUME NEW s \in Status, NEW n \in Nat
      PROVE  [request[r] EXCEPT !.status = s, !.paid = n] \in RequestDoc
  BY <1>2 DEF RequestDoc
<1>8. ASSUME NEW s \in Status, NEW n \in Nat,
             request' = [request EXCEPT ![r].status = s, ![r].paid = n]
      PROVE  request' = [request EXCEPT ![r] = [request[r] EXCEPT !.status = s, !.paid = n]]
  BY <1>1, <1>8
<1>9. QED
  BY <1>1, <1>3, <1>4, <1>5, <1>6, <1>7, <1>8 DEF Marks

LEMMA CallNumbersStay ==
  ASSUME Numbers, IInv, NEW p \in Callers, UNCHANGED call
  PROVE  call' = [call EXCEPT ![p] = call[p]] /\ CallNumbers(call[p]) /\ Asked(call[p])
BY CallStays, LocalTyped

LEMMA HandlerReq ==
  ASSUME IInv, NEW p \in Callers, handler[p].pc \notin {"idle", "crediting"}
  PROVE  handler[p].req \in Requests
BY ControlAt DEF ControlOK

LEMMA FinalizeNumbers ==
  ASSUME Numbers, IInv, NEW p \in Callers, NEW r \in Requests, Finalize(p, r), OthersTyped
  PROVE  Numbers'
<1>1. CASE request[r].paid > 0
  <2> DEFINE c == Appending(Usage(r))
  <2>1. CallNumbers(c) /\ Asked(c)
    BY PostsNumbers, CallsNumbers
  <2>2. Goto(p, "posting") /\ call' = [call EXCEPT ![p] = c]
    BY <1>1 DEF Finalize, Calls, Put
  <2>3. QED
    BY <2>1, <2>2, GotoNumbers DEF Points
<1>2. CASE ~(request[r].paid > 0)
  <2>1. Goto(p, "project") /\ UNCHANGED call
    BY <1>2 DEF Finalize
  <2>2. QED
    BY <2>1, CallNumbersStay, GotoNumbers DEF Points
<1>3. QED
  BY <1>1, <1>2

LEMMA ReleaseNumbers ==
  ASSUME Numbers, IInv, NEW p \in Callers, Release(p), OthersTyped
  PROVE  Numbers'
<1>1. CASE handler[p].doc.paid > 0
  <2> DEFINE c == Adjusting(- handler[p].doc.paid)
  <2>1. handler[p].doc.paid \in Nat
    BY LocalTyped DEF Local, RequestDoc
  <2>2. CallNumbers(c) /\ Asked(c)
    BY <2>1, CallsNumbers
  <2>3. Goto(p, "releasing") /\ call' = [call EXCEPT ![p] = c]
    BY <1>1 DEF Release, Calls, Put
  <2>4. QED
    BY <2>2, <2>3, GotoNumbers DEF Points
<1>2. CASE ~(handler[p].doc.paid > 0)
  BY <1>2, ReturnNumbers DEF Release
<1>3. QED
  BY <1>1, <1>2

LEMMA EnterNumbers ==
  ASSUME Numbers, IInv, NEW p \in Callers, Decompose(p) \/ Insert(p) \/ Reserve(p)
  PROVE  Numbers'
<1> DEFINE r == handler[p].req
<1>1. r \in Requests
  BY HandlerReq DEF Decompose, Insert, Reserve, On, Served
<1>2. CASE Decompose(p)
  <2> DEFINE covered == IF balance.available > 0 THEN balance.available ELSE 0
             paid == IF covered < Length(r) THEN covered ELSE Length(r)
             h == [handler[p] EXCEPT !.pc = "insert", !.doc.paid = paid]
  <2>1. Length(r) \in Nat
    BY <1>1, RequestAssumption, FS_CardinalityType DEF Length
  <2>2. covered \in Nat
    BY DEF Numbers, BalanceNumbers
  <2>3. paid \in Nat
    BY <2>1, <2>2
  <2>4. h \in Local
    <3> DEFINE d == [handler[p].doc EXCEPT !.paid = paid]
    <3> HIDE DEF paid
    <3>1. handler[p] \in [flow : Flows \cup {"none"}, pc : Points, req : Requests \cup {None},
                          doc : RequestDoc]
      BY LocalTyped DEF Local
    <3>2. d \in RequestDoc
      BY <2>3, <3>1 DEF RequestDoc
    <3>3. h = [handler[p] EXCEPT !.pc = "insert", !.doc = d] /\ "insert" \in Points
      BY <3>1 DEF Points
    <3> HIDE DEF d
    <3>4. QED
      BY <3>1, <3>2, <3>3 DEF Local
  <2>5. Moves(p, h, call[p])
    <3>1. handler' = [handler EXCEPT ![p] = h]
      BY <1>2 DEF Decompose, IInv, Shapes
    <3>2. QED
      BY <1>2, <3>1, CallStays DEF Decompose, Moves
  <2>6. QED
    BY <1>2, <2>4, <2>5, LocalTyped, OthersStay, NumbersStep DEF Decompose, OthersTyped
<1>3. CASE Insert(p)
  <2> DEFINE paid == handler[p].doc.paid
             s == IF ChainOf[r] = 0 THEN "approved" ELSE "pending"
  <2>1. paid \in Nat /\ s \in Status
    BY LocalTyped DEF Local, RequestDoc, Status
  <2>2. request' = [request EXCEPT ![r].status = s, ![r].paid = paid]
    BY <1>3 DEF Insert
  <2>3. request' \in [Requests -> RequestDoc]
    BY <1>1, <2>1, <2>2, RequestTyped
  <2>4. OthersTyped
    BY <1>3, <2>3, OthersStay DEF Insert, OthersTyped
  <2>5. CASE paid > 0
    <3> DEFINE c == Adjusting(paid)
    <3>1. CallNumbers(c) /\ Asked(c)
      BY <2>1, CallsNumbers
    <3>2. Goto(p, "reserving") /\ call' = [call EXCEPT ![p] = c]
      BY <1>3, <2>5 DEF Insert, Calls, Put
    <3>3. QED
      BY <2>4, <3>1, <3>2, GotoNumbers DEF Points
  <2>6. CASE ~(paid > 0) /\ ChainOf[r] = 0
    <3>1. Goto(p, "project") /\ UNCHANGED call
      BY <1>3, <2>6 DEF Insert
    <3>2. QED
      BY <2>4, <3>1, CallNumbersStay, GotoNumbers DEF Points
  <2>7. CASE ~(paid > 0) /\ ChainOf[r] # 0
    BY <1>3, <2>4, <2>7, ReturnNumbers DEF Insert
  <2>8. QED
    BY <2>5, <2>6, <2>7
<1>4. CASE Reserve(p)
  <2>1. OthersTyped
    BY <1>4, OthersStay DEF Reserve
  <2>2. Finalize(p, r) \/ Return(p)
    BY <1>4 DEF Reserve
  <2>3. QED
    BY <1>1, <2>1, <2>2, FinalizeNumbers, ReturnNumbers
<1>5. QED
  BY <1>2, <1>3, <1>4

LEMMA VerdictNumbers ==
  ASSUME Numbers, IInv, NEW p \in Callers, Decide(p) \/ Refuse(p) \/ CancelSave(p)
  PROVE  Numbers'
<1> DEFINE r == handler[p].req
<1>1. r \in Requests
  BY HandlerReq DEF Decide, Refuse, CancelSave, On
<1>2. CASE Decide(p) /\ Final(handler[p].doc, r)
  <2>1. Marks(r, "approved") /\ Finalize(p, r)
    BY <1>2 DEF Decide, Marks
  <2>2. OthersTyped
    BY <1>1, <1>2, <2>1, RequestTyped, OthersStay DEF Decide, OthersTyped, Status
  <2>3. QED
    BY <1>1, <2>1, <2>2, FinalizeNumbers
<1>3. CASE Decide(p) /\ ~Final(handler[p].doc, r)
  <2>1. request' = [request EXCEPT ![r].level = @ + 1] /\ Return(p)
    BY <1>3 DEF Decide
  <2>2. OthersTyped
    BY <1>1, <1>3, <2>1, RequestTyped, OthersStay DEF Decide, OthersTyped
  <2>3. QED
    BY <2>1, <2>2, ReturnNumbers
<1>4. CASE Refuse(p) \/ CancelSave(p)
  <2>1. PICK s \in {"rejected", "cancelled"} : Marks(r, s)
    BY <1>4 DEF Refuse, CancelSave, Marks
  <2>2. OthersTyped
    BY <1>1, <1>4, <2>1, RequestTyped, OthersStay DEF Refuse, CancelSave, OthersTyped, Status
  <2>3. QED
    BY <1>4, <2>2, ReleaseNumbers DEF Refuse, CancelSave
<1>5. QED
  BY <1>2, <1>3, <1>4

LEMMA FinalizingNumbers ==
  ASSUME Numbers, IInv, NEW p \in Callers, Posted(p) \/ Settle(p) \/ Project(p) \/ SaveIds(p)
  PROVE  Numbers'
<1> DEFINE r == handler[p].req
<1>1. r \in Requests
  BY HandlerReq DEF Posted, Settle, Project, SaveIds, On, Served
<1>2. CASE Posted(p)
  <2> DEFINE c == Adjusting(- request[r].paid)
  <2>1. CallNumbers(c) /\ Asked(c)
    BY <1>1, PostsNumbers, CallsNumbers
  <2>2. Goto(p, "settling") /\ call' = [call EXCEPT ![p] = c]
    BY <1>2 DEF Posted, Calls, Put
  <2>3. QED
    BY <1>2, <2>1, <2>2, OthersStay, GotoNumbers DEF Posted, Points
<1>3. CASE Settle(p)
  <2>1. Goto(p, "project") /\ UNCHANGED call
    BY <1>3 DEF Settle
  <2>2. QED
    BY <1>3, <2>1, CallNumbersStay, OthersStay, GotoNumbers DEF Settle, Points
<1>4. CASE Project(p)
  <2>1. Goto(p, "saveIds") /\ UNCHANGED call
    BY <1>4 DEF Project
  <2>2. event' \in [Requests -> {"none", "live", "void"}]
    BY <1>4 DEF Project, Numbers, RequestTypeOK
  <2>3. OthersTyped
    BY <1>4, <2>2, OthersStay DEF Project, OthersTyped
  <2>4. QED
    BY <2>1, <2>3, CallNumbersStay, GotoNumbers DEF Points
<1>5. CASE SaveIds(p)
  <2>1. request' = [request EXCEPT ![r].eventIds = TRUE] /\ Return(p)
    BY <1>5 DEF SaveIds
  <2>2. OthersTyped
    BY <1>1, <1>5, <2>1, RequestTyped, OthersStay DEF SaveIds, OthersTyped
  <2>3. QED
    BY <2>1, <2>2, ReturnNumbers
<1>6. QED
  BY <1>2, <1>3, <1>4, <1>5

LEMMA WithdrawingNumbers ==
  ASSUME Numbers, IInv, NEW p \in Callers, Reversed(p) \/ Void(p) \/ WithdrawSave(p)
  PROVE  Numbers'
<1> DEFINE r == handler[p].req
<1>1. r \in Requests
  BY HandlerReq DEF Reversed, Void, WithdrawSave, On, Served
<1>2. CASE Reversed(p)
  <2>1. Goto(p, "void") /\ UNCHANGED call
    BY <1>2 DEF Reversed
  <2>2. QED
    BY <1>2, <2>1, CallNumbersStay, OthersStay, GotoNumbers DEF Reversed, Points
<1>3. CASE Void(p)
  <2>1. Goto(p, "withdrawSave") /\ UNCHANGED call
    BY <1>3 DEF Void
  <2>2. event' \in [Requests -> {"none", "live", "void"}]
    BY <1>3 DEF Void, Numbers, RequestTypeOK
  <2>3. OthersTyped
    BY <1>3, <2>2, OthersStay DEF Void, OthersTyped
  <2>4. QED
    BY <2>1, <2>3, CallNumbersStay, GotoNumbers DEF Points
<1>4. CASE WithdrawSave(p)
  <2>1. Marks(r, "withdrawn") /\ Return(p)
    BY <1>4 DEF WithdrawSave, Marks
  <2>2. OthersTyped
    BY <1>1, <1>4, <2>1, RequestTyped, OthersStay DEF WithdrawSave, OthersTyped, Status
  <2>3. QED
    BY <2>1, <2>2, ReturnNumbers
<1>5. QED
  BY <1>2, <1>3, <1>4

LEMMA BeginsNumbers ==
  ASSUME Numbers, IInv, NEW p \in Callers, NEW r \in Requests,
         Apply(p, r) \/ Approve(p, r) \/ Reject(p, r) \/ Cancel(p, r) \/ Withdraw(p, r)
  PROVE  Numbers'
<1>1. NoRequest \in RequestDoc /\ request[r] \in RequestDoc
  BY DEF NoRequest, RequestDoc, Status, Numbers, RequestTypeOK
<1>2. CASE Apply(p, r) \/ Approve(p, r) \/ Reject(p, r) \/ Cancel(p, r)
  <2>1. UNCHANGED call /\ UNCHANGED <<store, request, event, locked>>
    BY <1>2 DEF Apply, Approve, Reject, Cancel
  <2>2. \/ Begin(p, "apply", "readBalance", r, NoRequest)
        \/ Begin(p, "approve", "decide", r, request[r])
        \/ Begin(p, "reject", "refuse", r, request[r])
        \/ Begin(p, "cancel", "cancelSave", r, request[r])
    BY <1>2 DEF Apply, Approve, Reject, Cancel
  <2>3. QED
    BY <1>1, <2>1, <2>2, CallNumbersStay, BeginNumbers DEF Flows, Points
<1>3. CASE Withdraw(p, r)
  <2> DEFINE pc == IF request[r].paid > 0 THEN "reversing" ELSE "void"
             c == IF request[r].paid > 0 THEN Appending(Reversal(r)) ELSE call[p]
  <2>1. Begin(p, "withdraw", pc, r, request[r]) /\ UNCHANGED <<store, request, event, locked>>
    BY <1>3 DEF Withdraw
  <2>2. call' = [call EXCEPT ![p] = c]
    BY <1>3, CallStays DEF Withdraw, Put
  <2>3. CallNumbers(c) /\ Asked(c)
    BY PostsNumbers, CallsNumbers, LocalTyped
  <2>4. pc \in Points /\ "withdraw" \in Flows
    BY DEF Points, Flows
  <2> HIDE DEF pc, c
  <2>5. QED
    BY <1>1, <2>1, <2>2, <2>3, <2>4, BeginNumbers
<1>4. QED
  BY <1>2, <1>3

LEMMA CreditNumbers ==
  ASSUME Numbers, IInv, NEW p \in Callers, Credit(p) PROVE Numbers'
<1> DEFINE c == Appending(Accrual)
<1>1. NoRequest \in RequestDoc /\ Accrual.quantity \in Int
  BY RequestAssumption DEF NoRequest, RequestDoc, Status, Accrual
<1>2. CallNumbers(c) /\ Asked(c)
  BY <1>1, CallsNumbers
<1>3. /\ Begin(p, "credit", "crediting", None, NoRequest) /\ call' = [call EXCEPT ![p] = c]
      /\ UNCHANGED <<store, request, event, locked>>
  BY DEF Credit, Put
<1>4. QED
  BY <1>1, <1>2, <1>3, BeginNumbers DEF Flows, Points

LEMMA EndsNumbers ==
  ASSUME Numbers, IInv, NEW p \in Callers,
         Conflict(p) \/ Released(p) \/ Credited(p) \/ Abort(p) \/ Die(p)
  PROVE  Numbers'
<1>1. Return(p) /\ UNCHANGED <<ledger, balance, request, event, locked>>
  BY DEF Conflict, Released, Credited, Abort, Die, store
<1>2. handler[p].req \in Requests \cup {None}
  BY LocalTyped DEF Local
<1>3. clashed' \subseteq Requests
  BY <1>2 DEF Numbers, RequestTypeOK, Conflict, Released, Credited, Abort, Die, Cut
<1>4. OthersTyped
  BY <1>1, <1>3, StoreTyped, OthersStay DEF OthersTyped
<1>5. QED
  BY <1>1, <1>4, ReturnNumbers

LEMMA LockNumbers ==
  ASSUME Numbers, LockPayroll PROVE Numbers'
<1>1. UNCHANGED <<store, call, request, event, handler>> /\ locked' = TRUE
  BY DEF LockPayroll
<1>2. clashed' \subseteq Requests
  BY DEF LockPayroll, Underway, Numbers, RequestTypeOK, Local
<1>3. BalanceNumbers' /\ Counted(ledger)'
  BY <1>1, OthersStay
<1>4. QED
  BY <1>1, <1>2, <1>3 DEF Numbers, RequestTypeOK

LEMMA ServeNumbers ==
  ASSUME Numbers, IInv, NEW p \in Callers, Serve(p) PROVE Numbers'
<1> DEFINE c == call[p]
<1>1. CallShape(c) /\ CallNumbers(c) /\ Asked(c) /\ handler[p] \in Local
  BY LocalTyped
<1>2. ASSUME NEW b, Put(p, b), CallNumbers(b), Asked(b), BalanceNumbers', Counted(ledger)'
      PROVE  Numbers'
  <2>1. UNCHANGED <<request, event, locked, handler, clashed>>
    BY DEF Serve
  <2>2. Moves(p, handler[p], b)
    BY <1>2, <2>1 DEF Moves, Put, IInv, Shapes
  <2>3. QED
    BY <1>1, <1>2, <2>1, <2>2, LocalTyped, OthersStay, NumbersStep
<1>3. CASE ReadSeq(p)
  <2> DEFINE b == [c EXCEPT !.pc = "create", !.seq = LastSeq + 1, !.attempt = @ + 1]
  <2>1. CallNumbers(b) /\ Asked(b)
    BY <1>1 DEF CallShape, CallNumbers, Asked
  <2>2. QED
    BY <1>2, <1>3, <2>1, StoreTyped DEF ReadSeq
<1>4. CASE Create(p)
  <2> DEFINE b == [c EXCEPT !.pc = "fold", !.posted = TRUE]
             new == [seq |-> c.seq, entry |-> c.entry]
  <2>1. CallNumbers(b) /\ Asked(b)
    BY <1>1 DEF CallShape, CallNumbers, Asked
  <2>2. ledger' = ledger \cup {new} /\ new.entry.quantity \in Int
    BY <1>1, <1>4 DEF Create, Asked
  <2>3. Counted(ledger)'
    BY <2>2, FS_AddElement DEF Numbers, Counted
  <2>4. QED
    BY <1>2, <1>4, <2>1, <2>3, StoreTyped DEF Create
<1>5. CASE Collide(p)
  <2> DEFINE next == IF c.attempt < RetryLimit THEN "readSeq" ELSE "failed"
             b == [c EXCEPT !.pc = next]
  <2>1. CallNumbers(b) /\ Asked(b)
    BY <1>1 DEF CallShape, CallNumbers, Asked
  <2>2. QED
    BY <1>2, <1>5, <2>1, StoreTyped DEF Collide
<1>6. CASE Inc(p)
  <2> DEFINE b == [c EXCEPT !.pc = "fold", !.posted = TRUE]
  <2>1. CallNumbers(b) /\ Asked(b)
    BY <1>1 DEF CallShape, CallNumbers, Asked
  <2>2. balance' = [balance EXCEPT !.pending = @ + c.delta] /\ c.delta \in Int
    BY <1>1, <1>6 DEF Inc, CallNumbers
  <2>3. BalanceNumbers'
    BY <2>2 DEF Numbers, BalanceNumbers
  <2>4. QED
    BY <1>2, <1>6, <2>1, <2>3, StoreTyped DEF Inc
<1>7. CASE Fold(p)
  <2> DEFINE b == [c EXCEPT !.pc = "readPending", !.totals = Totals(ledger), !.seen = LastSeq]
  <2>1. Totals(ledger) \in [Fields -> Int]
    BY TotalsInt DEF Numbers
  <2>2. CallNumbers(b) /\ Asked(b)
    BY <1>1, <2>1 DEF CallShape, CallNumbers, Asked
  <2>3. QED
    BY <1>2, <1>7, <2>2, StoreTyped DEF Fold
<1>8. CASE ReadPending(p)
  <2> DEFINE b == [c EXCEPT !.pc = "write", !.reserved = balance.pending]
  <2>1. balance.pending \in Int
    BY DEF Numbers, BalanceNumbers
  <2>2. CallNumbers(b) /\ Asked(b)
    BY <1>1, <2>1 DEF CallShape, CallNumbers, Asked
  <2>3. QED
    BY <1>2, <1>8, <2>2, StoreTyped DEF ReadPending
<1>9. CASE Write(p)
  <2>1. c.totals \in [Fields -> Int] /\ Available(c.totals, c.reserved) \in Int
    BY <1>1, AvailableInt DEF CallNumbers
  <2>2. BalanceNumbers'
    BY <1>9, <2>1 DEF Write, Numbers, BalanceNumbers
  <2>3. CallNumbers(Finished(c)) /\ Asked(Finished(c))
    BY <1>1, CallsNumbers DEF CallNumbers
  <2>4. QED
    BY <1>2, <1>9, <2>2, <2>3, StoreTyped DEF Write
<1>10. QED
  BY <1>3, <1>4, <1>5, <1>6, <1>7, <1>8, <1>9 DEF Serve, LedgerStep

LEMMA StepNumbers ==
  ASSUME Numbers, IInv, [RequestNext]_rvars PROVE Numbers'
<1>1. CASE UNCHANGED rvars
  <2>1. UNCHANGED <<ledger, balance, call, request, event, locked, handler, clashed>>
    BY <1>1 DEF rvars
  <2>2. QED
    BY <2>1 DEF Numbers, RequestTypeOK, BalanceNumbers, Counted
<1>2. ASSUME NEW p \in Callers, HandlerStep(p) PROVE Numbers'
  BY <1>2, EnterNumbers, VerdictNumbers, FinalizingNumbers, WithdrawingNumbers, EndsNumbers
     DEF HandlerStep
<1>3. ASSUME NEW p \in Callers, Serve(p) \/ Credit(p) \/ Abort(p) \/ Die(p) PROVE Numbers'
  BY <1>3, ServeNumbers, CreditNumbers, EndsNumbers
<1>4. ASSUME NEW p \in Callers, NEW r \in Requests,
             Apply(p, r) \/ Approve(p, r) \/ Reject(p, r) \/ Cancel(p, r) \/ Withdraw(p, r)
      PROVE  Numbers'
  BY <1>4, BeginsNumbers
<1>5. QED
  BY <1>1, <1>2, <1>3, <1>4, LockNumbers DEF RequestNext

LEMMA InitNumbers == RequestInit => Numbers
<1> SUFFICES ASSUME RequestInit PROVE Numbers
  OBVIOUS
<1>1. /\ ledger = {} /\ call = [p \in Callers |-> Idle] /\ handler = [p \in Callers |-> Rest]
      /\ request = [r \in Requests |-> NoRequest] /\ event = [r \in Requests |-> "none"]
      /\ locked = FALSE /\ clashed = {}
      /\ balance = [totals |-> Totals({}), pending |-> 0, available |-> 0, lastLedgerSeq |-> 0]
  BY DEF RequestInit, Init
<1>2. NoRequest \in RequestDoc
  BY DEF NoRequest, RequestDoc, Status
<1>3. Rest \in Local
  BY <1>2 DEF Rest, Local, Points
<1>4. RequestTypeOK
  BY <1>1, <1>2, <1>3 DEF RequestTypeOK
<1>5. BalanceNumbers
  BY <1>1, EmptyTotals DEF BalanceNumbers
<1>6. Counted(ledger)
  BY <1>1, FS_EmptySet DEF Counted
<1>7. QED
  BY <1>1, <1>4, <1>5, <1>6, CallsNumbers DEF Numbers

(* Requests, their events and the local state of the handlers are of their *)
(* types.                                                                  *)
THEOREM RequestTypeCorrect == RequestSpec => []RequestTypeOK
<1>1. Numbers => RequestTypeOK
  BY DEF Numbers
<1>2. RequestInit => Numbers
  BY InitNumbers
<1>3. Numbers /\ IInv /\ [RequestNext]_rvars => Numbers'
  BY StepNumbers
<1>4. QED
  BY <1>1, <1>2, <1>3, IInvAlways, PTL DEF RequestSpec

-----------------------------------------------------------------------------
(* What the steps do, seen from the handler p that takes them.             *)

(* The handler goes on at a point, with a call; or it is done.             *)
Turns(p, pc, c) ==
  /\ handler'[p].pc = pc /\ handler'[p].req = handler[p].req
  /\ handler'[p].flow = handler[p].flow /\ handler'[p].doc = handler[p].doc
  /\ call'[p] = c

Ends(p) == handler'[p] = Rest /\ call'[p] = Idle

(* The others are where they were.                                         *)
OthersWait(p) == \A q \in Callers \ {p} : handler'[q] = handler[q] /\ call'[q] = call[q]

(* No other request is written; of r at most the status is.                *)
Writes(r) == \A o \in Requests \ {r} : request'[o] = request[o]
Sets(r, s) ==
  /\ Writes(r)
  /\ request'[r].status = s
  /\ request'[r].paid = request[r].paid
  /\ request'[r].eventIds = request[r].eventIds

LEMMA Waits ==
  ASSUME IInv, NEW p \in Callers, NEW h, NEW c, Moves(p, h, c)
  PROVE  OthersWait(p) /\ handler'[p] = h /\ call'[p] = c
BY MovesAt DEF IInv, OthersWait

LEMMA GotoDoes ==
  ASSUME IInv, NEW p \in Callers, NEW x, NEW c, Goto(p, x), call' = [call EXCEPT ![p] = c]
  PROVE  Turns(p, x, c) /\ OthersWait(p)
<1> DEFINE h == [handler[p] EXCEPT !.pc = x]
<1>1. h.pc = x /\ h.req = handler[p].req /\ h.flow = handler[p].flow /\ h.doc = handler[p].doc
  BY ControlAt DEF HandlerShape
<1>2. Moves(p, h, c)
  BY GotoIs DEF Moves
<1>3. QED
  BY <1>1, <1>2, Waits DEF Turns

LEMMA ReturnDoes ==
  ASSUME IInv, NEW p \in Callers, Return(p) PROVE Ends(p) /\ OthersWait(p)
<1>1. Moves(p, Rest, Idle)
  BY DEF Return, Put, Moves
<1>2. QED
  BY <1>1, Waits DEF Ends

LEMMA SetsStatus ==
  ASSUME IInv, NEW r \in Requests, NEW s, Marks(r, s) PROVE Sets(r, s)
<1> DEFINE d == [request[r] EXCEPT !.status = s]
<1>1. request = [o \in Requests |-> request[o]] /\ DocShape(request[r])
  BY DEF IInv, Shapes, RequestsOK
<1>2. d.status = s /\ d.paid = request[r].paid /\ d.eventIds = request[r].eventIds
  BY <1>1 DEF DocShape
<1>3. request'[r] = d /\ Writes(r)
  BY <1>1 DEF Marks, Writes
<1>4. QED
  BY <1>2, <1>3 DEF Sets

LEMMA FinalizeDoes ==
  ASSUME IInv, Numbers, NEW p \in Callers, NEW r \in Requests, Finalize(p, r)
  PROVE  /\ OthersWait(p)
         /\ \/ request[r].paid > 0 /\ Turns(p, "posting", Appending(Usage(r)))
            \/ request[r].paid = 0 /\ Turns(p, "project", call[p])
<1>1. CASE request[r].paid > 0
  BY <1>1, GotoDoes DEF Finalize, Calls, Put
<1>2. CASE ~(request[r].paid > 0)
  <2>1. request[r].paid = 0
    BY <1>2, PostsNumbers
  <2>2. Goto(p, "project") /\ UNCHANGED call
    BY <1>2 DEF Finalize
  <2>3. QED
    BY <2>1, <2>2, CallStays, GotoDoes
<1>3. QED
  BY <1>1, <1>2

LEMMA ReleaseDoes ==
  ASSUME IInv, Numbers, NEW p \in Callers, Release(p)
  PROVE  /\ OthersWait(p)
         /\ \/ handler[p].doc.paid > 0 /\ Turns(p, "releasing", Adjusting(- handler[p].doc.paid))
            \/ handler[p].doc.paid = 0 /\ Ends(p)
<1>1. CASE handler[p].doc.paid > 0
  BY <1>1, GotoDoes DEF Release, Calls, Put
<1>2. CASE ~(handler[p].doc.paid > 0)
  <2>1. handler[p].doc.paid = 0
    BY <1>2, LocalTyped DEF Local, RequestDoc
  <2>2. QED
    BY <1>2, <2>1, ReturnDoes DEF Release
<1>3. QED
  BY <1>1, <1>2

(* The documents of a request, and its events, as they are.                *)
Rests == UNCHANGED <<request, event, clashed>>

LEMMA DecomposeDoes ==
  ASSUME IInv, NEW p \in Callers, Decompose(p)
  PROVE  /\ handler[p].pc = "readBalance" /\ handler'[p].pc = "insert"
         /\ handler'[p].req = handler[p].req /\ handler'[p].flow = handler[p].flow
         /\ call'[p] = call[p] /\ OthersWait(p) /\ UNCHANGED store /\ Rests
<1> DEFINE covered == IF balance.available > 0 THEN balance.available ELSE 0
           paid == IF covered < Length(handler[p].req) THEN covered ELSE Length(handler[p].req)
           h == [handler[p] EXCEPT !.pc = "insert", !.doc.paid = paid]
<1>1. handler' = [handler EXCEPT ![p] = h]
  BY DEF Decompose, IInv, Shapes
<1>2. h.pc = "insert" /\ h.req = handler[p].req /\ h.flow = handler[p].flow
  BY ControlAt DEF HandlerShape
<1>3. Moves(p, h, call[p])
  BY <1>1, CallStays DEF Moves, Decompose
<1>4. QED
  BY <1>2, <1>3, Waits DEF Decompose, On, Rests

LEMMA InsertDoes ==
  ASSUME IInv, Numbers, NEW p \in Callers, Insert(p)
  PROVE  LET r == handler[p].req
             n == handler[p].doc.paid
         IN  /\ handler[p].pc = "insert" /\ n \in Nat /\ r \in Requests
             /\ Writes(r) /\ request'[r].paid = n /\ request'[r].eventIds = request[r].eventIds
             /\ request'[r].status = IF ChainOf[r] = 0 THEN "approved" ELSE "pending"
             /\ \/ n > 0 /\ Turns(p, "reserving", Adjusting(n))
                \/ n = 0 /\ ChainOf[r] = 0 /\ Turns(p, "project", call[p])
                \/ n = 0 /\ ChainOf[r] # 0 /\ Ends(p)
             /\ OthersWait(p) /\ UNCHANGED <<store, event, clashed>>
<1> DEFINE r == handler[p].req
           n == handler[p].doc.paid
           s == IF ChainOf[r] = 0 THEN "approved" ELSE "pending"
           d == [request[r] EXCEPT !.status = s, !.paid = n]
<1>1. handler[p].pc = "insert" /\ n \in Nat /\ r \in Requests
  BY HandlerReq, LocalTyped DEF Insert, On, Local, RequestDoc
<1>2. request = [o \in Requests |-> request[o]] /\ DocShape(request[r])
  BY <1>1 DEF IInv, Shapes, RequestsOK
<1>3. d.status = s /\ d.paid = n /\ d.eventIds = request[r].eventIds
  BY <1>2 DEF DocShape
<1>4. request' = [request EXCEPT ![r] = d]
  BY <1>1, <1>2 DEF Insert
<1>5. request'[r] = d /\ Writes(r)
  BY <1>1, <1>2, <1>4 DEF Writes
<1>6. CASE n > 0
  <2>1. Goto(p, "reserving") /\ call' = [call EXCEPT ![p] = Adjusting(n)]
    BY <1>6 DEF Insert, Calls, Put
  <2>2. QED
    BY <1>1, <1>3, <1>5, <1>6, <2>1, GotoDoes DEF Insert
<1>7. CASE ~(n > 0) /\ ChainOf[r] = 0
  <2>1. Goto(p, "project") /\ UNCHANGED call /\ n = 0
    BY <1>1, <1>7 DEF Insert
  <2>2. QED
    BY <1>1, <1>3, <1>5, <1>7, <2>1, CallStays, GotoDoes DEF Insert
<1>8. CASE ~(n > 0) /\ ChainOf[r] # 0
  <2>1. Return(p) /\ n = 0
    BY <1>1, <1>8 DEF Insert
  <2>2. QED
    BY <1>1, <1>3, <1>5, <1>8, <2>1, ReturnDoes DEF Insert
<1>9. QED
  BY <1>6, <1>7, <1>8

LEMMA ReserveDoes ==
  ASSUME IInv, Numbers, NEW p \in Callers, Reserve(p)
  PROVE  LET r == handler[p].req
         IN  /\ handler[p].pc = "reserving" /\ call[p].pc = "done" /\ r \in Requests
             /\ OthersWait(p) /\ UNCHANGED store /\ Rests
             /\ \/ ChainOf[r] = 0 /\ request[r].paid > 0 /\ Turns(p, "posting", Appending(Usage(r)))
                \/ ChainOf[r] = 0 /\ request[r].paid = 0 /\ Turns(p, "project", call[p])
                \/ ChainOf[r] # 0 /\ Ends(p)
<1> DEFINE r == handler[p].req
<1>1. handler[p].pc = "reserving" /\ call[p].pc = "done" /\ r \in Requests
  BY HandlerReq DEF Reserve, Served, On, At
<1>2. UNCHANGED store /\ Rests
  BY DEF Reserve, Rests
<1>3. CASE ChainOf[r] = 0
  <2>1. Finalize(p, r)
    BY <1>3 DEF Reserve
  <2>2. QED
    BY <1>1, <1>2, <1>3, <2>1, FinalizeDoes
<1>4. CASE ChainOf[r] # 0
  <2>1. Return(p)
    BY <1>4 DEF Reserve
  <2>2. QED
    BY <1>1, <1>2, <1>4, <2>1, ReturnDoes
<1>5. QED
  BY <1>3, <1>4

LEMMA DecideDoes ==
  ASSUME IInv, Numbers, NEW p \in Callers, Decide(p)
  PROVE  LET r == handler[p].req
         IN  /\ handler[p].pc = "decide" /\ r \in Requests /\ request[r].status = "pending"
             /\ OthersWait(p) /\ UNCHANGED <<store, event, clashed>>
             /\ \/ /\ Sets(r, "approved")
                   /\ \/ request[r].paid > 0 /\ Turns(p, "posting", Appending(Usage(r)))
                      \/ request[r].paid = 0 /\ Turns(p, "project", call[p])
                \/ Sets(r, "pending") /\ Ends(p)
<1> DEFINE r == handler[p].req
           d == [request[r] EXCEPT !.level = @ + 1]
<1>1. /\ handler[p].pc = "decide" /\ r \in Requests /\ request[r].status = "pending"
      /\ UNCHANGED <<store, event, clashed>>
  BY HandlerReq DEF Decide, On, Undecided
<1>2. CASE Final(handler[p].doc, r)
  <2>1. Marks(r, "approved") /\ Finalize(p, r)
    BY <1>2 DEF Decide, Marks
  <2>2. QED
    BY <1>1, <2>1, SetsStatus, FinalizeDoes
<1>3. CASE ~Final(handler[p].doc, r)
  <2>1. request' = [request EXCEPT ![r].level = @ + 1] /\ Return(p)
    BY <1>3 DEF Decide
  <2>2. request = [o \in Requests |-> request[o]] /\ DocShape(request[r])
    BY <1>1 DEF IInv, Shapes, RequestsOK
  <2>3. d.status = request[r].status /\ d.paid = request[r].paid /\ d.eventIds = request[r].eventIds
    BY <2>2 DEF DocShape
  <2>4. request'[r] = d /\ Writes(r)
    BY <1>1, <2>1, <2>2 DEF Writes
  <2>5. Sets(r, "pending")
    BY <1>1, <2>3, <2>4 DEF Sets
  <2>6. QED
    BY <1>1, <2>1, <2>5, ReturnDoes
<1>4. QED
  BY <1>2, <1>3

LEMMA RefuseDoes ==
  ASSUME IInv, Numbers, NEW p \in Callers, Refuse(p) \/ CancelSave(p)
  PROVE  LET r == handler[p].req
             n == handler[p].doc.paid
         IN  /\ r \in Requests
             /\ handler[p].pc = "cancelSave" \/ (handler[p].pc = "refuse" /\ request[r].status = "pending")
             /\ OthersWait(p) /\ UNCHANGED <<store, event, clashed>>
             /\ \E s \in {"rejected", "cancelled"} : Sets(r, s)
             /\ \/ n > 0 /\ Turns(p, "releasing", Adjusting(- n))
                \/ n = 0 /\ Ends(p)
<1> DEFINE r == handler[p].req
<1>1. /\ r \in Requests
      /\ handler[p].pc = "cancelSave" \/ (handler[p].pc = "refuse" /\ request[r].status = "pending")
      /\ UNCHANGED <<store, event, clashed>>
  <2>1. UNCHANGED <<store, event, clashed>>
    BY DEF Refuse, CancelSave
  <2>2. handler[p].pc = "cancelSave" \/ (handler[p].pc = "refuse" /\ request[r].status = "pending")
    BY DEF Refuse, CancelSave, On, Undecided
  <2>3. QED
    BY <2>1, <2>2, HandlerReq
<1>2. \E s \in {"rejected", "cancelled"} : Sets(r, s)
  <2>1. PICK s \in {"rejected", "cancelled"} : Marks(r, s)
    BY DEF Refuse, CancelSave, Marks
  <2>2. QED
    BY <1>1, <2>1, SetsStatus
<1>3. Release(p)
  BY DEF Refuse, CancelSave
<1>4. QED
  BY <1>1, <1>2, <1>3, ReleaseDoes

LEMMA PostedDoes ==
  ASSUME IInv, NEW p \in Callers, Posted(p)
  PROVE  /\ handler[p].pc = "posting" /\ call[p].pc = "done" /\ handler[p].req \in Requests
         /\ Turns(p, "settling", Adjusting(- request[handler[p].req].paid))
         /\ OthersWait(p) /\ UNCHANGED store /\ Rests
<1>1. Goto(p, "settling") /\ call' = [call EXCEPT ![p] = Adjusting(- request[handler[p].req].paid)]
  BY DEF Posted, Calls, Put
<1>2. QED
  BY <1>1, GotoDoes, HandlerReq DEF Posted, Served, On, At, Rests

LEMMA SettleDoes ==
  ASSUME IInv, NEW p \in Callers, Settle(p)
  PROVE  /\ handler[p].pc = "settling" /\ call[p].pc = "done" /\ handler[p].req \in Requests
         /\ Turns(p, "project", call[p]) /\ OthersWait(p) /\ UNCHANGED store /\ Rests
<1>1. Goto(p, "project") /\ call' = [call EXCEPT ![p] = call[p]]
  BY CallStays DEF Settle
<1>2. QED
  BY <1>1, GotoDoes, HandlerReq DEF Settle, Served, On, At, Rests

LEMMA ProjectDoes ==
  ASSUME IInv, Numbers, NEW p \in Callers, Project(p)
  PROVE  LET r == handler[p].req
         IN  /\ handler[p].pc = "project" /\ r \in Requests
             /\ event'[r] = "live" /\ \A o \in Requests \ {r} : event'[o] = event[o]
             /\ Turns(p, "saveIds", call[p]) /\ OthersWait(p) /\ UNCHANGED <<store, request, clashed>>
<1>1. Goto(p, "saveIds") /\ call' = [call EXCEPT ![p] = call[p]]
  BY CallStays DEF Project
<1>2. handler[p].pc = "project" /\ handler[p].req \in Requests
  BY HandlerReq DEF Project, On
<1>3. event' = [event EXCEPT ![handler[p].req] = "live"] /\ event \in [Requests -> {"none", "live", "void"}]
  BY DEF Project, Numbers, RequestTypeOK
<1>4. QED
  BY <1>1, <1>2, <1>3, GotoDoes DEF Project

LEMMA SaveIdsDoes ==
  ASSUME IInv, NEW p \in Callers, SaveIds(p)
  PROVE  LET r == handler[p].req
         IN  /\ handler[p].pc = "saveIds" /\ r \in Requests
             /\ Writes(r) /\ request'[r].status = request[r].status
             /\ request'[r].paid = request[r].paid /\ request'[r].eventIds = TRUE
             /\ Ends(p) /\ OthersWait(p) /\ UNCHANGED <<store, event, clashed>>
<1> DEFINE r == handler[p].req
           d == [request[r] EXCEPT !.eventIds = TRUE]
<1>1. handler[p].pc = "saveIds" /\ r \in Requests
  BY HandlerReq DEF SaveIds, On
<1>2. request = [o \in Requests |-> request[o]] /\ DocShape(request[r])
  BY <1>1 DEF IInv, Shapes, RequestsOK
<1>3. d.status = request[r].status /\ d.paid = request[r].paid /\ d.eventIds = TRUE
  BY <1>2 DEF DocShape
<1>4. request'[r] = d /\ Writes(r)
  BY <1>1, <1>2 DEF SaveIds, Writes
<1>5. QED
  BY <1>1, <1>3, <1>4, ReturnDoes DEF SaveIds

LEMMA ReversedDoes ==
  ASSUME IInv, NEW p \in Callers, Reversed(p)
  PROVE  /\ handler[p].pc = "reversing" /\ call[p].pc = "done" /\ handler[p].req \in Requests
         /\ Turns(p, "void", call[p]) /\ OthersWait(p) /\ UNCHANGED store /\ Rests
<1>1. Goto(p, "void") /\ call' = [call EXCEPT ![p] = call[p]]
  BY CallStays DEF Reversed
<1>2. QED
  BY <1>1, GotoDoes, HandlerReq DEF Reversed, Served, On, At, Rests

LEMMA VoidDoes ==
  ASSUME IInv, Numbers, NEW p \in Callers, Void(p)
  PROVE  LET r == handler[p].req
         IN  /\ handler[p].pc = "void" /\ r \in Requests
             /\ handler[p].doc.eventIds => event'[r] = "void"
             /\ \A o \in Requests \ {r} : event'[o] = event[o]
             /\ Turns(p, "withdrawSave", call[p]) /\ OthersWait(p)
             /\ UNCHANGED <<store, request, clashed>>
<1>1. Goto(p, "withdrawSave") /\ call' = [call EXCEPT ![p] = call[p]]
  BY CallStays DEF Void
<1>2. handler[p].pc = "void" /\ handler[p].req \in Requests
  BY HandlerReq DEF Void, On
<1>3. /\ event' = IF handler[p].doc.eventIds THEN [event EXCEPT ![handler[p].req] = "void"] ELSE event
      /\ event \in [Requests -> {"none", "live", "void"}]
  BY DEF Void, Numbers, RequestTypeOK
<1>4. QED
  BY <1>1, <1>2, <1>3, GotoDoes DEF Void

LEMMA WithdrawSaveDoes ==
  ASSUME IInv, NEW p \in Callers, WithdrawSave(p)
  PROVE  LET r == handler[p].req
         IN  /\ handler[p].pc = "withdrawSave" /\ r \in Requests /\ Sets(r, "withdrawn")
             /\ Ends(p) /\ OthersWait(p) /\ UNCHANGED <<store, event, clashed>>
<1>1. handler[p].pc = "withdrawSave" /\ handler[p].req \in Requests
  BY HandlerReq DEF WithdrawSave, On
<1>2. Marks(handler[p].req, "withdrawn") /\ Return(p)
  BY DEF WithdrawSave, Marks
<1>3. QED
  BY <1>1, <1>2, SetsStatus, ReturnDoes DEF WithdrawSave

(* Handlers that end: nothing is written, and whoever died or was refused  *)
(* has clashed.                                                            *)
LEMMA EndDoes ==
  ASSUME IInv, NEW p \in Callers,
         Conflict(p) \/ Released(p) \/ Credited(p) \/ Abort(p) \/ Die(p)
  PROVE  /\ Ends(p) /\ OthersWait(p) /\ UNCHANGED <<ledger, balance, request, event>>
         /\ clashed \subseteq clashed'
         /\ \/ handler[p].pc \in {"decide", "refuse"} /\ Conflict(p)
            \/ handler[p].pc \in {"releasing", "crediting"} /\ call[p].pc = "done"
            \/ handler[p].req \notin Requests \ clashed'
<1>1. Return(p) /\ UNCHANGED <<ledger, balance, request, event>> /\ clashed \subseteq clashed'
  BY DEF Conflict, Released, Credited, Abort, Die, store, Cut
<1>2. \/ handler[p].pc \in {"decide", "refuse"} /\ Conflict(p)
      \/ handler[p].pc \in {"releasing", "crediting"} /\ call[p].pc = "done"
      \/ handler[p].req \notin Requests \ clashed'
  BY RequestAssumption DEF Conflict, Released, Credited, Abort, Die, Cut, Served, On, At
<1>3. QED
  BY <1>1, <1>2, ReturnDoes

(* A handler begins.                                                       *)
Starts(p, flow, pc, r, doc, c) ==
  /\ handler[p] = Rest
  /\ handler'[p].flow = flow /\ handler'[p].pc = pc
  /\ handler'[p].req = r /\ handler'[p].doc = doc
  /\ call'[p] = c
  /\ UNCHANGED <<store, request, event>>
  /\ clashed \subseteq clashed'
  /\ r \in Requests \ clashed' =>
       \A q \in Callers : handler[q].req = r => Compatible(flow, handler[q].flow)

LEMMA BeginDoes ==
  ASSUME IInv, NEW p \in Callers, NEW flow, NEW pc, NEW r \in Requests \cup {None}, NEW doc, NEW c,
         Begin(p, flow, pc, r, doc), call' = [call EXCEPT ![p] = c],
         UNCHANGED <<store, request, event>>
  PROVE  Starts(p, flow, pc, r, doc, c) /\ OthersWait(p)
<1> DEFINE h == [flow |-> flow, pc |-> pc, req |-> r, doc |-> doc]
<1>1. Moves(p, h, c)
  BY DEF Begin, Moves
<1>2. OthersWait(p) /\ handler'[p] = h /\ call'[p] = c
  BY <1>1, Waits
<1>3. handler[p] = Rest /\ clashed \subseteq clashed'
  BY DEF Begin, Busy
<1>4. r \in Requests \ clashed' =>
       \A q \in Callers : handler[q].req = r => Compatible(flow, handler[q].flow)
  BY RequestAssumption DEF Begin
<1>5. QED
  BY <1>2, <1>3, <1>4 DEF Starts

LEMMA CallDoes ==
  ASSUME IInv, NEW p \in Callers, NEW r \in Requests,
         Apply(p, r) \/ Approve(p, r) \/ Reject(p, r) \/ Cancel(p, r)
  PROVE  /\ OthersWait(p)
         /\ \/ Starts(p, "apply", "readBalance", r, NoRequest, call[p]) /\ request[r].status = "none"
            \/ /\ request[r].status = "pending"
               /\ \/ Starts(p, "approve", "decide", r, request[r], call[p])
                  \/ Starts(p, "reject", "refuse", r, request[r], call[p])
                  \/ Starts(p, "cancel", "cancelSave", r, request[r], call[p])
<1>1. call' = [call EXCEPT ![p] = call[p]] /\ UNCHANGED <<store, request, event>>
  BY CallStays DEF Apply, Approve, Reject, Cancel
<1>2. \/ Begin(p, "apply", "readBalance", r, NoRequest) /\ request[r].status = "none"
      \/ /\ request[r].status = "pending"
         /\ \/ Begin(p, "approve", "decide", r, request[r])
            \/ Begin(p, "reject", "refuse", r, request[r])
            \/ Begin(p, "cancel", "cancelSave", r, request[r])
  BY DEF Apply, Approve, Reject, Cancel
<1>3. QED
  BY <1>1, <1>2, BeginDoes

LEMMA WithdrawDoes ==
  ASSUME IInv, Numbers, NEW p \in Callers, NEW r \in Requests, Withdraw(p, r)
  PROVE  /\ OthersWait(p) /\ request[r].status = "approved"
         /\ \/ /\ request[r].paid > 0
               /\ Starts(p, "withdraw", "reversing", r, request[r], Appending(Reversal(r)))
            \/ request[r].paid = 0 /\ Starts(p, "withdraw", "void", r, request[r], call[p])
<1>1. UNCHANGED <<store, request, event>> /\ request[r].status = "approved"
  BY DEF Withdraw
<1>2. CASE request[r].paid > 0
  <2>1. /\ Begin(p, "withdraw", "reversing", r, request[r])
        /\ call' = [call EXCEPT ![p] = Appending(Reversal(r))]
    BY <1>2 DEF Withdraw, Put
  <2>2. QED
    BY <1>1, <1>2, <2>1, BeginDoes
<1>3. CASE ~(request[r].paid > 0)
  <2>1. Begin(p, "withdraw", "void", r, request[r]) /\ call' = [call EXCEPT ![p] = call[p]]
    BY <1>3, CallStays DEF Withdraw
  <2>2. request[r].paid = 0
    BY <1>3, PostsNumbers
  <2>3. QED
    BY <1>1, <2>1, <2>2, BeginDoes
<1>4. QED
  BY <1>2, <1>3

LEMMA CreditDoes ==
  ASSUME IInv, NEW p \in Callers, Credit(p)
  PROVE  OthersWait(p) /\ Starts(p, "credit", "crediting", None, NoRequest, Appending(Accrual))
<1>1. /\ Begin(p, "credit", "crediting", None, NoRequest)
      /\ call' = [call EXCEPT ![p] = Appending(Accrual)] /\ UNCHANGED <<store, request, event>>
  BY DEF Credit, Put
<1>2. QED
  BY <1>1, BeginDoes

-----------------------------------------------------------------------------
(* The books, while handlers are under way.                                *)

Works(p, r) == handler[p].req = r

(* A handler that will charge its request, one that takes an approved      *)
(* request to its end, one that leaves the event of the request open, and  *)
(* one that has not reversed yet what it will reverse.                     *)
Owes(h, c) == \/ h.pc = "posting" /\ c.pc \in Asking \cup {"failed"}
              \/ h.pc = "reserving" /\ ChainOf[h.req] = 0
Finalizing(h) == \/ h.pc \in {"posting", "settling", "project", "saveIds"}
                 \/ h.pc = "reserving" /\ ChainOf[h.req] = 0
Marking(h) == h.pc = "withdrawSave" \/ (Finalizing(h) /\ h.pc # "saveIds")
Undone(h, c) == h.pc = "reversing" /\ c.pc \in Asking \cup {"failed"}

(* A call asks for the days of the request, and what a handler has read of *)
(* them is what they are: they are written once, when it is inserted.      *)
CallFits(h, c, d) ==
  /\ c.pc = "inc" => \/ h.pc = "reserving" /\ c.delta = d.paid
                     \/ h.pc \in {"settling", "releasing"} /\ c.delta = - d.paid
  /\ c.pc \in Asking => \/ h.pc = "posting" /\ c.entry.quantity = - d.paid /\ d.paid > 0
                        \/ h.pc = "reversing" /\ c.entry.quantity = d.paid /\ d.paid > 0
                             /\ c.entry.ref = h.req
                        \/ h.pc = "crediting" /\ c.entry.ref = None
  /\ h.pc \in {"decide", "refuse", "cancelSave"} \cup Withdrawing => h.doc.paid = d.paid
  /\ h.pc = "reserving" => d.paid > 0

Fits == \A p \in Callers : CallFits(handler[p], call[p], request[handler[p].req])

(* What a handler has still to add to the reservation, and what a request  *)
(* holds of it.                                                            *)
Pending(h, c, n) ==
  CASE h.pc = "reserving" -> (IF c.pc = "inc" THEN n ELSE 0)
                               - (IF ChainOf[h.req] = 0 THEN n ELSE 0)
    [] h.pc = "posting" -> - n
    [] h.pc \in {"settling", "releasing"} -> IF c.pc = "inc" THEN - n ELSE 0
    [] OTHER -> 0
Due == [p \in Callers |-> Pending(handler[p], call[p], request[handler[p].req].paid)]
Held == [r \in Requests |-> IF request[r].status = "pending" THEN request[r].paid ELSE 0]

Reservation ==
  clashed = {} => \A f, g : f = Due /\ g = Held =>
                    balance.pending + Sum(f, Callers) = Sum(g, Requests)

(* Entries of the days of a request, and the days given back.              *)
Charged(r) ==
  IF request[r].paid = 0 THEN Posts(r, "usage") = {}
  ELSE \E d \in Posts(r, "usage") : Posts(r, "usage") = {d} /\ d.entry.quantity = - request[r].paid
GivenBack(r) ==
  IF request[r].paid = 0 THEN Posts(r, "usage_reversal") = {}
  ELSE \E d \in Posts(r, "usage_reversal") :
         Posts(r, "usage_reversal") = {d} /\ d.entry.quantity = request[r].paid

(* What an open, an approved and a withdrawn request have in the books.    *)
Untouched(r) == Posts(r, "usage") = {} /\ Posts(r, "usage_reversal") = {} /\ event[r] = "none"
Spent(r) ==
  /\ (\E p \in Callers : Works(p, r) /\ Owes(handler[p], call[p])) \/ Charged(r)
  /\ Posts(r, "usage") = {} \/ Charged(r)
  /\ (\E p \in Callers : Works(p, r) /\ handler[p].pc \in Withdrawing)
       \/ Posts(r, "usage_reversal") = {}
  /\ (\E p \in Callers : Works(p, r) /\ Marking(handler[p])) \/ event[r] = "live"
  /\ (\E p \in Callers : Works(p, r) /\ Finalizing(handler[p])) \/ request[r].eventIds
Restored(r) == Charged(r) /\ GivenBack(r) /\ event[r] = "void"

BooksOf(r) ==
  /\ request[r].status \notin {"approved", "withdrawn"} => Untouched(r)
  /\ request[r].status = "approved" => Spent(r)
  /\ request[r].status = "withdrawn" => Restored(r)

(* What a handler under way finds in them.                                 *)
WorkOf(p, r) ==
  /\ Finalizing(handler[p]) =>
       /\ request[r].status = "approved"
       /\ \A q \in Callers : Works(q, r) /\ Finalizing(handler[q]) => q = p
       /\ handler[p].pc = "saveIds" => event[r] = "live"
  /\ handler[p].pc \in Withdrawing =>
       /\ handler[p].doc.eventIds
       /\ IF Undone(handler[p], call[p]) THEN Posts(r, "usage_reversal") = {} ELSE GivenBack(r)
       /\ event[r] = IF handler[p].pc = "withdrawSave" THEN "void" ELSE "live"

KeptOf(r) == BooksOf(r) /\ \A p \in Callers : Works(p, r) => WorkOf(p, r)
Kept == \A r \in Requests \ clashed : KeptOf(r)

Books == Fits /\ Reservation /\ Kept

(* A step of the call it waits for: it is asked still, or refused; the     *)
(* entry is posted; the reservation is changed; the rebuild goes on.       *)
Waiting(p) == /\ call[p].pc \in Asking /\ call'[p].pc \in Asking \cup {"failed"}
              /\ call'[p].entry = call[p].entry /\ UNCHANGED <<ledger, balance>>
Posting(p) == /\ call[p].pc = "create" /\ call'[p].pc = "fold" /\ UNCHANGED balance
              /\ \E d : /\ d \notin ledger /\ d.entry = call[p].entry
                        /\ ledger' = ledger \cup {d}
Adding(p) == /\ call[p].pc = "inc" /\ call'[p].pc = "fold" /\ UNCHANGED ledger
             /\ balance'.pending = balance.pending + call[p].delta
Rebuilding(p) == /\ call[p].pc \in {"fold", "readPending", "write"}
                 /\ call'[p].pc \in {"readPending", "write", "done"}
                 /\ UNCHANGED ledger /\ balance'.pending = balance.pending

LEMMA ServeDoes ==
  ASSUME IInv, Numbers, NEW p \in Callers, Serve(p)
  PROVE  /\ UNCHANGED handler /\ UNCHANGED <<request, event, clashed>> /\ OthersWait(p)
         /\ Waiting(p) \/ Posting(p) \/ Adding(p) \/ Rebuilding(p)
<1> DEFINE c == call[p]
<1>1. CallShape(c)
  BY ControlAt
<1>2. UNCHANGED handler /\ UNCHANGED <<request, event, clashed>>
  BY DEF Serve
<1>3. ASSUME NEW b, Put(p, b) PROVE OthersWait(p) /\ call'[p] = b
  BY <1>2, <1>3 DEF Put, OthersWait, IInv, Shapes
<1>4. CASE ReadSeq(p)
  <2> DEFINE b == [c EXCEPT !.pc = "create", !.seq = LastSeq + 1, !.attempt = @ + 1]
  <2>1. b.pc = "create" /\ b.entry = c.entry
    BY <1>1 DEF CallShape
  <2>2. Put(p, b) /\ c.pc = "readSeq" /\ UNCHANGED <<ledger, balance>>
    BY <1>4 DEF ReadSeq, At
  <2> HIDE DEF b
  <2>3. QED
    BY <1>2, <1>3, <2>1, <2>2 DEF Waiting, Asking
<1>5. CASE Create(p)
  <2> DEFINE b == [c EXCEPT !.pc = "fold", !.posted = TRUE]
             d == [seq |-> c.seq, entry |-> c.entry]
  <2>1. b.pc = "fold" /\ d.entry = c.entry /\ d \notin ledger
    BY <1>1, <1>5 DEF CallShape, Create, Seqs
  <2>2. Put(p, b) /\ c.pc = "create" /\ UNCHANGED balance /\ ledger' = ledger \cup {d}
    BY <1>5 DEF Create, At
  <2> HIDE DEF b, d
  <2>3. QED
    BY <1>2, <1>3, <2>1, <2>2 DEF Posting
<1>6. CASE Collide(p)
  <2> DEFINE next == IF c.attempt < RetryLimit THEN "readSeq" ELSE "failed"
             b == [c EXCEPT !.pc = next]
  <2>1. b.pc \in {"readSeq", "failed"} /\ b.entry = c.entry
    BY <1>1 DEF CallShape
  <2>2. Put(p, b) /\ c.pc = "create" /\ UNCHANGED <<ledger, balance>>
    BY <1>6 DEF Collide, At
  <2> HIDE DEF b
  <2>3. QED
    BY <1>2, <1>3, <2>1, <2>2 DEF Waiting, Asking
<1>7. CASE Inc(p)
  <2> DEFINE b == [c EXCEPT !.pc = "fold", !.posted = TRUE]
  <2>1. b.pc = "fold"
    BY <1>1 DEF CallShape
  <2>2. Put(p, b) /\ c.pc = "inc" /\ UNCHANGED ledger
    BY <1>7 DEF Inc, At
  <2>3. balance'.pending = balance.pending + c.delta
    BY <1>7 DEF Inc, Numbers, BalanceNumbers
  <2> HIDE DEF b
  <2>4. QED
    BY <1>2, <1>3, <2>1, <2>2, <2>3 DEF Adding
<1>8. CASE Fold(p)
  <2> DEFINE b == [c EXCEPT !.pc = "readPending", !.totals = Totals(ledger), !.seen = LastSeq]
  <2>1. b.pc = "readPending"
    BY <1>1 DEF CallShape
  <2>2. Put(p, b) /\ c.pc = "fold" /\ UNCHANGED <<ledger, balance>>
    BY <1>8 DEF Fold, At
  <2> HIDE DEF b
  <2>3. QED
    BY <1>2, <1>3, <2>1, <2>2 DEF Rebuilding
<1>9. CASE ReadPending(p)
  <2> DEFINE b == [c EXCEPT !.pc = "write", !.reserved = balance.pending]
  <2>1. b.pc = "write"
    BY <1>1 DEF CallShape
  <2>2. Put(p, b) /\ c.pc = "readPending" /\ UNCHANGED <<ledger, balance>>
    BY <1>9 DEF ReadPending, At
  <2> HIDE DEF b
  <2>3. QED
    BY <1>2, <1>3, <2>1, <2>2 DEF Rebuilding
<1>10. CASE Write(p)
  <2>1. Put(p, Finished(c)) /\ c.pc = "write" /\ UNCHANGED ledger
    BY <1>10 DEF Write, At
  <2>2. balance'.pending = balance.pending
    BY <1>10 DEF Write, Numbers, BalanceNumbers
  <2>3. QED
    BY <1>2, <1>3, <2>1, <2>2, CallsOK DEF Rebuilding
<1>11. QED
  BY <1>4, <1>5, <1>6, <1>7, <1>8, <1>9, <1>10 DEF Serve, LedgerStep

-----------------------------------------------------------------------------
(* The calls fit.                                                          *)

LEMMA FitsMove ==
  ASSUME IInv, Fits, NEW p \in Callers, OthersWait(p),
         CallFits(handler'[p], call'[p], request'[handler'[p].req]),
         \A r \in Requests : \/ request'[r].paid = request[r].paid
                             \/ \A q \in Callers : handler[q].req = r => q = p
  PROVE  Fits'
<1>1. ASSUME NEW q \in Callers, q # p
      PROVE  CallFits(handler'[q], call'[q], request'[handler'[q].req])
  <2>1. handler'[q] = handler[q] /\ call'[q] = call[q]
    BY <1>1 DEF OthersWait
  <2>2. CallFits(handler[q], call[q], request[handler[q].req])
    BY DEF Fits
  <2>3. CASE handler[q].req \in Requests
    <3>1. request'[handler[q].req].paid = request[handler[q].req].paid
      BY <1>1, <2>3
    <3>2. QED
      BY <2>1, <2>2, <3>1 DEF CallFits
  <2>4. CASE handler[q].req \notin Requests
    <3>1. handler[q].pc \in {"idle", "crediting"}
      BY <2>4, HandlerReq
    <3>2. QED
      BY <2>1, <2>2, <3>1 DEF CallFits, Withdrawing
  <2>5. QED
    BY <2>3, <2>4
<1>2. QED
  BY <1>1 DEF Fits

LEMMA CallsFit ==
  /\ \A d : CallFits(Rest, Idle, d)
  /\ \A e : Appending(e).pc = "readSeq" /\ Appending(e).entry = e
  /\ \A n : Adjusting(n).pc = "inc" /\ Adjusting(n).delta = n
<1>1. Rest.pc = "idle" /\ Idle.pc = "idle"
  BY DEF Rest, Idle
<1>2. QED
  BY <1>1 DEF CallFits, Asking, Withdrawing, Appending, Adjusting, Idle

LEMMA EndFits ==
  ASSUME IInv, Fits, NEW p \in Callers, OthersWait(p), Ends(p),
         \A r \in Requests : request'[r].paid = request[r].paid
  PROVE  Fits'
BY CallsFit, FitsMove DEF Ends

LEMMA FinalizeFits ==
  ASSUME IInv, Numbers, Fits, NEW p \in Callers, OthersWait(p), handler[p].req \in Requests,
         call[p].pc \notin Asking \cup {"inc"},
         LET r == handler[p].req
         IN  \/ request[r].paid > 0 /\ Turns(p, "posting", Appending(Usage(r)))
             \/ Turns(p, "project", call[p]),
         \A r \in Requests : request'[r].paid = request[r].paid
  PROVE  Fits'
<1> DEFINE r == handler[p].req
           d == request[r]
<1>1. handler'[p].req = r /\ request'[r].paid = d.paid
  BY DEF Turns
<1>2. CASE d.paid > 0 /\ Turns(p, "posting", Appending(Usage(r)))
  <2>1. Usage(r).quantity = - d.paid
    BY DEF Usage
  <2>2. handler'[p].pc = "posting" /\ call'[p].pc = "readSeq" /\ call'[p].entry = Usage(r)
    BY <1>2, CallsFit DEF Turns
  <2>3. CallFits(handler'[p], call'[p], request'[handler'[p].req])
    BY <1>1, <1>2, <2>1, <2>2 DEF CallFits, Asking, Withdrawing
  <2>4. QED
    BY <2>3, FitsMove
<1>3. CASE Turns(p, "project", call[p])
  <2>1. handler'[p].pc = "project" /\ call'[p] = call[p]
    BY <1>3 DEF Turns
  <2>2. CallFits(handler'[p], call'[p], request'[handler'[p].req])
    BY <2>1 DEF CallFits, Withdrawing
  <2>3. QED
    BY <2>2, FitsMove
<1>4. QED
  BY <1>2, <1>3

(* Handlers at these points ask for nothing.                               *)
LEMMA AsksNothing ==
  ASSUME Fits, NEW p \in Callers,
         handler[p].pc \notin {"reserving", "settling", "releasing", "posting", "reversing", "crediting"}
                       \/ call[p].pc = "done"
  PROVE  call[p].pc \notin Asking \cup {"inc"}
BY DEF Fits, CallFits, Asking

LEMMA EnterFits ==
  ASSUME IInv, Numbers, Fits, NEW p \in Callers, Decompose(p) \/ Insert(p) \/ Reserve(p)
  PROVE  Fits'
<1> DEFINE r == handler[p].req
           n == handler[p].doc.paid
<1>1. CASE Decompose(p)
  <2>1. /\ handler[p].pc = "readBalance" /\ handler'[p].pc = "insert"
        /\ call'[p] = call[p] /\ OthersWait(p) /\ UNCHANGED request
    BY <1>1, DecomposeDoes DEF Rests
  <2>2. call[p].pc \notin Asking \cup {"inc"}
    BY <2>1, AsksNothing
  <2>3. CallFits(handler'[p], call'[p], request'[handler'[p].req])
    BY <2>1, <2>2 DEF CallFits, Withdrawing
  <2>4. QED
    BY <2>1, <2>3, FitsMove
<1>2. CASE Insert(p)
  <2>1. /\ handler[p].pc = "insert" /\ r \in Requests /\ request'[r].paid = n
        /\ Writes(r) /\ OthersWait(p)
    BY <1>2, InsertDoes
  <2>2. \A o \in Requests : \/ request'[o].paid = request[o].paid
                            \/ \A q \in Callers : handler[q].req = o => q = p
    BY <2>1 DEF Writes, IInv, EntersAlone, Entering
  <2>3. call[p].pc \notin Asking \cup {"inc"}
    BY <2>1, AsksNothing
  <2>4. CASE n > 0 /\ Turns(p, "reserving", Adjusting(n))
    <3>1. /\ handler'[p].pc = "reserving" /\ handler'[p].req = r
          /\ call'[p].pc = "inc" /\ call'[p].delta = n
      BY <2>4, CallsFit DEF Turns
    <3>2. CallFits(handler'[p], call'[p], request'[handler'[p].req])
      BY <2>1, <2>4, <3>1 DEF CallFits, Asking, Withdrawing
    <3>3. QED
      BY <2>1, <2>2, <3>2, FitsMove
  <2>5. CASE Turns(p, "project", call[p])
    <3>1. handler'[p].pc = "project" /\ call'[p] = call[p]
      BY <2>5 DEF Turns
    <3>2. CallFits(handler'[p], call'[p], request'[handler'[p].req])
      BY <2>3, <3>1 DEF CallFits, Withdrawing
    <3>3. QED
      BY <2>1, <2>2, <3>2, FitsMove
  <2>6. CASE Ends(p)
    <3>1. CallFits(handler'[p], call'[p], request'[handler'[p].req])
      BY <2>6, CallsFit DEF Ends
    <3>2. QED
      BY <2>1, <2>2, <3>1, FitsMove
  <2>7. QED
    BY <1>2, <2>4, <2>5, <2>6, InsertDoes
<1>3. CASE Reserve(p)
  <2>1. /\ handler[p].pc = "reserving" /\ call[p].pc = "done" /\ r \in Requests
        /\ OthersWait(p) /\ UNCHANGED request
    BY <1>3, ReserveDoes DEF Rests
  <2>2. call[p].pc \notin Asking \cup {"inc"}
    BY <2>1, AsksNothing
  <2>3. \/ Ends(p)
        \/ request[r].paid > 0 /\ Turns(p, "posting", Appending(Usage(r)))
        \/ Turns(p, "project", call[p])
    BY <1>3, ReserveDoes
  <2>4. QED
    BY <2>1, <2>2, <2>3, EndFits, FinalizeFits
<1>4. QED
  BY <1>1, <1>2, <1>3

LEMMA VerdictFits ==
  ASSUME IInv, Numbers, Fits, NEW p \in Callers, Decide(p) \/ Refuse(p) \/ CancelSave(p)
  PROVE  Fits'
<1> DEFINE r == handler[p].req
           n == handler[p].doc.paid
<1>1. CASE Decide(p)
  <2>1. /\ handler[p].pc = "decide" /\ r \in Requests /\ OthersWait(p)
        /\ Sets(r, "approved") \/ Sets(r, "pending")
        /\ \/ request[r].paid > 0 /\ Turns(p, "posting", Appending(Usage(r)))
           \/ Turns(p, "project", call[p])
           \/ Ends(p)
    BY <1>1, DecideDoes
  <2>2. \A o \in Requests : request'[o].paid = request[o].paid
    BY <2>1 DEF Sets, Writes
  <2>3. call[p].pc \notin Asking \cup {"inc"}
    BY <2>1, AsksNothing
  <2>4. QED
    BY <2>1, <2>2, <2>3, EndFits, FinalizeFits
<1>2. CASE Refuse(p) \/ CancelSave(p)
  <2>1. /\ handler[p].pc \in {"refuse", "cancelSave"} /\ r \in Requests /\ OthersWait(p)
        /\ \E s \in {"rejected", "cancelled"} : Sets(r, s)
        /\ Turns(p, "releasing", Adjusting(- n)) \/ Ends(p)
    BY <1>2, RefuseDoes
  <2>2. \A o \in Requests : request'[o].paid = request[o].paid
    BY <2>1 DEF Sets, Writes
  <2>3. CASE Turns(p, "releasing", Adjusting(- n))
    <3>1. /\ handler'[p].pc = "releasing" /\ handler'[p].req = r
          /\ call'[p].pc = "inc" /\ call'[p].delta = - n
      BY <2>3, CallsFit DEF Turns
    <3>2. n = request'[r].paid
      BY <2>1, <2>2 DEF Fits, CallFits
    <3>3. CallFits(handler'[p], call'[p], request'[handler'[p].req])
      BY <3>1, <3>2 DEF CallFits, Asking, Withdrawing
    <3>4. QED
      BY <2>1, <2>2, <3>3, FitsMove
  <2>4. QED
    BY <2>1, <2>2, <2>3, EndFits
<1>3. QED
  BY <1>1, <1>2

(* A handler goes on, with the call it had.                                *)
LEMMA TurnFits ==
  ASSUME IInv, Fits, NEW p \in Callers, OthersWait(p), NEW pc, Turns(p, pc, call[p]),
         call[p].pc \notin Asking \cup {"inc"}, pc # "reserving",
         pc \in {"decide", "refuse", "cancelSave"} \cup Withdrawing
           => handler[p].pc \in Withdrawing /\ handler[p].req \in Requests,
         \A r \in Requests : request'[r].paid = request[r].paid
  PROVE  Fits'
<1>1. CallFits(handler[p], call[p], request[handler[p].req])
  BY DEF Fits
<1>2. CallFits(handler'[p], call'[p], request'[handler'[p].req])
  BY <1>1 DEF CallFits, Turns
<1>3. QED
  BY <1>2, FitsMove

LEMMA FinalizingFits ==
  ASSUME IInv, Numbers, Fits, NEW p \in Callers, Posted(p) \/ Settle(p) \/ Project(p) \/ SaveIds(p)
  PROVE  Fits'
<1> DEFINE r == handler[p].req
<1>1. CASE Posted(p)
  <2>1. OthersWait(p) /\ UNCHANGED request /\ Turns(p, "settling", Adjusting(- request[r].paid))
    BY <1>1, PostedDoes DEF Rests
  <2>2. CallFits(handler'[p], call'[p], request'[handler'[p].req])
    BY <2>1, CallsFit DEF CallFits, Turns, Asking, Withdrawing
  <2>3. QED
    BY <2>1, <2>2, FitsMove
<1>2. CASE Settle(p)
  <2>1. /\ OthersWait(p) /\ UNCHANGED request /\ Turns(p, "project", call[p])
        /\ call[p].pc = "done"
    BY <1>2, SettleDoes DEF Rests
  <2>2. QED
    BY <2>1, AsksNothing, TurnFits DEF Withdrawing
<1>3. CASE Project(p)
  <2>1. /\ OthersWait(p) /\ UNCHANGED request /\ Turns(p, "saveIds", call[p])
        /\ handler[p].pc = "project"
    BY <1>3, ProjectDoes
  <2>2. QED
    BY <2>1, AsksNothing, TurnFits DEF Withdrawing
<1>4. CASE SaveIds(p)
  <2>1. /\ OthersWait(p) /\ Ends(p) /\ Writes(r) /\ request'[r].paid = request[r].paid
    BY <1>4, SaveIdsDoes
  <2>2. QED
    BY <2>1, EndFits DEF Writes
<1>5. QED
  BY <1>1, <1>2, <1>3, <1>4

LEMMA WithdrawingFits ==
  ASSUME IInv, Numbers, Fits, NEW p \in Callers, Reversed(p) \/ Void(p) \/ WithdrawSave(p)
  PROVE  Fits'
<1> DEFINE r == handler[p].req
<1>1. CASE Reversed(p)
  <2>1. /\ OthersWait(p) /\ UNCHANGED request /\ Turns(p, "void", call[p])
        /\ handler[p].pc = "reversing" /\ call[p].pc = "done" /\ r \in Requests
    BY <1>1, ReversedDoes DEF Rests
  <2>2. QED
    BY <2>1, AsksNothing, TurnFits DEF Withdrawing
<1>2. CASE Void(p)
  <2>1. /\ OthersWait(p) /\ UNCHANGED request /\ Turns(p, "withdrawSave", call[p])
        /\ handler[p].pc = "void" /\ r \in Requests
    BY <1>2, VoidDoes
  <2>2. QED
    BY <2>1, AsksNothing, TurnFits DEF Withdrawing
<1>3. CASE WithdrawSave(p)
  <2>1. OthersWait(p) /\ Ends(p) /\ Sets(r, "withdrawn")
    BY <1>3, WithdrawSaveDoes
  <2>2. QED
    BY <2>1, EndFits DEF Sets, Writes
<1>4. QED
  BY <1>1, <1>2, <1>3

LEMMA BeginsFits ==
  ASSUME IInv, Numbers, Fits, NEW p \in Callers,
         \/ Credit(p)
         \/ \E r \in Requests : \/ Apply(p, r) \/ Approve(p, r) \/ Reject(p, r)
                                \/ Cancel(p, r) \/ Withdraw(p, r)
  PROVE  Fits'
<1>1. ASSUME NEW flow, NEW pc, NEW r, NEW doc, NEW c,
             Starts(p, flow, pc, r, doc, c), OthersWait(p),
             \/ c.pc \notin Asking \cup {"inc"}
             \/ pc = "crediting" /\ c = Appending(Accrual)
             \/ pc = "reversing" /\ c = Appending(Reversal(r)) /\ request[r].paid > 0,
             pc # "reserving",
             pc \in {"decide", "refuse", "cancelSave"} \cup Withdrawing => doc = request[r]
      PROVE  Fits'
  <2>1. Reversal(r).quantity = request[r].paid /\ Reversal(r).ref = r /\ Accrual.ref = None
    BY DEF Reversal, Accrual
  <2>2. CallFits(handler'[p], call'[p], request'[handler'[p].req])
    BY <1>1, <2>1, CallsFit DEF Starts, CallFits, Asking, Withdrawing
  <2>3. UNCHANGED request
    BY <1>1 DEF Starts
  <2>4. QED
    BY <1>1, <2>2, <2>3, FitsMove
<1>2. CASE Credit(p)
  BY <1>1, <1>2, CreditDoes DEF Withdrawing
<1>3. handler[p] = Rest => call[p].pc \notin Asking \cup {"inc"}
  BY AsksNothing, RestOK
<1>4. ASSUME NEW r \in Requests, Apply(p, r) \/ Approve(p, r) \/ Reject(p, r) \/ Cancel(p, r)
      PROVE  Fits'
  <2>1. /\ OthersWait(p)
        /\ \/ Starts(p, "apply", "readBalance", r, NoRequest, call[p])
           \/ Starts(p, "approve", "decide", r, request[r], call[p])
           \/ Starts(p, "reject", "refuse", r, request[r], call[p])
           \/ Starts(p, "cancel", "cancelSave", r, request[r], call[p])
    BY <1>4, CallDoes
  <2>2. call[p].pc \notin Asking \cup {"inc"}
    BY <1>3, <2>1 DEF Starts
  <2>3. QED
    BY <1>1, <2>1, <2>2 DEF Withdrawing
<1>5. ASSUME NEW r \in Requests, Withdraw(p, r) PROVE Fits'
  <2>1. /\ OthersWait(p)
        /\ \/ /\ request[r].paid > 0
              /\ Starts(p, "withdraw", "reversing", r, request[r], Appending(Reversal(r)))
           \/ Starts(p, "withdraw", "void", r, request[r], call[p])
    BY <1>5, WithdrawDoes
  <2>2. handler[p] = Rest
    BY <2>1 DEF Starts
  <2>3. QED
    BY <1>1, <1>3, <2>1, <2>2
<1>6. QED
  BY <1>2, <1>4, <1>5

LEMMA ServeFits ==
  ASSUME IInv, Numbers, Fits, NEW p \in Callers, Serve(p) PROVE Fits'
<1>1. /\ UNCHANGED handler /\ UNCHANGED request /\ OthersWait(p)
      /\ Waiting(p) \/ Posting(p) \/ Adding(p) \/ Rebuilding(p)
  BY ServeDoes
<1>2. CallFits(handler[p], call[p], request[handler[p].req])
  BY DEF Fits
<1>3. \/ call'[p].pc \notin Asking \cup {"inc"}
      \/ call[p].pc \in Asking /\ call'[p].pc \in Asking /\ call'[p].entry = call[p].entry
  BY <1>1 DEF Waiting, Posting, Adding, Rebuilding, Asking
<1>4. CallFits(handler'[p], call'[p], request'[handler'[p].req])
  BY <1>1, <1>2, <1>3 DEF CallFits, Asking
<1>5. QED
  BY <1>1, <1>4, FitsMove

LEMMA StepFits ==
  ASSUME IInv, Numbers, Fits, [RequestNext]_rvars PROVE Fits'
<1>1. CASE UNCHANGED rvars
  BY <1>1 DEF rvars, Fits
<1>2. ASSUME NEW p \in Callers,
             Conflict(p) \/ Released(p) \/ Credited(p) \/ Abort(p) \/ Die(p)
      PROVE  Fits'
  <2>1. Ends(p) /\ OthersWait(p) /\ UNCHANGED request
    BY <1>2, EndDoes
  <2>2. QED
    BY <2>1, EndFits
<1>3. ASSUME NEW p \in Callers, HandlerStep(p) PROVE Fits'
  BY <1>2, <1>3, EnterFits, VerdictFits, FinalizingFits, WithdrawingFits DEF HandlerStep
<1>4. ASSUME NEW p \in Callers, Serve(p) \/ Abort(p) \/ Die(p) PROVE Fits'
  BY <1>2, <1>4, ServeFits
<1>5. CASE LockPayroll
  BY <1>5 DEF LockPayroll, Fits
<1>6. QED
  BY <1>1, <1>3, <1>4, <1>5, BeginsFits DEF RequestNext

-----------------------------------------------------------------------------
(* The reservation.                                                        *)

LEMMA PendingIs ==
  /\ \A h, c, n : h.pc \notin {"reserving", "posting", "settling", "releasing"} => Pending(h, c, n) = 0
  /\ \A h, c : \A n \in Int : Pending(h, c, n) \in Int
  /\ \A h, c, n : h.pc = "posting" => Pending(h, c, n) = - n
  /\ \A h, c, n : h.pc \in {"settling", "releasing"} =>
                    Pending(h, c, n) = IF c.pc = "inc" THEN - n ELSE 0
  /\ \A h, c, n : h.pc = "reserving" =>
                    Pending(h, c, n) = (IF c.pc = "inc" THEN n ELSE 0)
                                         - (IF ChainOf[h.req] = 0 THEN n ELSE 0)
BY DEF Pending

Days == (\A p \in Callers : Due[p] \in Int) /\ (\A r \in Requests : Held[r] \in Int)

LEMMA DueIs ==
  ASSUME IInv, Numbers, NEW p \in Callers
  PROVE  /\ Due[p] = Pending(handler[p], call[p], request[handler[p].req].paid)
         /\ Due[p] \in Int
         /\ handler[p].req \notin Requests => Due[p] = 0
<1>1. Due[p] = Pending(handler[p], call[p], request[handler[p].req].paid)
  BY DEF Due
<1>2. CASE handler[p].req \in Requests
  <2>1. request[handler[p].req].paid \in Int
    BY <1>2, PostsNumbers
  <2>2. QED
    BY <1>1, <1>2, <2>1, PendingIs
<1>3. CASE handler[p].req \notin Requests
  <2>1. handler[p].pc \in {"idle", "crediting"}
    BY <1>3, HandlerReq
  <2>2. QED
    BY <1>1, <2>1, PendingIs
<1>4. QED
  BY <1>2, <1>3

LEMMA DaysCounted == IInv /\ Numbers => Days
<1>1. ASSUME IInv, Numbers, NEW p \in Callers PROVE Due[p] \in Int
  BY <1>1, DueIs
<1>2. ASSUME Numbers, NEW r \in Requests PROVE Held[r] \in Int
  BY <1>2, PostsNumbers DEF Held
<1>3. QED
  BY <1>1, <1>2 DEF Days

LEMMA DueStep ==
  ASSUME IInv, Numbers, IInv', Numbers', NEW p \in Callers, OthersWait(p),
         \A r \in Requests : \/ request'[r].paid = request[r].paid
                             \/ \A q \in Callers : handler[q].req = r => q = p
  PROVE  /\ Sum(Due', Callers) = Sum(Due, Callers) - Due[p] + Due'[p]
         /\ Sum(Due, Callers) \in Int /\ Due[p] \in Int /\ Due'[p] \in Int
<1>1. \A q \in Callers : Due[q] \in Int /\ Due'[q] \in Int
  <2>1. Days /\ Days'
    BY DaysCounted, PTL
  <2>2. QED
    BY <2>1 DEF Days
<1>2. ASSUME NEW q \in Callers \ {p} PROVE Due'[q] = Due[q]
  <2>1. handler'[q] = handler[q] /\ call'[q] = call[q]
    BY DEF OthersWait
  <2>2. CASE handler[q].req \in Requests
    <3>1. request'[handler[q].req].paid = request[handler[q].req].paid
      BY <2>2
    <3>2. QED
      BY <2>1, <3>1 DEF Due
  <2>3. CASE handler[q].req \notin Requests
    <3>1. handler[q].pc \in {"idle", "crediting"}
      BY <2>3, HandlerReq
    <3>2. QED
      BY <2>1, <3>1, PendingIs DEF Due
  <2>4. QED
    BY <2>2, <2>3
<1>3. Sum(Due', Callers) = Sum(Due, Callers) - Due[p] + Due'[p]
  BY <1>1, <1>2, CallersAssumption, SumChange
<1>4. Sum(Due, Callers) \in Int
  BY <1>1, CallersAssumption, SumInt
<1>5. QED
  BY <1>1, <1>3, <1>4

LEMMA HeldStep ==
  ASSUME IInv, Numbers, IInv', Numbers', NEW r \in Requests, Writes(r)
  PROVE  /\ Sum(Held', Requests) = Sum(Held, Requests) - Held[r] + Held'[r]
         /\ Sum(Held, Requests) \in Int /\ Held[r] \in Int /\ Held'[r] \in Int
<1>1. Days /\ Days'
  BY DaysCounted, PTL
<1>2. \A o \in Requests : Held[o] \in Int /\ Held'[o] \in Int
  BY <1>1 DEF Days
<1>3. \A o \in Requests \ {r} : Held'[o] = Held[o]
  BY DEF Held, Writes
<1>4. IsFiniteSet(Requests)
  BY RequestAssumption
<1>5. Sum(Held', Requests) = Sum(Held, Requests) - Held[r] + Held'[r]
  BY <1>2, <1>3, <1>4, SumChange
<1>6. Sum(Held, Requests) \in Int
  BY <1>2, <1>4, SumInt
<1>7. QED
  BY <1>2, <1>5, <1>6

(* A step that leaves the requests alone.                                  *)
LEMMA ReservedStays ==
  ASSUME IInv, Numbers, IInv', Numbers', Reservation, clashed = {},
         NEW p \in Callers, OthersWait(p), UNCHANGED request,
         balance'.pending + Due'[p] = balance.pending + Due[p]
  PROVE  Reservation'
<1>1. /\ Sum(Due', Callers) = Sum(Due, Callers) - Due[p] + Due'[p]
      /\ Sum(Due, Callers) \in Int /\ Due[p] \in Int /\ Due'[p] \in Int
  BY DueStep
<1>2. Held' = Held
  BY DEF Held
<1>3. balance.pending \in Int /\ balance'.pending \in Int
  BY DEF Numbers, BalanceNumbers
<1>4. balance.pending + Sum(Due, Callers) = Sum(Held, Requests)
  BY DEF Reservation
<1>5. balance'.pending + Sum(Due', Callers) = Sum(Held', Requests)
  BY <1>1, <1>2, <1>3, <1>4
<1>6. QED
  BY <1>5 DEF Reservation

(* A step that writes one.                                                 *)
LEMMA ReservedMoves ==
  ASSUME IInv, Numbers, IInv', Numbers', Reservation, clashed = {},
         NEW p \in Callers, OthersWait(p), NEW r \in Requests, Writes(r),
         \/ request'[r].paid = request[r].paid
         \/ \A q \in Callers : handler[q].req = r => q = p,
         balance'.pending = balance.pending,
         Due'[p] - Due[p] = Held'[r] - Held[r]
  PROVE  Reservation'
<1>1. /\ Sum(Due', Callers) = Sum(Due, Callers) - Due[p] + Due'[p]
      /\ Sum(Due, Callers) \in Int /\ Due[p] \in Int /\ Due'[p] \in Int
  BY DueStep DEF Writes
<1>2. /\ Sum(Held', Requests) = Sum(Held, Requests) - Held[r] + Held'[r]
      /\ Sum(Held, Requests) \in Int /\ Held[r] \in Int /\ Held'[r] \in Int
  BY HeldStep
<1>3. balance.pending \in Int
  BY DEF Numbers, BalanceNumbers
<1>4. balance.pending + Sum(Due, Callers) = Sum(Held, Requests)
  BY DEF Reservation
<1>5. balance.pending + Sum(Due', Callers) = Sum(Held', Requests)
  <2> DEFINE k == Due'[p] - Due[p]
  <2>1. k \in Int /\ Sum(Due', Callers) = Sum(Due, Callers) + k
    BY <1>1
  <2>2. Held'[r] - Held[r] = k
    OBVIOUS
  <2> HIDE DEF k
  <2>3. Sum(Held', Requests) = Sum(Held, Requests) + k
    BY <1>2, <2>1, <2>2
  <2>4. QED
    BY <1>1, <1>2, <1>3, <1>4, <2>1, <2>3
<1>6. QED
  BY <1>5 DEF Reservation

(* What a handler owes, where it stands and where it will stand.           *)
LEMMA DueAt ==
  ASSUME IInv, Numbers, NEW p \in Callers
  PROVE  /\ handler[p].pc \notin {"reserving", "posting", "settling", "releasing"} => Due[p] = 0
         /\ Due'[p] = Pending(handler'[p], call'[p], request'[handler'[p].req].paid)
         /\ handler'[p].pc \notin {"reserving", "posting", "settling", "releasing"} => Due'[p] = 0
         /\ Ends(p) => Due'[p] = 0
<1>1. /\ Due[p] = Pending(handler[p], call[p], request[handler[p].req].paid)
      /\ Due'[p] = Pending(handler'[p], call'[p], request'[handler'[p].req].paid)
  BY DEF Due
<1>2. Rest.pc = "idle"
  BY RestOK
<1>3. QED
  BY <1>1, <1>2, PendingIs DEF Ends

LEMMA EnterReserved ==
  ASSUME IInv, Numbers, IInv', Numbers', Fits, Reservation, clashed = {},
         NEW p \in Callers, Decompose(p) \/ Insert(p) \/ Reserve(p)
  PROVE  Reservation'
<1> DEFINE r == handler[p].req
           n == handler[p].doc.paid
<1>1. CASE Decompose(p)
  <2>1. /\ handler[p].pc = "readBalance" /\ handler'[p].pc = "insert"
        /\ OthersWait(p) /\ UNCHANGED <<store, request>>
    BY <1>1, DecomposeDoes DEF Rests
  <2>2. Due[p] = 0 /\ Due'[p] = 0
    BY <2>1, DueAt
  <2>3. QED
    BY <2>1, <2>2, ReservedStays DEF store
<1>2. CASE Insert(p)
  <2>1. /\ handler[p].pc = "insert" /\ n \in Nat /\ r \in Requests /\ request'[r].paid = n
        /\ Writes(r) /\ OthersWait(p) /\ UNCHANGED balance
        /\ request'[r].status = IF ChainOf[r] = 0 THEN "approved" ELSE "pending"
    BY <1>2, InsertDoes DEF store
  <2>2. request[r].status = "none" /\ \A q \in Callers : handler[q].req = r => q = p
    BY <2>1 DEF IInv, EntersAlone, Entering
  <2>3. Due[p] = 0 /\ Held[r] = 0 /\ Held'[r] = IF ChainOf[r] = 0 THEN 0 ELSE n
    BY <2>1, <2>2, DueAt DEF Held
  <2>4. Due'[p] = IF ChainOf[r] = 0 THEN 0 ELSE n
    <3>1. CASE Turns(p, "reserving", Adjusting(n))
      <4>1. handler'[p].pc = "reserving" /\ handler'[p].req = r /\ call'[p].pc = "inc"
        BY <3>1, CallsFit DEF Turns
      <4>2. Due'[p] = n - (IF ChainOf[r] = 0 THEN n ELSE 0)
        BY <2>1, <4>1, DueAt, PendingIs
      <4>3. QED
        BY <2>1, <4>2
    <3>2. CASE n = 0 /\ Turns(p, "project", call[p])
      BY <3>2, DueAt DEF Turns
    <3>3. CASE n = 0 /\ Ends(p)
      BY <3>3, DueAt
    <3>4. QED
      BY <1>2, <3>1, <3>2, <3>3, InsertDoes
  <2>5. QED
    BY <2>1, <2>2, <2>3, <2>4, ReservedMoves
<1>3. CASE Reserve(p)
  <2>1. /\ handler[p].pc = "reserving" /\ call[p].pc = "done" /\ r \in Requests
        /\ OthersWait(p) /\ UNCHANGED <<store, request>> /\ request[r].paid \in Nat
    BY <1>3, ReserveDoes, PostsNumbers DEF Rests
  <2>2. Due[p] = IF ChainOf[r] = 0 THEN - request[r].paid ELSE 0
    BY <2>1, DueIs, PendingIs
  <2>3. Due'[p] = IF ChainOf[r] = 0 THEN - request[r].paid ELSE 0
    <3>1. CASE ChainOf[r] = 0 /\ Turns(p, "posting", Appending(Usage(r)))
      <4>1. handler'[p].pc = "posting" /\ handler'[p].req = r
        BY <3>1 DEF Turns
      <4>2. QED
        BY <2>1, <3>1, <4>1, DueAt, PendingIs
    <3>2. CASE ChainOf[r] = 0 /\ request[r].paid = 0 /\ Turns(p, "project", call[p])
      BY <3>2, DueAt DEF Turns
    <3>3. CASE ChainOf[r] # 0 /\ Ends(p)
      BY <3>3, DueAt
    <3>4. QED
      BY <1>3, <3>1, <3>2, <3>3, ReserveDoes
  <2>4. QED
    BY <2>1, <2>2, <2>3, ReservedStays DEF store
<1>4. QED
  BY <1>1, <1>2, <1>3

LEMMA VerdictReserved ==
  ASSUME IInv, Numbers, IInv', Numbers', Fits, Reservation, clashed = {},
         NEW p \in Callers, Decide(p) \/ Refuse(p) \/ CancelSave(p)
  PROVE  Reservation'
<1> DEFINE r == handler[p].req
           n == handler[p].doc.paid
<1>1. CASE Decide(p)
  <2>1. /\ handler[p].pc = "decide" /\ r \in Requests /\ request[r].status = "pending"
        /\ OthersWait(p) /\ UNCHANGED balance /\ request[r].paid \in Nat
    BY <1>1, DecideDoes, PostsNumbers DEF store
  <2>2. Due[p] = 0 /\ Held[r] = request[r].paid
    BY <2>1, DueAt DEF Held
  <2>3. CASE Sets(r, "pending") /\ Ends(p)
    <3>1. Due'[p] = 0 /\ Held'[r] = request[r].paid
      BY <2>1, <2>3, DueAt DEF Held, Sets
    <3>2. QED
      BY <2>1, <2>2, <2>3, <3>1, ReservedMoves DEF Sets
  <2>4. CASE Sets(r, "approved") /\ Turns(p, "posting", Appending(Usage(r)))
    <3>1. handler'[p].pc = "posting" /\ handler'[p].req = r /\ request'[r].paid = request[r].paid
      BY <2>4 DEF Turns, Sets
    <3>2. Due'[p] = - request[r].paid /\ Held'[r] = 0
      BY <2>1, <2>4, <3>1, DueAt, PendingIs DEF Held, Sets
    <3>3. QED
      BY <2>1, <2>2, <2>4, <3>2, ReservedMoves DEF Sets
  <2>5. CASE Sets(r, "approved") /\ request[r].paid = 0 /\ Turns(p, "project", call[p])
    <3>1. Due'[p] = 0 /\ Held'[r] = 0
      BY <2>1, <2>5, DueAt DEF Held, Sets, Turns
    <3>2. QED
      BY <2>1, <2>2, <2>5, <3>1, ReservedMoves DEF Sets
  <2>6. QED
    BY <1>1, <2>3, <2>4, <2>5, DecideDoes
<1>2. CASE Refuse(p) \/ CancelSave(p)
  <2>1. /\ handler[p].pc \in {"refuse", "cancelSave"} /\ r \in Requests
        /\ OthersWait(p) /\ UNCHANGED balance /\ request[r].paid \in Nat
        /\ handler[p].pc = "refuse" => request[r].status = "pending"
    BY <1>2, RefuseDoes, PostsNumbers DEF store
  <2>2. request[r].status = "pending"
    BY <2>1 DEF IInv, ReadsHold
  <2>3. PICK s \in {"rejected", "cancelled"} : Sets(r, s)
    BY <1>2, RefuseDoes
  <2>4. n = request[r].paid
    BY <2>1 DEF Fits, CallFits
  <2>5. Due[p] = 0 /\ Held[r] = n /\ Held'[r] = 0
    BY <2>1, <2>2, <2>3, <2>4, DueAt DEF Held, Sets
  <2>6. Due'[p] = - n
    <3>1. CASE Turns(p, "releasing", Adjusting(- n))
      <4>1. handler'[p].pc = "releasing" /\ handler'[p].req = r /\ call'[p].pc = "inc"
            /\ request'[r].paid = n
        BY <2>3, <2>4, <3>1, CallsFit DEF Turns, Sets
      <4>2. QED
        BY <2>1, <2>4, <4>1, DueAt, PendingIs
    <3>2. CASE n = 0 /\ Ends(p)
      BY <3>2, DueAt
    <3>3. QED
      BY <1>2, <3>1, <3>2, RefuseDoes
  <2>7. QED
    BY <2>1, <2>3, <2>4, <2>5, <2>6, ReservedMoves DEF Sets
<1>3. QED
  BY <1>1, <1>2

LEMMA FinalizingReserved ==
  ASSUME IInv, Numbers, IInv', Numbers', Fits, Reservation, clashed = {},
         NEW p \in Callers, Posted(p) \/ Settle(p) \/ Project(p) \/ SaveIds(p)
  PROVE  Reservation'
<1> DEFINE r == handler[p].req
<1>1. CASE Posted(p)
  <2>1. /\ handler[p].pc = "posting" /\ r \in Requests /\ OthersWait(p)
        /\ UNCHANGED <<store, request>> /\ Turns(p, "settling", Adjusting(- request[r].paid))
    BY <1>1, PostedDoes DEF Rests
  <2>2. handler'[p].pc = "settling" /\ handler'[p].req = r /\ call'[p].pc = "inc"
    BY <2>1, CallsFit DEF Turns
  <2>3. Due[p] = - request[r].paid /\ Due'[p] = - request[r].paid
    BY <2>1, <2>2, DueIs, DueAt, PendingIs
  <2>4. QED
    BY <2>1, <2>3, ReservedStays DEF store
<1>2. CASE Settle(p)
  <2>1. /\ handler[p].pc = "settling" /\ call[p].pc = "done" /\ OthersWait(p)
        /\ UNCHANGED <<store, request>> /\ handler'[p].pc = "project"
    BY <1>2, SettleDoes DEF Rests, Turns
  <2>2. Due[p] = 0 /\ Due'[p] = 0
    BY <2>1, DueIs, DueAt, PendingIs
  <2>3. QED
    BY <2>1, <2>2, ReservedStays DEF store
<1>3. CASE Project(p)
  <2>1. /\ handler[p].pc = "project" /\ OthersWait(p) /\ UNCHANGED <<store, request>>
        /\ handler'[p].pc = "saveIds"
    BY <1>3, ProjectDoes DEF Turns
  <2>2. QED
    BY <2>1, DueAt, ReservedStays DEF store
<1>4. CASE SaveIds(p)
  <2>1. /\ handler[p].pc = "saveIds" /\ r \in Requests /\ OthersWait(p) /\ UNCHANGED balance
        /\ Writes(r) /\ request'[r].status = request[r].status
        /\ request'[r].paid = request[r].paid /\ Ends(p)
    BY <1>4, SaveIdsDoes DEF store
  <2>2. Due[p] = 0 /\ Due'[p] = 0 /\ Held'[r] = Held[r] /\ Held[r] \in Int
    BY <2>1, DueAt, PostsNumbers DEF Held
  <2>3. QED
    BY <2>1, <2>2, ReservedMoves
<1>5. QED
  BY <1>1, <1>2, <1>3, <1>4

LEMMA WithdrawingReserved ==
  ASSUME IInv, Numbers, IInv', Numbers', Fits, Reservation, clashed = {},
         NEW p \in Callers, Reversed(p) \/ Void(p) \/ WithdrawSave(p)
  PROVE  Reservation'
<1> DEFINE r == handler[p].req
<1>1. CASE Reversed(p) \/ Void(p)
  <2>1. /\ handler[p].pc \in Withdrawing /\ OthersWait(p) /\ UNCHANGED <<store, request>>
        /\ handler'[p].pc \in Withdrawing
    BY <1>1, ReversedDoes, VoidDoes DEF Rests, Turns, Withdrawing
  <2>2. QED
    BY <2>1, DueAt, ReservedStays DEF store, Withdrawing
<1>2. CASE WithdrawSave(p)
  <2>1. /\ handler[p].pc = "withdrawSave" /\ r \in Requests /\ OthersWait(p) /\ UNCHANGED balance
        /\ Sets(r, "withdrawn") /\ Ends(p)
    BY <1>2, WithdrawSaveDoes DEF store
  <2>2. request[r].status = "approved"
    BY <2>1 DEF IInv, ReadsHold, Withdrawing
  <2>3. Due[p] = 0 /\ Due'[p] = 0 /\ Held'[r] = 0 /\ Held[r] = 0
    BY <2>1, <2>2, DueAt DEF Held, Sets
  <2>4. QED
    BY <2>1, <2>3, ReservedMoves DEF Sets
<1>3. QED
  BY <1>1, <1>2

LEMMA BeginsReserved ==
  ASSUME IInv, Numbers, IInv', Numbers', Fits, Reservation, clashed = {}, NEW p \in Callers,
         \/ Credit(p)
         \/ \E r \in Requests : \/ Apply(p, r) \/ Approve(p, r) \/ Reject(p, r)
                                \/ Cancel(p, r) \/ Withdraw(p, r)
  PROVE  Reservation'
<1>1. ASSUME NEW flow, NEW r, NEW doc, NEW c, OthersWait(p),
             NEW pc \in {"readBalance", "decide", "refuse", "cancelSave", "reversing", "void",
                         "crediting"},
             Starts(p, flow, pc, r, doc, c)
      PROVE  Reservation'
  <2>1. handler[p] = Rest /\ handler'[p].pc = pc /\ UNCHANGED <<store, request>>
    BY <1>1 DEF Starts
  <2>2. Due[p] = 0 /\ Due'[p] = 0
    BY <2>1, DueAt, RestOK
  <2>3. QED
    BY <1>1, <2>1, <2>2, ReservedStays DEF store
<1>2. CASE Credit(p)
  BY <1>1, <1>2, CreditDoes
<1>3. ASSUME NEW r \in Requests, Apply(p, r) \/ Approve(p, r) \/ Reject(p, r) \/ Cancel(p, r)
      PROVE  Reservation'
  <2>1. /\ OthersWait(p)
        /\ \/ Starts(p, "apply", "readBalance", r, NoRequest, call[p])
           \/ Starts(p, "approve", "decide", r, request[r], call[p])
           \/ Starts(p, "reject", "refuse", r, request[r], call[p])
           \/ Starts(p, "cancel", "cancelSave", r, request[r], call[p])
    BY <1>3, CallDoes
  <2>2. QED
    BY <1>1, <2>1
<1>4. ASSUME NEW r \in Requests, Withdraw(p, r) PROVE Reservation'
  <2>1. /\ OthersWait(p)
        /\ \/ Starts(p, "withdraw", "reversing", r, request[r], Appending(Reversal(r)))
           \/ Starts(p, "withdraw", "void", r, request[r], call[p])
    BY <1>4, WithdrawDoes
  <2>2. QED
    BY <1>1, <2>1
<1>5. QED
  BY <1>2, <1>3, <1>4

LEMMA EndsReserved ==
  ASSUME IInv, Numbers, IInv', Numbers', Fits, Reservation, clashed = {}, clashed' = {},
         NEW p \in Callers, Conflict(p) \/ Released(p) \/ Credited(p) \/ Abort(p) \/ Die(p)
  PROVE  Reservation'
<1>1. /\ Ends(p) /\ OthersWait(p) /\ UNCHANGED <<balance, request>>
      /\ \/ handler[p].pc \in {"decide", "refuse"}
         \/ handler[p].pc \in {"releasing", "crediting"} /\ call[p].pc = "done"
         \/ handler[p].req \notin Requests
  BY EndDoes
<1>2. Due[p] = 0
  BY <1>1, DueAt, DueIs, PendingIs
<1>3. Due'[p] = 0
  BY <1>1, DueAt
<1>4. QED
  BY <1>1, <1>2, <1>3, ReservedStays

LEMMA ServeReserved ==
  ASSUME IInv, Numbers, IInv', Numbers', Fits, Reservation, clashed = {}, NEW p \in Callers, Serve(p)
  PROVE  Reservation'
<1> DEFINE r == handler[p].req
           n == request[r].paid
           h == handler[p]
<1>1. /\ UNCHANGED handler /\ UNCHANGED request /\ OthersWait(p)
      /\ Waiting(p) \/ Posting(p) \/ Adding(p) \/ Rebuilding(p)
  BY ServeDoes
<1>2. /\ Due[p] = Pending(h, call[p], n) /\ Due'[p] = Pending(h, call'[p], n)
      /\ Due[p] \in Int /\ balance.pending \in Int
  BY <1>1, DueIs, DueAt DEF Numbers, BalanceNumbers
<1>3. CASE Adding(p)
  <2>1. /\ call[p].pc = "inc" /\ call'[p].pc = "fold"
        /\ balance'.pending = balance.pending + call[p].delta
    BY <1>3 DEF Adding
  <2>2. \/ h.pc = "reserving" /\ call[p].delta = n
        \/ h.pc \in {"settling", "releasing"} /\ call[p].delta = - n
    BY <2>1 DEF Fits, CallFits
  <2>3. n \in Int
    BY <2>2, HandlerReq, PostsNumbers
  <2>4. CASE h.pc = "reserving"
    <3>1. Due[p] = n - (IF ChainOf[r] = 0 THEN n ELSE 0) /\ Due'[p] = 0 - (IF ChainOf[r] = 0 THEN n ELSE 0)
      BY <1>2, <2>1, <2>4, PendingIs
    <3>2. balance'.pending + Due'[p] = balance.pending + Due[p]
      BY <1>2, <2>1, <2>2, <2>3, <2>4, <3>1
    <3>3. QED
      BY <1>1, <3>2, ReservedStays
  <2>5. CASE h.pc \in {"settling", "releasing"}
    <3>1. Due[p] = - n /\ Due'[p] = 0
      BY <1>2, <2>1, <2>5, PendingIs
    <3>2. balance'.pending + Due'[p] = balance.pending + Due[p]
      BY <1>2, <2>1, <2>2, <2>3, <2>5, <3>1
    <3>3. QED
      BY <1>1, <3>2, ReservedStays
  <2>6. QED
    BY <2>2, <2>4, <2>5
<1>4. CASE Waiting(p) \/ Posting(p) \/ Rebuilding(p)
  <2>1. call[p].pc # "inc" /\ call'[p].pc # "inc" /\ balance'.pending = balance.pending
    BY <1>4 DEF Waiting, Posting, Rebuilding, Asking
  <2>2. Due'[p] = Due[p]
    BY <1>2, <2>1 DEF Pending
  <2>3. QED
    BY <1>1, <1>2, <2>1, <2>2, ReservedStays
<1>5. QED
  BY <1>1, <1>3, <1>4

LEMMA ClashesStay == [RequestNext]_rvars => clashed \subseteq clashed'
<1> SUFFICES ASSUME [RequestNext]_rvars PROVE clashed \subseteq clashed'
  OBVIOUS
<1>1. CASE UNCHANGED rvars
  BY <1>1 DEF rvars
<1>2. ASSUME NEW p \in Callers, HandlerStep(p) PROVE clashed' = clashed
  BY <1>2 DEF HandlerStep, Decompose, Insert, Reserve, Decide, Refuse, Conflict, Released, Posted,
              Settle, Project, SaveIds, CancelSave, Reversed, Void, WithdrawSave, Credited
<1>3. ASSUME NEW p \in Callers, Serve(p) \/ Credit(p) \/ Abort(p) \/ Die(p)
      PROVE  clashed \subseteq clashed'
  BY <1>3 DEF Serve, Credit, Abort, Die, Cut, Begin
<1>4. ASSUME NEW p \in Callers, NEW r \in Requests,
             Apply(p, r) \/ Approve(p, r) \/ Reject(p, r) \/ Cancel(p, r) \/ Withdraw(p, r)
      PROVE  clashed \subseteq clashed'
  BY <1>4 DEF Apply, Approve, Reject, Cancel, Withdraw, Begin
<1>5. CASE LockPayroll
  BY <1>5 DEF LockPayroll
<1>6. QED
  BY <1>1, <1>2, <1>3, <1>4, <1>5 DEF RequestNext

LEMMA StepReservation ==
  ASSUME IInv, Numbers, IInv', Numbers', Fits, Reservation, [RequestNext]_rvars
  PROVE  Reservation'
<1>1. SUFFICES ASSUME clashed' = {} PROVE Reservation'
  BY DEF Reservation
<1>2. clashed = {}
  BY <1>1, ClashesStay
<1>3. ASSUME UNCHANGED <<balance, call, request, handler>> PROVE Reservation'
  BY <1>2, <1>3 DEF Reservation, Due, Held
<1>4. CASE UNCHANGED rvars
  BY <1>3, <1>4 DEF rvars
<1>5. ASSUME NEW p \in Callers, HandlerStep(p) \/ Serve(p) \/ Abort(p) \/ Die(p)
      PROVE  Reservation'
  BY <1>1, <1>2, <1>5, EnterReserved, VerdictReserved, FinalizingReserved, WithdrawingReserved,
     EndsReserved, ServeReserved DEF HandlerStep
<1>6. CASE LockPayroll
  BY <1>3, <1>6 DEF LockPayroll, store
<1>7. QED
  BY <1>2, <1>4, <1>5, <1>6, BeginsReserved DEF RequestNext

-----------------------------------------------------------------------------
(* The books.                                                              *)

(* Nothing of a request, its entries and its event is written.             *)
Same(r) ==
  /\ request'[r] = request[r] /\ event'[r] = event[r]
  /\ Posts(r, "usage")' = Posts(r, "usage")
  /\ Posts(r, "usage_reversal")' = Posts(r, "usage_reversal")

(* A handler that is not about to write any of it, and one that goes on    *)
(* with what it was about.                                                 *)
Roleless(h) == ~Finalizing(h) /\ h.pc \notin Withdrawing
Likewise(h, c, g, b) ==
  /\ Owes(h, c) => Owes(g, b)
  /\ Finalizing(g) <=> Finalizing(h)
  /\ Marking(h) => Marking(g)
  /\ g.pc = "saveIds" => h.pc = "saveIds"
  /\ g.pc \in Withdrawing <=> h.pc \in Withdrawing
  /\ g.pc \in Withdrawing => /\ g.doc = h.doc
                             /\ Undone(g, b) <=> Undone(h, c)
                             /\ g.pc = "withdrawSave" <=> h.pc = "withdrawSave"

LEMMA RolesAre ==
  /\ \A h, c : Roleless(h) => ~Owes(h, c) /\ ~Finalizing(h) /\ ~Marking(h) /\ h.pc \notin Withdrawing
  /\ Roleless(Rest)
<1>1. Rest.pc = "idle"
  BY RestOK
<1>2. QED
  BY <1>1 DEF Roleless, Owes, Finalizing, Marking, Withdrawing

LEMMA Undisturbed ==
  ASSUME Kept, NEW p \in Callers, OthersWait(p), NEW r \in Requests \ clashed', clashed \subseteq clashed',
         Same(r),
         \/ handler[p].req # r /\ handler'[p].req # r
         \/ Roleless(handler[p]) /\ Roleless(handler'[p])
         \/ /\ handler'[p].req = handler[p].req
            /\ Likewise(handler[p], call[p], handler'[p], call'[p])
  PROVE  KeptOf(r)'
<1>1. KeptOf(r)
  BY DEF Kept
<1>2. /\ Charged(r)' <=> Charged(r)
      /\ GivenBack(r)' <=> GivenBack(r)
  BY DEF Same, Charged, GivenBack
<1>3. ASSUME NEW q \in Callers
      PROVE  /\ Works(q, r) /\ Owes(handler[q], call[q])
                  => Works(q, r)' /\ Owes(handler[q], call[q])'
             /\ Works(q, r) /\ Marking(handler[q]) => Works(q, r)' /\ Marking(handler[q])'
             /\ Works(q, r) /\ Finalizing(handler[q]) <=> Works(q, r)' /\ Finalizing(handler[q])'
             /\ Works(q, r) /\ handler[q].pc \in Withdrawing
                  <=> Works(q, r)' /\ handler'[q].pc \in Withdrawing
             /\ Works(q, r)' /\ Finalizing(handler[q])' /\ handler'[q].pc = "saveIds"
                  => handler[q].pc = "saveIds"
             /\ Works(q, r)' /\ handler'[q].pc \in Withdrawing =>
                  /\ handler'[q].doc = handler[q].doc
                  /\ Undone(handler[q], call[q])' <=> Undone(handler[q], call[q])
                  /\ handler'[q].pc = "withdrawSave" <=> handler[q].pc = "withdrawSave"
  <2>1. CASE q # p
    <3>1. handler'[q] = handler[q] /\ call'[q] = call[q]
      BY <2>1 DEF OthersWait
    <3>2. QED
      BY <3>1 DEF Works, Owes, Marking, Finalizing, Undone
  <2>2. CASE q = p /\ handler[p].req # r /\ handler'[p].req # r
    BY <2>2 DEF Works
  <2>3. CASE q = p /\ Roleless(handler[p]) /\ Roleless(handler'[p])
    <3>1. /\ ~Owes(handler[p], call[p]) /\ ~Finalizing(handler[p]) /\ ~Marking(handler[p])
          /\ handler[p].pc \notin Withdrawing
          /\ ~Owes(handler[p], call[p])' /\ ~Finalizing(handler[p])' /\ ~Marking(handler[p])'
          /\ handler'[p].pc \notin Withdrawing
      BY <2>3, RolesAre
    <3>2. QED
      BY <2>3, <3>1
  <2>4. CASE /\ q = p /\ handler'[p].req = handler[p].req
             /\ Likewise(handler[p], call[p], handler'[p], call'[p])
    <3>1. Works(p, r)' <=> Works(p, r)
      BY <2>4 DEF Works
    <3>2. QED
      BY <2>4, <3>1 DEF Likewise
  <2>5. QED
    BY <2>1, <2>2, <2>3, <2>4
<1>4. BooksOf(r)'
  <2>1. request'[r].status \notin {"approved", "withdrawn"} => Untouched(r)'
    BY <1>1 DEF KeptOf, BooksOf, Untouched, Same
  <2>2. request'[r].status = "approved" => Spent(r)'
    BY <1>1, <1>2, <1>3 DEF KeptOf, BooksOf, Spent, Same
  <2>3. request'[r].status = "withdrawn" => Restored(r)'
    BY <1>1, <1>2 DEF KeptOf, BooksOf, Restored, Same
  <2>4. QED
    BY <2>1, <2>2, <2>3 DEF BooksOf
<1>5. ASSUME NEW q \in Callers, Works(q, r)' PROVE WorkOf(q, r)'
  <2>1. CASE Finalizing(handler[q])'
    <3>1. Works(q, r) /\ Finalizing(handler[q]) /\ WorkOf(q, r)
      BY <1>1, <1>3, <1>5, <2>1 DEF KeptOf
    <3>2. /\ request'[r].status = "approved"
          /\ \A o \in Callers : Works(o, r)' /\ Finalizing(handler[o])' => o = q
          /\ handler'[q].pc = "saveIds" => event'[r] = "live"
      BY <1>3, <1>5, <2>1, <3>1 DEF WorkOf, Same
    <3>3. handler'[q].pc \notin Withdrawing
      BY <2>1 DEF Finalizing, Withdrawing
    <3>4. QED
      BY <3>2, <3>3 DEF WorkOf
  <2>2. CASE handler'[q].pc \in Withdrawing
    <3>1. Works(q, r) /\ handler[q].pc \in Withdrawing /\ WorkOf(q, r)
      BY <1>1, <1>3, <1>5, <2>2 DEF KeptOf
    <3>2. /\ handler'[q].doc = handler[q].doc
          /\ Undone(handler[q], call[q])' <=> Undone(handler[q], call[q])
          /\ handler'[q].pc = "withdrawSave" <=> handler[q].pc = "withdrawSave"
      BY <1>3, <1>5, <2>2
    <3>3. ~Finalizing(handler[q])'
      BY <2>2 DEF Finalizing, Withdrawing
    <3>4. QED
      BY <1>2, <3>1, <3>2, <3>3 DEF WorkOf, Same
  <2>3. QED
    BY <2>1, <2>2 DEF WorkOf
<1>6. QED
  BY <1>4, <1>5 DEF KeptOf

(* An open request is decided, or stays open.                              *)
LEMMA Decided ==
  ASSUME IInv, Kept, NEW p \in Callers, OthersWait(p), NEW r \in Requests \ clashed',
         clashed \subseteq clashed', UNCHANGED <<ledger, event>>,
         request[r].status \notin {"approved", "withdrawn"},
         \/ request'[r].status \notin {"approved", "withdrawn"} /\ Roleless(handler'[p])
         \/ /\ request'[r].status = "approved" /\ handler'[p].req = r
            /\ Finalizing(handler'[p]) /\ Marking(handler'[p])
            /\ Owes(handler'[p], call'[p]) \/ request'[r].paid = 0
  PROVE  KeptOf(r)'
<1>1. KeptOf(r)
  BY DEF Kept
<1>2. ASSUME NEW q \in Callers, Works(q, r) PROVE Roleless(handler[q])
  <2>1. ~Finalizing(handler[q])
    BY <1>1, <1>2 DEF KeptOf, WorkOf
  <2>2. handler[q].pc \notin Withdrawing
    BY <1>2 DEF IInv, ReadsHold, Works
  <2>3. QED
    BY <2>1, <2>2 DEF Roleless
<1>3. ASSUME NEW q \in Callers, q # p, Works(q, r)' PROVE Roleless(handler'[q])
  BY <1>2, <1>3 DEF OthersWait, Works
<1>4. /\ Posts(r, "usage")' = {} /\ Posts(r, "usage_reversal")' = {} /\ event'[r] = "none"
  BY <1>1 DEF KeptOf, BooksOf, Untouched, Posts
<1>5. CASE request'[r].status \notin {"approved", "withdrawn"} /\ Roleless(handler'[p])
  <2>1. BooksOf(r)'
    BY <1>4, <1>5 DEF BooksOf, Untouched
  <2>2. \A q \in Callers : Works(q, r)' => WorkOf(q, r)'
    BY <1>3, <1>5 DEF WorkOf, Roleless
  <2>3. QED
    BY <2>1, <2>2 DEF KeptOf
<1>6. CASE /\ request'[r].status = "approved" /\ handler'[p].req = r
           /\ Finalizing(handler'[p]) /\ Marking(handler'[p])
           /\ Owes(handler'[p], call'[p]) \/ request'[r].paid = 0
  <2>1. Works(p, r)'
    BY <1>6 DEF Works
  <2>2. request'[r].paid = 0 => Charged(r)'
    BY <1>4 DEF Charged
  <2>3. Spent(r)'
    BY <1>4, <1>6, <2>1, <2>2 DEF Spent
  <2>4. BooksOf(r)'
    BY <1>6, <2>3 DEF BooksOf
  <2>5. handler'[p].pc # "saveIds" /\ handler'[p].pc \notin Withdrawing
    BY <1>6 DEF Marking, Finalizing, Withdrawing
  <2>6. WorkOf(p, r)'
    BY <1>3, <1>6, <2>5 DEF WorkOf, Roleless
  <2>7. \A q \in Callers \ {p} : Works(q, r)' => WorkOf(q, r)'
    BY <1>3 DEF WorkOf, Roleless
  <2>8. QED
    BY <2>4, <2>6, <2>7 DEF KeptOf
<1>7. QED
  BY <1>5, <1>6

(* Steps that write nothing of any request.                                *)
LEMMA QuietKept ==
  ASSUME Kept, NEW p \in Callers, OthersWait(p), clashed \subseteq clashed',
         UNCHANGED <<ledger, request, event>>,
         \/ handler[p].req \notin Requests \ clashed' /\ handler'[p].req \notin Requests \ clashed'
         \/ Roleless(handler[p]) /\ Roleless(handler'[p])
         \/ /\ handler'[p].req = handler[p].req
            /\ Likewise(handler[p], call[p], handler'[p], call'[p])
  PROVE  Kept'
<1>1. ASSUME NEW r \in Requests \ clashed' PROVE Same(r)
  BY DEF Same, Posts
<1>2. QED
  BY <1>1, Undisturbed DEF Kept

(* The other requests, when the step is about one.                         *)
LEMMA OthersKept ==
  ASSUME Kept, NEW p \in Callers, OthersWait(p), clashed \subseteq clashed',
         NEW r \in Requests, handler[p].req = r, UNCHANGED ledger,
         handler'[p].req = r \/ Ends(p),
         Writes(r), \A o \in Requests \ {r} : event'[o] = event[o],
         r \notin clashed' => KeptOf(r)'
  PROVE  Kept'
<1>1. ASSUME NEW o \in Requests \ clashed', o # r PROVE KeptOf(o)'
  <2>1. Same(o)
    BY <1>1 DEF Same, Posts, Writes
  <2>2. handler[p].req # o /\ handler'[p].req # o
    BY <1>1, RestOK, RequestAssumption DEF Ends
  <2>3. QED
    BY <1>1, <2>1, <2>2, Undisturbed
<1>2. QED
  BY <1>1 DEF Kept

LEMMA EnterKept ==
  ASSUME IInv, Numbers, Fits, Kept, NEW p \in Callers, Decompose(p) \/ Insert(p) \/ Reserve(p)
  PROVE  Kept'
<1>0. PICK r : r = handler[p].req
  OBVIOUS
<1> DEFINE n == handler[p].doc.paid
<1>1. CASE Decompose(p)
  <2>1. /\ handler[p].pc = "readBalance" /\ handler'[p].pc = "insert"
        /\ OthersWait(p) /\ UNCHANGED <<store, request, event, clashed>>
    BY <1>1, DecomposeDoes DEF Rests
  <2>2. Roleless(handler[p]) /\ Roleless(handler'[p])
    BY <2>1 DEF Roleless, Finalizing, Withdrawing
  <2>3. QED
    BY <2>1, <2>2, QuietKept DEF store
<1>2. CASE Insert(p)
  <2>1. /\ handler[p].pc = "insert" /\ n \in Nat /\ r \in Requests /\ request'[r].paid = n
        /\ Writes(r) /\ OthersWait(p) /\ UNCHANGED <<store, event, clashed>>
        /\ request'[r].status = IF ChainOf[r] = 0 THEN "approved" ELSE "pending"
    BY <1>2, <1>0, InsertDoes
  <2>2. request[r].status = "none"
    BY <2>1, <1>0 DEF IInv, EntersAlone, Entering
  <2>3. \/ n > 0 /\ Turns(p, "reserving", Adjusting(n))
        \/ n = 0 /\ ChainOf[r] = 0 /\ Turns(p, "project", call[p])
        \/ n = 0 /\ ChainOf[r] # 0 /\ Ends(p)
    BY <1>2, <1>0, InsertDoes
  <2>4. handler'[p].req = r \/ Ends(p)
    BY <2>3, <1>0 DEF Turns
  <2>5. CASE ChainOf[r] = 0
    <3>1. /\ handler'[p].req = r /\ handler'[p].pc \in {"reserving", "project"}
          /\ handler'[p].pc = "project" => n = 0
      BY <2>3, <2>5, <1>0 DEF Turns
    <3>2. /\ Finalizing(handler'[p]) /\ Marking(handler'[p])
          /\ Owes(handler'[p], call'[p]) \/ n = 0
      BY <2>5, <3>1 DEF Finalizing, Marking, Owes
    <3>3. r \notin clashed' => KeptOf(r)'
      BY <2>1, <2>2, <2>5, <3>1, <3>2, Decided DEF store
    <3>4. QED
      BY <2>1, <2>4, <3>3, <1>0, OthersKept DEF store
  <2>6. CASE ChainOf[r] # 0
    <3>1. Roleless(handler'[p])
      <4>1. CASE Turns(p, "reserving", Adjusting(n))
        BY <2>6, <4>1, <1>0 DEF Turns, Roleless, Finalizing, Withdrawing
      <4>2. CASE Ends(p)
        BY <4>2, RolesAre DEF Ends
      <4>3. QED
        BY <2>3, <2>6, <4>1, <4>2
    <3>2. r \notin clashed' => KeptOf(r)'
      BY <2>1, <2>2, <2>6, <3>1, Decided DEF store
    <3>3. QED
      BY <2>1, <2>4, <3>2, <1>0, OthersKept DEF store
  <2>7. QED
    BY <2>5, <2>6
<1>3. CASE Reserve(p)
  <2>1. /\ handler[p].pc = "reserving" /\ call[p].pc = "done" /\ r \in Requests
        /\ OthersWait(p) /\ UNCHANGED <<store, request, event, clashed>>
    BY <1>3, <1>0, ReserveDoes DEF Rests
  <2>2. request[r].paid > 0
    BY <2>1, <1>0 DEF Fits, CallFits
  <2>3. \/ ChainOf[r] = 0 /\ Turns(p, "posting", Appending(Usage(r)))
        \/ ChainOf[r] # 0 /\ Ends(p)
    BY <1>3, <1>0, <2>2, ReserveDoes
  <2>4. CASE ChainOf[r] = 0 /\ Turns(p, "posting", Appending(Usage(r)))
    <3>1. handler'[p].pc = "posting" /\ handler'[p].req = r /\ call'[p].pc = "readSeq"
      BY <2>4, <1>0, CallsFit DEF Turns
    <3>2. Likewise(handler[p], call[p], handler'[p], call'[p])
      BY <2>1, <2>4, <3>1, <1>0 DEF Likewise, Owes, Finalizing, Marking, Withdrawing, Asking
    <3>3. QED
      BY <2>1, <3>1, <3>2, <1>0, QuietKept DEF store
  <2>5. CASE ChainOf[r] # 0 /\ Ends(p)
    <3>1. Roleless(handler[p]) /\ Roleless(handler'[p])
      BY <1>0, <2>1, <2>5, RolesAre DEF Roleless, Finalizing, Withdrawing, Ends
    <3>2. QED
      BY <2>1, <3>1, QuietKept DEF store
  <2>6. QED
    BY <2>3, <2>4, <2>5
<1>4. QED
  BY <1>1, <1>2, <1>3

LEMMA VerdictKept ==
  ASSUME IInv, Numbers, Fits, Kept, NEW p \in Callers, Decide(p) \/ Refuse(p) \/ CancelSave(p)
  PROVE  Kept'
<1>0. PICK r : r = handler[p].req
  OBVIOUS
<1>1. CASE Decide(p)
  <2>1. /\ r \in Requests /\ request[r].status = "pending"
        /\ OthersWait(p) /\ UNCHANGED <<store, event, clashed>>
    BY <1>0, <1>1, DecideDoes
  <2>2. \/ /\ Sets(r, "approved")
           /\ \/ Turns(p, "posting", Appending(Usage(r)))
              \/ request[r].paid = 0 /\ Turns(p, "project", call[p])
        \/ Sets(r, "pending") /\ Ends(p)
    BY <1>0, <1>1, DecideDoes
  <2>3. Writes(r) /\ (handler'[p].req = r \/ Ends(p))
    BY <1>0, <2>2 DEF Sets, Turns
  <2>4. CASE Sets(r, "pending") /\ Ends(p)
    <3>1. Roleless(handler'[p]) /\ request'[r].status = "pending"
      BY <2>4, RolesAre DEF Ends, Sets
    <3>2. r \notin clashed' => KeptOf(r)'
      BY <2>1, <3>1, Decided DEF store
    <3>3. QED
      BY <1>0, <2>1, <2>3, <3>2, OthersKept DEF store
  <2>5. CASE /\ Sets(r, "approved")
             /\ \/ Turns(p, "posting", Appending(Usage(r)))
                \/ request[r].paid = 0 /\ Turns(p, "project", call[p])
    <3>1. /\ handler'[p].req = r /\ request'[r].status = "approved"
          /\ \/ handler'[p].pc = "posting" /\ call'[p].pc = "readSeq"
             \/ handler'[p].pc = "project" /\ request'[r].paid = 0
      BY <1>0, <2>5, CallsFit DEF Turns, Sets
    <3>2. /\ Finalizing(handler'[p]) /\ Marking(handler'[p])
          /\ Owes(handler'[p], call'[p]) \/ request'[r].paid = 0
      BY <3>1 DEF Finalizing, Marking, Owes, Asking
    <3>3. r \notin clashed' => KeptOf(r)'
      BY <2>1, <3>1, <3>2, Decided DEF store
    <3>4. QED
      BY <1>0, <2>1, <2>3, <3>3, OthersKept DEF store
  <2>6. QED
    BY <2>2, <2>4, <2>5
<1>2. CASE Refuse(p) \/ CancelSave(p)
  <2>1. /\ r \in Requests /\ OthersWait(p) /\ UNCHANGED <<store, event, clashed>>
        /\ handler[p].pc = "cancelSave" \/ request[r].status = "pending"
        /\ Turns(p, "releasing", Adjusting(- handler[p].doc.paid)) \/ Ends(p)
    BY <1>0, <1>2, RefuseDoes
  <2>2. PICK s \in {"rejected", "cancelled"} : Sets(r, s)
    BY <1>0, <1>2, RefuseDoes
  <2>3. Writes(r) /\ (handler'[p].req = r \/ Ends(p)) /\ request'[r].status = s
    BY <1>0, <2>1, <2>2 DEF Sets, Turns
  <2>4. Roleless(handler'[p])
    <3>1. CASE Ends(p)
      BY <3>1, RolesAre DEF Ends
    <3>2. CASE handler'[p].pc = "releasing"
      BY <3>2 DEF Roleless, Finalizing, Withdrawing
    <3>3. QED
      BY <2>1, <3>1, <3>2 DEF Turns
  <2>5. r \notin clashed' => request[r].status = "pending"
    BY <1>0, <2>1 DEF IInv, ReadsHold
  <2>6. r \notin clashed' => KeptOf(r)'
    BY <2>1, <2>3, <2>4, <2>5, Decided DEF store
  <2>7. QED
    BY <1>0, <2>1, <2>3, <2>6, OthersKept DEF store
<1>3. QED
  BY <1>1, <1>2

(* A handler that withdraws has its request to itself.                     *)
LEMMA WithdrawsAlone ==
  ASSUME IInv, NEW r \in Requests \ clashed, NEW p \in Callers, Works(p, r),
         handler[p].pc \in Withdrawing, NEW q \in Callers, Works(q, r)
  PROVE  q = p
<1>1. SUFFICES ASSUME q # p PROVE FALSE
  OBVIOUS
<1>2. handler[p].flow = "withdraw"
  BY ControlAt DEF ControlOK
<1>3. Compatible("withdraw", handler[q].flow)
  BY <1>1, <1>2 DEF IInv, ReadsHold, Works
<1>4. QED
  BY <1>3 DEF Compatible

LEMMA FinalizingKept ==
  ASSUME IInv, Numbers, Fits, Kept, NEW p \in Callers,
         Posted(p) \/ Settle(p) \/ Project(p) \/ SaveIds(p)
  PROVE  Kept'
<1>0. PICK r : r = handler[p].req
  OBVIOUS
<1>1. CASE Posted(p)
  <2>1. /\ handler[p].pc = "posting" /\ call[p].pc = "done"
        /\ OthersWait(p) /\ UNCHANGED <<store, request, event, clashed>>
        /\ handler'[p].pc = "settling" /\ handler'[p].req = handler[p].req
    BY <1>1, PostedDoes DEF Rests, Turns
  <2>2. Likewise(handler[p], call[p], handler'[p], call'[p])
    BY <2>1 DEF Likewise, Owes, Finalizing, Marking, Withdrawing, Asking
  <2>3. QED
    BY <2>1, <2>2, QuietKept DEF store
<1>2. CASE Settle(p)
  <2>1. /\ handler[p].pc = "settling"
        /\ OthersWait(p) /\ UNCHANGED <<store, request, event, clashed>>
        /\ handler'[p].pc = "project" /\ handler'[p].req = handler[p].req
    BY <1>2, SettleDoes DEF Rests, Turns
  <2>2. Likewise(handler[p], call[p], handler'[p], call'[p])
    BY <2>1 DEF Likewise, Owes, Finalizing, Marking, Withdrawing
  <2>3. QED
    BY <2>1, <2>2, QuietKept DEF store
<1>3. ASSUME Project(p) \/ SaveIds(p), r \in Requests \ clashed
      PROVE  /\ KeptOf(r) /\ WorkOf(p, r) /\ Works(p, r) /\ Finalizing(handler[p])
             /\ request[r].status = "approved" /\ Spent(r)
             /\ \A q \in Callers : q # p /\ Works(q, r) => Roleless(handler[q])
  <2>1. handler[p].pc \in {"project", "saveIds"}
    BY <1>3 DEF Project, SaveIds, On
  <2>2. KeptOf(r) /\ Works(p, r) /\ WorkOf(p, r) /\ Finalizing(handler[p])
    BY <1>0, <1>3, <2>1 DEF Kept, KeptOf, Works, Finalizing
  <2>3. request[r].status = "approved" /\ Spent(r)
    BY <2>2 DEF WorkOf, KeptOf, BooksOf
  <2>4. ASSUME NEW q \in Callers, q # p, Works(q, r) PROVE Roleless(handler[q])
    <3>1. ~Finalizing(handler[q])
      BY <2>2, <2>4 DEF WorkOf
    <3>2. handler[q].pc \notin Withdrawing
      BY <1>3, <2>2, <2>4, WithdrawsAlone
    <3>3. QED
      BY <3>1, <3>2 DEF Roleless
  <2>5. QED
    BY <2>2, <2>3, <2>4
<1>4. ASSUME NEW q \in Callers, q # p, Works(q, r)', OthersWait(p), Project(p) \/ SaveIds(p),
             r \in Requests \ clashed
      PROVE  Works(q, r) /\ Roleless(handler'[q])
  BY <1>3, <1>4 DEF OthersWait, Works
<1>5. CASE Project(p)
  <2>1. /\ handler[p].pc = "project" /\ r \in Requests
        /\ event'[r] = "live" /\ \A o \in Requests \ {r} : event'[o] = event[o]
        /\ handler'[p].pc = "saveIds" /\ handler'[p].req = r /\ call'[p] = call[p]
        /\ OthersWait(p) /\ UNCHANGED <<store, request, clashed>>
    BY <1>0, <1>5, ProjectDoes DEF Turns
  <2>2. ASSUME r \notin clashed' PROVE KeptOf(r)'
    <3>1. r \in Requests \ clashed
      BY <2>1, <2>2
    <3>2. /\ Posts(r, "usage")' = Posts(r, "usage") /\ request'[r] = request[r]
          /\ Posts(r, "usage_reversal")' = Posts(r, "usage_reversal")
      BY <2>1 DEF Posts, store
    <3>3. Charged(r)' <=> Charged(r)
      BY <3>2 DEF Charged
    <3>4. /\ \A q \in Callers : Works(q, r) => ~Owes(handler[q], call[q]) /\ handler[q].pc \notin Withdrawing
          /\ handler'[p].pc \notin Withdrawing /\ Finalizing(handler'[p]) /\ Works(p, r)'
      BY <1>3, <1>5, <2>1, <3>1, RolesAre DEF Owes, Finalizing, Withdrawing, Works
    <3>5. Charged(r) /\ Posts(r, "usage_reversal") = {}
      BY <1>3, <1>5, <3>1, <3>4 DEF Spent
    <3>6. BooksOf(r)'
      BY <1>3, <1>5, <2>1, <3>1, <3>2, <3>3, <3>4, <3>5 DEF BooksOf, Spent
    <3>7. WorkOf(p, r)'
      BY <1>3, <1>4, <1>5, <2>1, <3>1, <3>2, <3>4 DEF WorkOf, Roleless
    <3>8. \A q \in Callers \ {p} : Works(q, r)' => WorkOf(q, r)'
      BY <1>4, <1>5, <2>1, <3>1 DEF WorkOf, Roleless
    <3>9. QED
      BY <3>6, <3>7, <3>8 DEF KeptOf
  <2>3. QED
    BY <1>0, <2>1, <2>2, OthersKept DEF store, Writes
<1>6. CASE SaveIds(p)
  <2>1. /\ handler[p].pc = "saveIds" /\ r \in Requests /\ Writes(r)
        /\ request'[r].status = request[r].status /\ request'[r].paid = request[r].paid
        /\ request'[r].eventIds = TRUE
        /\ Ends(p) /\ OthersWait(p) /\ UNCHANGED <<store, event, clashed>>
    BY <1>0, <1>6, SaveIdsDoes
  <2>2. ASSUME r \notin clashed' PROVE KeptOf(r)'
    <3>1. r \in Requests \ clashed
      BY <2>1, <2>2
    <3>2. /\ Posts(r, "usage")' = Posts(r, "usage")
          /\ Posts(r, "usage_reversal")' = Posts(r, "usage_reversal")
      BY <2>1 DEF Posts, store
    <3>3. Charged(r)' <=> Charged(r)
      BY <2>1, <3>2 DEF Charged
    <3>4. \A q \in Callers : Works(q, r) => ~Owes(handler[q], call[q]) /\ handler[q].pc \notin Withdrawing
      BY <1>3, <1>6, <2>1, <3>1, RolesAre DEF Owes, Withdrawing
    <3>5. Charged(r) /\ Posts(r, "usage_reversal") = {} /\ event'[r] = "live"
      BY <1>3, <1>6, <2>1, <3>1, <3>4 DEF Spent, WorkOf
    <3>6. BooksOf(r)'
      BY <1>3, <1>6, <2>1, <3>1, <3>2, <3>3, <3>5 DEF BooksOf, Spent
    <3>7. ~Works(p, r)'
      BY <2>1, RestOK, RequestAssumption DEF Ends, Works
    <3>8. \A q \in Callers : Works(q, r)' => WorkOf(q, r)'
      BY <1>4, <1>6, <2>1, <3>1, <3>7 DEF WorkOf, Roleless
    <3>9. QED
      BY <3>6, <3>8 DEF KeptOf
  <2>3. QED
    BY <1>0, <2>1, <2>2, OthersKept DEF store
<1>7. QED
  BY <1>1, <1>2, <1>5, <1>6

LEMMA WithdrawingKept ==
  ASSUME IInv, Numbers, Fits, Kept, NEW p \in Callers, Reversed(p) \/ Void(p) \/ WithdrawSave(p)
  PROVE  Kept'
<1>0. PICK r : r = handler[p].req
  OBVIOUS
<1>1. CASE Reversed(p)
  <2>1. /\ handler[p].pc = "reversing" /\ call[p].pc = "done"
        /\ OthersWait(p) /\ UNCHANGED <<store, request, event, clashed>>
        /\ handler'[p].pc = "void" /\ handler'[p].req = handler[p].req
        /\ handler'[p].doc = handler[p].doc
    BY <1>1, ReversedDoes DEF Rests, Turns
  <2>2. Likewise(handler[p], call[p], handler'[p], call'[p])
    BY <2>1 DEF Likewise, Owes, Finalizing, Marking, Withdrawing, Undone, Asking
  <2>3. QED
    BY <2>1, <2>2, QuietKept DEF store
<1>2. ASSUME Void(p) \/ WithdrawSave(p), r \in Requests \ clashed
      PROVE  /\ WorkOf(p, r) /\ request[r].status = "approved" /\ Spent(r) /\ GivenBack(r)
             /\ handler[p].doc.eventIds
             /\ \A q \in Callers : Works(q, r) => q = p
             /\ Charged(r)
  <2>1. handler[p].pc \in {"void", "withdrawSave"}
    BY <1>2 DEF Void, WithdrawSave, On
  <2>2. KeptOf(r) /\ Works(p, r) /\ WorkOf(p, r) /\ request[r].status = "approved"
    BY <1>0, <1>2, <2>1 DEF Kept, KeptOf, Works, IInv, ReadsHold, Withdrawing
  <2>3. Spent(r) /\ GivenBack(r) /\ handler[p].doc.eventIds
    BY <2>1, <2>2 DEF WorkOf, KeptOf, BooksOf, Withdrawing, Undone
  <2>4. \A q \in Callers : Works(q, r) => q = p
    BY <1>2, <2>1, <2>2, WithdrawsAlone DEF Withdrawing
  <2>5. ~Owes(handler[p], call[p])
    BY <2>1 DEF Owes
  <2>6. Charged(r)
    BY <2>3, <2>4, <2>5 DEF Spent
  <2>7. QED
    BY <2>2, <2>3, <2>4, <2>6
<1>3. CASE Void(p)
  <2>1. /\ handler[p].pc = "void" /\ r \in Requests
        /\ handler[p].doc.eventIds => event'[r] = "void"
        /\ \A o \in Requests \ {r} : event'[o] = event[o]
        /\ handler'[p].pc = "withdrawSave" /\ handler'[p].req = r
        /\ handler'[p].doc = handler[p].doc
        /\ OthersWait(p) /\ UNCHANGED <<store, request, clashed>>
    BY <1>0, <1>3, VoidDoes DEF Turns
  <2>2. ASSUME r \notin clashed' PROVE KeptOf(r)'
    <3>1. r \in Requests \ clashed
      BY <2>1, <2>2
    <3>2. /\ Posts(r, "usage")' = Posts(r, "usage") /\ request'[r] = request[r]
          /\ Posts(r, "usage_reversal")' = Posts(r, "usage_reversal")
      BY <2>1 DEF Posts, store
    <3>3. Charged(r)' /\ GivenBack(r)'
      BY <1>2, <1>3, <3>1, <3>2 DEF Charged, GivenBack
    <3>4. /\ Works(p, r)' /\ Marking(handler[p])' /\ handler'[p].pc \in Withdrawing
          /\ ~Finalizing(handler[p])' /\ ~Undone(handler[p], call[p])' /\ handler'[p].doc.eventIds
          /\ event'[r] = "void"
      BY <1>2, <1>3, <2>1, <3>1 DEF Works, Marking, Withdrawing, Finalizing, Undone
    <3>5. (\E q \in Callers : Works(q, r) /\ Finalizing(handler[q])) \/ request[r].eventIds
      BY <1>2, <1>3, <3>1 DEF Spent
    <3>6. ~Finalizing(handler[p])
      BY <2>1 DEF Finalizing
    <3>7. request'[r].eventIds
      BY <1>2, <1>3, <3>1, <3>2, <3>5, <3>6
    <3>8. BooksOf(r)'
      BY <1>2, <1>3, <3>1, <3>2, <3>3, <3>4, <3>7 DEF BooksOf, Spent
    <3>9. \A q \in Callers : Works(q, r)' => q = p
      BY <1>2, <1>3, <2>1, <3>1 DEF OthersWait, Works
    <3>10. WorkOf(p, r)'
      BY <2>1, <3>3, <3>4 DEF WorkOf
    <3>11. QED
      BY <3>8, <3>9, <3>10 DEF KeptOf
  <2>3. QED
    BY <1>0, <2>1, <2>2, OthersKept DEF store, Writes
<1>4. CASE WithdrawSave(p)
  <2>1. /\ handler[p].pc = "withdrawSave" /\ r \in Requests /\ Sets(r, "withdrawn")
        /\ Ends(p) /\ OthersWait(p) /\ UNCHANGED <<store, event, clashed>>
    BY <1>0, <1>4, WithdrawSaveDoes
  <2>2. ASSUME r \notin clashed' PROVE KeptOf(r)'
    <3>1. r \in Requests \ clashed
      BY <2>1, <2>2
    <3>2. /\ Posts(r, "usage")' = Posts(r, "usage")
          /\ Posts(r, "usage_reversal")' = Posts(r, "usage_reversal")
          /\ request'[r].paid = request[r].paid /\ request'[r].status = "withdrawn"
      BY <2>1 DEF Posts, store, Sets
    <3>3. Charged(r)' /\ GivenBack(r)'
      BY <1>2, <1>4, <3>1, <3>2 DEF Charged, GivenBack
    <3>4. event'[r] = "void"
      BY <1>2, <1>4, <2>1, <3>1 DEF WorkOf, Withdrawing
    <3>5. BooksOf(r)'
      BY <3>2, <3>3, <3>4 DEF BooksOf, Restored
    <3>6. ~Works(p, r)'
      BY <2>1, RestOK, RequestAssumption DEF Ends, Works
    <3>7. \A q \in Callers : ~Works(q, r)'
      BY <1>2, <1>4, <2>1, <3>1, <3>6 DEF OthersWait, Works
    <3>8. QED
      BY <3>5, <3>7 DEF KeptOf
  <2>3. QED
    BY <1>0, <2>1, <2>2, OthersKept DEF store, Sets
<1>5. QED
  BY <1>1, <1>3, <1>4

LEMMA BeginsKept ==
  ASSUME IInv, Numbers, Kept, NEW p \in Callers,
         \/ Credit(p)
         \/ \E r \in Requests : Apply(p, r) \/ Approve(p, r) \/ Reject(p, r) \/ Cancel(p, r)
  PROVE  Kept'
<1>1. ASSUME NEW flow, NEW r, NEW doc, NEW c, OthersWait(p),
             NEW pc \in {"readBalance", "decide", "refuse", "cancelSave", "crediting"},
             Starts(p, flow, pc, r, doc, c)
      PROVE  Kept'
  <2>1. handler[p] = Rest /\ handler'[p].pc = pc /\ UNCHANGED <<store, request, event>>
        /\ clashed \subseteq clashed'
    BY <1>1 DEF Starts
  <2>2. Roleless(handler[p]) /\ Roleless(handler'[p])
    BY <2>1, RolesAre DEF Roleless, Finalizing, Withdrawing
  <2>3. QED
    BY <1>1, <2>1, <2>2, QuietKept DEF store
<1>2. CASE Credit(p)
  BY <1>1, <1>2, CreditDoes
<1>3. ASSUME NEW r \in Requests, Apply(p, r) \/ Approve(p, r) \/ Reject(p, r) \/ Cancel(p, r)
      PROVE  Kept'
  <2>1. /\ OthersWait(p)
        /\ \/ Starts(p, "apply", "readBalance", r, NoRequest, call[p])
           \/ Starts(p, "approve", "decide", r, request[r], call[p])
           \/ Starts(p, "reject", "refuse", r, request[r], call[p])
           \/ Starts(p, "cancel", "cancelSave", r, request[r], call[p])
    BY <1>3, CallDoes
  <2>2. QED
    BY <1>1, <2>1
<1>4. QED
  BY <1>2, <1>3

(* Nobody else is at work on a request whose withdrawal begins, unless     *)
(* they clash.                                                             *)
LEMMA WithdrawKept ==
  ASSUME IInv, Numbers, Kept, NEW p \in Callers, NEW r \in Requests, Withdraw(p, r)
  PROVE  Kept'
<1>1. /\ OthersWait(p) /\ request[r].status = "approved"
      /\ \/ /\ request[r].paid > 0
            /\ Starts(p, "withdraw", "reversing", r, request[r], Appending(Reversal(r)))
         \/ request[r].paid = 0 /\ Starts(p, "withdraw", "void", r, request[r], call[p])
  BY WithdrawDoes
<1>2. /\ handler[p] = Rest /\ handler'[p].req = r /\ handler'[p].doc = request[r]
      /\ UNCHANGED <<store, request, event>> /\ clashed \subseteq clashed'
      /\ r \in Requests \ clashed' =>
           \A q \in Callers : handler[q].req = r => Compatible("withdraw", handler[q].flow)
      /\ \/ request[r].paid > 0 /\ handler'[p].pc = "reversing" /\ call'[p] = Appending(Reversal(r))
         \/ request[r].paid = 0 /\ handler'[p].pc = "void"
  BY <1>1 DEF Starts
<1>3. ASSUME NEW o \in Requests \ clashed' PROVE Same(o)
  BY <1>2 DEF Same, Posts, store
<1>4. ASSUME NEW o \in Requests \ clashed', o # r PROVE KeptOf(o)'
  <2>1. handler[p].req # o /\ handler'[p].req # o
    BY <1>2, <1>4, RestOK, RequestAssumption
  <2>2. QED
    BY <1>1, <1>2, <1>3, <1>4, <2>1, Undisturbed
<1>5. ASSUME r \notin clashed' PROVE KeptOf(r)'
  <2>1. \A q \in Callers : ~Works(q, r)
    BY <1>2, <1>5 DEF Compatible, Works
  <2>2. KeptOf(r) /\ Same(r)
    BY <1>2, <1>3, <1>5 DEF Kept
  <2>3. /\ Charged(r) /\ Posts(r, "usage_reversal") = {} /\ event[r] = "live" /\ request[r].eventIds
    BY <1>1, <2>1, <2>2 DEF KeptOf, BooksOf, Spent
  <2>4. Charged(r)'
    BY <2>2, <2>3 DEF Charged, Same
  <2>5. BooksOf(r)'
    BY <1>1, <2>2, <2>3, <2>4 DEF BooksOf, Spent, Same
  <2>6. \A q \in Callers : Works(q, r)' => q = p
    BY <1>1, <2>1 DEF Works, OthersWait
  <2>7. /\ ~Finalizing(handler[p])' /\ handler'[p].pc \in Withdrawing /\ handler'[p].pc # "withdrawSave"
        /\ handler'[p].doc.eventIds
    BY <1>2, <2>3 DEF Finalizing, Withdrawing
  <2>8. IF Undone(handler[p], call[p])' THEN Posts(r, "usage_reversal")' = {} ELSE GivenBack(r)'
    <3>1. Posts(r, "usage_reversal")' = {} /\ request'[r] = request[r]
      BY <2>2, <2>3 DEF Same
    <3>2. CASE request[r].paid > 0
      BY <1>2, <3>1, <3>2, CallsFit DEF Undone, Asking
    <3>3. CASE request[r].paid = 0
      BY <3>1, <3>3 DEF GivenBack
    <3>4. QED
      BY <1>2, <3>2, <3>3
  <2>9. event'[r] = "live"
    BY <2>2, <2>3 DEF Same
  <2>10. WorkOf(p, r)'
    BY <2>7, <2>8, <2>9 DEF WorkOf
  <2>11. QED
    BY <2>5, <2>6, <2>10 DEF KeptOf
<1>6. QED
  BY <1>4, <1>5 DEF Kept

LEMMA EndsKept ==
  ASSUME IInv, Numbers, Kept, NEW p \in Callers,
         Conflict(p) \/ Released(p) \/ Credited(p) \/ Abort(p) \/ Die(p)
  PROVE  Kept'
<1>1. /\ Ends(p) /\ OthersWait(p) /\ UNCHANGED <<ledger, request, event>> /\ clashed \subseteq clashed'
      /\ \/ handler[p].pc \in {"decide", "refuse", "releasing", "crediting"}
         \/ handler[p].req \notin Requests \ clashed'
  BY EndDoes
<1>2. CASE handler[p].pc \in {"decide", "refuse", "releasing", "crediting"}
  <2>1. Roleless(handler[p]) /\ Roleless(handler'[p])
    BY <1>1, <1>2, RolesAre DEF Roleless, Finalizing, Withdrawing, Ends
  <2>2. QED
    BY <1>1, <2>1, QuietKept
<1>3. CASE handler[p].req \notin Requests \ clashed'
  <2>1. handler'[p].req \notin Requests \ clashed'
    BY <1>1, RestOK, RequestAssumption DEF Ends
  <2>2. QED
    BY <1>1, <1>3, <2>1, QuietKept
<1>4. QED
  BY <1>1, <1>2, <1>3

(* The entry of a request is posted: its books change, no others do.       *)
LEMMA PostingKept ==
  ASSUME IInv, Numbers, Fits, Kept, NEW p \in Callers, NEW r, r = handler[p].req, Posting(p),
         UNCHANGED handler, UNCHANGED <<request, event, clashed>>, OthersWait(p)
  PROVE  Kept'
<1>1. PICK d : d.entry = call[p].entry /\ ledger' = ledger \cup {d}
  BY DEF Posting
<1>2. call[p].pc = "create" /\ call'[p].pc = "fold" /\ ControlOK(handler[p], call[p])
  BY ControlAt DEF Posting
<1>3. \A o, t : Posts(o, t)' = IF d.entry.ref = o /\ d.entry.type = t THEN Posts(o, t) \cup {d}
                               ELSE Posts(o, t)
  BY <1>1 DEF Posts
<1>4. \/ /\ handler[p].pc = "posting" /\ d.entry.type = "usage" /\ d.entry.ref = r
         /\ r \in Requests /\ d.entry.quantity = - request[r].paid /\ request[r].paid > 0
      \/ /\ handler[p].pc = "reversing" /\ d.entry.type = "usage_reversal" /\ d.entry.ref = r
         /\ r \in Requests /\ d.entry.quantity = request[r].paid /\ request[r].paid > 0
      \/ handler[p].pc = "crediting" /\ d.entry.ref = None
  BY <1>1, <1>2 DEF Fits, CallFits, ControlOK, Asking
<1>5. ASSUME NEW o \in Requests \ clashed', o # d.entry.ref PROVE Same(o)
  BY <1>3, <1>5 DEF Same
<1>6. ASSUME NEW o \in Requests \ clashed', o # r, d.entry.ref \in {r, None} PROVE KeptOf(o)'
  BY <1>5, <1>6, RequestAssumption, Undisturbed
<1>7. CASE handler[p].pc = "crediting" /\ d.entry.ref = None
  <2>1. r \notin Requests
    BY <1>2, <1>7, RequestAssumption DEF ControlOK
  <2>2. QED
    BY <1>6, <1>7, <2>1 DEF Kept
<1>8. CASE /\ handler[p].pc = "posting" /\ d.entry.type = "usage" /\ d.entry.ref = r
           /\ r \in Requests /\ d.entry.quantity = - request[r].paid /\ request[r].paid > 0
  <2>1. ASSUME r \notin clashed' PROVE KeptOf(r)'
    <3>1. KeptOf(r) /\ Works(p, r) /\ Finalizing(handler[p])
      BY <1>8, <2>1 DEF Kept, Works, Finalizing
    <3>2. request[r].status = "approved" /\ Spent(r)
      BY <3>1 DEF KeptOf, BooksOf, WorkOf
    <3>3. Posts(r, "usage") = {}
      BY <1>2, <1>8, <3>1 DEF IInv, ChargedAfterVerdict, Charges, Charging, Works, Asking
    <3>4. Posts(r, "usage")' = {d} /\ Posts(r, "usage_reversal")' = Posts(r, "usage_reversal")
      BY <1>3, <1>8, <3>3
    <3>5. Charged(r)'
      BY <1>8, <3>4 DEF Charged
    <3>6. BooksOf(r)'
      BY <3>2, <3>4, <3>5 DEF BooksOf, Spent, Works
    <3>7. GivenBack(r)' <=> GivenBack(r)
      BY <3>4 DEF GivenBack
    <3>8. ASSUME NEW q \in Callers, Works(q, r)' PROVE WorkOf(q, r)'
      <4>1. Works(q, r) /\ WorkOf(q, r)
        BY <3>1, <3>8 DEF KeptOf, Works
      <4>2. q # p => call'[q] = call[q]
        BY DEF OthersWait
      <4>3. handler[q].pc \in Withdrawing => q # p
        BY <1>8 DEF Withdrawing
      <4>4. QED
        BY <3>4, <3>7, <4>1, <4>2, <4>3 DEF WorkOf, Works, Undone
    <3>9. QED
      BY <3>6, <3>8 DEF KeptOf
  <2>2. QED
    BY <1>6, <1>8, <2>1 DEF Kept
<1>9. CASE /\ handler[p].pc = "reversing" /\ d.entry.type = "usage_reversal" /\ d.entry.ref = r
           /\ r \in Requests /\ d.entry.quantity = request[r].paid /\ request[r].paid > 0
  <2>1. ASSUME r \notin clashed' PROVE KeptOf(r)'
    <3>1. /\ KeptOf(r) /\ Works(p, r) /\ handler[p].pc \in Withdrawing
          /\ request[r].status = "approved"
      BY <1>9, <2>1 DEF Kept, Works, Withdrawing, IInv, ReadsHold
    <3>2. \A q \in Callers : Works(q, r) => q = p
      BY <1>9, <2>1, <3>1, WithdrawsAlone
    <3>3. /\ WorkOf(p, r) /\ Undone(handler[p], call[p]) /\ ~Undone(handler[p], call[p])'
          /\ ~Owes(handler[p], call[p]) /\ ~Finalizing(handler[p]) /\ Spent(r)
      BY <1>2, <1>9, <3>1 DEF KeptOf, BooksOf, Undone, Owes, Finalizing, Asking
    <3>4. /\ Posts(r, "usage_reversal") = {} /\ event[r] = "live" /\ Charged(r)
          /\ request[r].eventIds /\ handler[p].doc.eventIds
      BY <1>9, <3>1, <3>2, <3>3 DEF WorkOf, Spent
    <3>5. Posts(r, "usage_reversal")' = {d} /\ Posts(r, "usage")' = Posts(r, "usage")
      BY <1>3, <1>9, <3>4
    <3>6. Charged(r)' /\ GivenBack(r)'
      BY <1>9, <3>4, <3>5 DEF Charged, GivenBack
    <3>7. Works(p, r)' /\ handler'[p] = handler[p] /\ \A q \in Callers : Works(q, r)' => q = p
      BY <3>1, <3>2 DEF Works
    <3>8. BooksOf(r)'
      BY <3>1, <3>4, <3>6, <3>7 DEF BooksOf, Spent
    <3>9. WorkOf(p, r)'
      BY <1>9, <3>3, <3>4, <3>6, <3>7 DEF WorkOf
    <3>10. QED
      BY <3>7, <3>8, <3>9 DEF KeptOf
  <2>2. QED
    BY <1>6, <1>9, <2>1 DEF Kept
<1>10. QED
  BY <1>4, <1>7, <1>8, <1>9

LEMMA ServeKept ==
  ASSUME IInv, Numbers, Fits, Kept, NEW p \in Callers, Serve(p) PROVE Kept'
<1>1. /\ UNCHANGED handler /\ UNCHANGED <<request, event, clashed>> /\ OthersWait(p)
      /\ Waiting(p) \/ Posting(p) \/ Adding(p) \/ Rebuilding(p)
  BY ServeDoes
<1>2. CASE Posting(p)
  BY <1>1, <1>2, PostingKept
<1>3. CASE Waiting(p) \/ Adding(p) \/ Rebuilding(p)
  <2>1. /\ UNCHANGED ledger
        /\ call[p].pc \in Asking \cup {"failed"} <=> call'[p].pc \in Asking \cup {"failed"}
    BY <1>3 DEF Waiting, Adding, Rebuilding, Asking
  <2>2. Likewise(handler[p], call[p], handler'[p], call'[p])
    BY <1>1, <2>1 DEF Likewise, Owes, Undone
  <2>3. QED
    BY <1>1, <2>1, <2>2, QuietKept
<1>4. QED
  BY <1>1, <1>2, <1>3

LEMMA StepKept ==
  ASSUME IInv, Numbers, Fits, Kept, [RequestNext]_rvars PROVE Kept'
<1>1. ASSUME UNCHANGED <<ledger, call, request, event, handler>> PROVE Kept'
  <2>1. clashed \subseteq clashed'
    BY ClashesStay
  <2>2. \A r \in Requests : KeptOf(r)' <=> KeptOf(r)
    BY <1>1 DEF KeptOf, BooksOf, Untouched, Spent, Restored, WorkOf, Works, Charged, GivenBack, Posts,
                Finalizing, Marking, Owes, Undone
  <2>3. QED
    BY <2>1, <2>2 DEF Kept
<1>2. CASE UNCHANGED rvars
  BY <1>1, <1>2 DEF rvars
<1>3. ASSUME NEW p \in Callers, HandlerStep(p) \/ Serve(p) \/ Abort(p) \/ Die(p) PROVE Kept'
  BY <1>3, EnterKept, VerdictKept, FinalizingKept, WithdrawingKept, EndsKept, ServeKept
     DEF HandlerStep
<1>4. CASE LockPayroll
  BY <1>1, <1>4 DEF LockPayroll, store
<1>5. QED
  BY <1>2, <1>3, <1>4, BeginsKept, WithdrawKept DEF RequestNext

LEMMA InitBooks == RequestInit => Books
<1> SUFFICES ASSUME RequestInit PROVE Books
  OBVIOUS
<1>1. /\ ledger = {} /\ call = [p \in Callers |-> Idle] /\ handler = [p \in Callers |-> Rest]
      /\ request = [r \in Requests |-> NoRequest] /\ event = [r \in Requests |-> "none"]
      /\ balance.pending = 0
  BY DEF RequestInit, Init
<1>2. Fits
  BY <1>1, CallsFit DEF Fits
<1>3. Reservation
  <2>1. \A p \in Callers : Due[p] = 0
    BY <1>1, RestOK, PendingIs DEF Due
  <2>2. \A r \in Requests : Held[r] = 0
    BY <1>1 DEF Held, NoRequest
  <2>3. Sum(Due, Callers) = 0 /\ Sum(Held, Requests) = 0
    BY <2>1, <2>2, CallersAssumption, RequestAssumption, SumZero
  <2>4. QED
    BY <1>1, <2>3 DEF Reservation
<1>4. Kept
  <2>1. \A r \in Requests : BooksOf(r)
    BY <1>1 DEF BooksOf, Untouched, Posts, NoRequest
  <2>2. \A p \in Callers, r \in Requests : ~Works(p, r)
    BY <1>1, RestOK, RequestAssumption DEF Works
  <2>3. QED
    BY <2>1, <2>2 DEF Kept, KeptOf
<1>5. QED
  BY <1>2, <1>3, <1>4 DEF Books

(* What was used of a request, net, when it is charged, and given back.    *)
LEMMA NetOfCharged ==
  ASSUME Numbers, NEW r \in Requests, Charged(r), Posts(r, "usage_reversal") = {}
  PROVE  NetUsed(r) = request[r].paid
<1> DEFINE f == [d \in Used(r) |-> - d.entry.quantity]
<1>1. NetUsed(r) = Sum(f, Used(r)) /\ Used(r) = Posts(r, "usage") /\ request[r].paid \in Nat
  BY PostsNumbers DEF NetUsed, Used
<1>2. CASE request[r].paid = 0
  <2>1. Used(r) = {}
    BY <1>1, <1>2 DEF Charged
  <2>2. QED
    BY <1>1, <1>2, <2>1, SumEmpty
<1>3. CASE request[r].paid # 0
  <2>1. PICK d \in Posts(r, "usage") : Used(r) = {d} /\ d.entry.quantity = - request[r].paid
    BY <1>1, <1>3 DEF Charged
  <2>2. f[d] = request[r].paid
    BY <1>1, <2>1
  <2>3. IsFiniteSet(Used(r)) /\ Used(r) \ {d} = {}
    BY <2>1, FS_Singleton
  <2>4. Sum(f, Used(r)) = f[d] + Sum(f, {})
    <3>1. \A x \in Used(r) : f[x] \in Int
      BY <1>1, <2>1, <2>2
    <3> HIDE DEF f
    <3>2. QED
      BY <2>1, <2>3, <3>1, SumTake
  <2> HIDE DEF f
  <2>5. QED
    BY <1>1, <2>2, <2>4, SumEmpty
<1>4. QED
  BY <1>2, <1>3

LEMMA NetOfRestored ==
  ASSUME Numbers, NEW r \in Requests, Charged(r), GivenBack(r)
  PROVE  NetUsed(r) = 0
<1> DEFINE f == [d \in Used(r) |-> - d.entry.quantity]
<1>1. NetUsed(r) = Sum(f, Used(r)) /\ request[r].paid \in Nat
  BY PostsNumbers DEF NetUsed
<1>2. CASE request[r].paid = 0
  <2>1. Used(r) = {}
    BY <1>2 DEF Charged, GivenBack, Used
  <2>2. QED
    BY <1>1, <2>1, SumEmpty
<1>3. CASE request[r].paid # 0
  <2>1. PICK c \in Posts(r, "usage") : Posts(r, "usage") = {c} /\ c.entry.quantity = - request[r].paid
    BY <1>3 DEF Charged
  <2>2. PICK d \in Posts(r, "usage_reversal") :
          Posts(r, "usage_reversal") = {d} /\ d.entry.quantity = request[r].paid
    BY <1>3 DEF GivenBack
  <2>3. Used(r) = {c, d} /\ c # d
    BY <2>1, <2>2 DEF Used, Posts
  <2>4. f[c] = request[r].paid /\ f[d] = - request[r].paid /\ \A x \in Used(r) : f[x] \in Int
    BY <1>1, <2>1, <2>2, <2>3
  <2>5. IsFiniteSet({c, d}) /\ IsFiniteSet({d}) /\ {c, d} \ {c} = {d} /\ {d} \ {d} = {}
    <3>1. IsFiniteSet({d}) /\ IsFiniteSet({d} \cup {c})
      BY FS_Singleton, FS_AddElement
    <3>2. {d} \cup {c} = {c, d}
      OBVIOUS
    <3>3. {c, d} \ {c} = {d} /\ {d} \ {d} = {}
      BY <2>3
    <3>4. QED
      BY <3>1, <3>2, <3>3
  <2> HIDE DEF f
  <2>6. Sum(f, {c, d}) = f[c] + Sum(f, {d})
    BY <2>3, <2>4, <2>5, SumTake
  <2>7. Sum(f, {d}) = f[d] + Sum(f, {})
    BY <2>3, <2>4, <2>5, SumTake
  <2>8. QED
    BY <1>1, <2>3, <2>4, <2>6, <2>7, SumEmpty
<1>4. QED
  BY <1>2, <1>3

LEMMA BooksAgreeIn == IInv /\ Numbers /\ Books => BooksAgree
<1> SUFFICES ASSUME IInv, Numbers, Books PROVE BooksAgree
  OBVIOUS
<1>1. ASSUME AllRest, NEW r \in Requests \ clashed
      PROVE  /\ NetUsed(r) = IF request[r].status = "approved" THEN request[r].paid ELSE 0
             /\ event[r] = "live" <=> request[r].status = "approved"
  <2>1. \A p \in Callers : ~Works(p, r)
    BY <1>1, RestOK, RequestAssumption DEF AllRest, Busy, Works
  <2>2. BooksOf(r)
    BY <1>1 DEF Books, Kept, KeptOf
  <2>3. CASE request[r].status \notin {"approved", "withdrawn"}
    <3>1. Used(r) = {} /\ event[r] = "none"
      BY <2>2, <2>3 DEF BooksOf, Untouched, Used
    <3>2. QED
      BY <2>3, <3>1, SumEmpty DEF NetUsed
  <2>4. CASE request[r].status = "approved"
    BY <1>1, <2>1, <2>2, <2>4, NetOfCharged DEF BooksOf, Spent
  <2>5. CASE request[r].status = "withdrawn"
    BY <1>1, <2>2, <2>5, NetOfRestored DEF BooksOf, Restored
  <2>6. QED
    BY <2>3, <2>4, <2>5
<1>2. ASSUME AllRest, clashed = {}
      PROVE  balance.pending = Sum([r \in Requests |-> IF request[r].status = "pending"
                                                       THEN request[r].paid ELSE 0], Requests)
  <2>1. \A p \in Callers : Due[p] = 0
    BY <1>2, DueAt, RestOK DEF AllRest, Busy
  <2>2. Sum(Due, Callers) = 0
    BY <2>1, CallersAssumption, SumZero
  <2>3. balance.pending \in Int /\ balance.pending + Sum(Due, Callers) = Sum(Held, Requests)
    BY <1>2 DEF Books, Reservation, Numbers, BalanceNumbers
  <2>4. balance.pending = Sum(Held, Requests)
    BY <2>2, <2>3
  <2>5. QED
    BY <2>4 DEF Held
<1>3. QED
  BY <1>1, <1>2 DEF BooksAgree, Settled, PendingIsReserved

LEMMA BooksStep ==
  IInv /\ IInv' /\ Numbers /\ Books /\ [RequestNext]_rvars => Numbers' /\ Books'
<1> SUFFICES ASSUME IInv, IInv', Numbers, Books, [RequestNext]_rvars PROVE Numbers' /\ Books'
  OBVIOUS
<1>1. Numbers'
  BY StepNumbers
<1>2. Fits' /\ Reservation' /\ Kept'
  BY <1>1, StepFits, StepReservation, StepKept DEF Books
<1>3. QED
  BY <1>1, <1>2 DEF Books

(* When nothing is under way the books agree with the statuses: the days   *)
(* of a request are used, marked in the attendance and reserved as its     *)
(* status says, unless a handler of it died or met another.                *)
THEOREM BooksAlwaysAgree == RequestSpec => []BooksAgree
<1>1. RequestInit => Numbers /\ Books
  BY InitNumbers, InitBooks
<1>2. QED
  BY <1>1, BooksStep, IInvAlways, BooksAgreeIn, PTL DEF RequestSpec

-----------------------------------------------------------------------------
(* The account, when handlers come one after the other.                    *)

Rebuilds == {"fold", "readPending", "write"}

(* Points at which a handler waits for a call of the ledger.               *)
Attending == {"reserving", "posting", "settling", "releasing", "reversing", "crediting"}

(* What the ledger and the reservation leave.                              *)
Spare == Available(Totals(ledger), balance.pending)

(* Days that are charged and still reserved.                               *)
Lending(h, c) == \/ h.pc = "posting" /\ c.pc \in Rebuilds \cup {"done"}
                 \/ h.pc = "settling" /\ c.pc = "inc"
Lent(h, c, n) == IF Lending(h, c) THEN n ELSE 0

(* What the handler under way leaves of the balance: when no rebuild is    *)
(* under way it is the fold, and days to be reserved are there.            *)
Sound(h, c, n) ==
  /\ c.pc \in {"readPending", "write"} => c.totals = Totals(ledger)
  /\ c.pc = "write" => c.reserved = balance.pending
  /\ c.pc \notin Rebuilds => Current
  /\ Spare + Lent(h, c, n) >= 0
  /\ h.pc = "insert" => h.doc.paid = 0 \/ h.doc.paid <= Spare
  /\ h.pc = "reserving" /\ c.pc = "inc" => n <= Spare

SoundAt(p) == Sound(handler[p], call[p], request[handler[p].req].paid)

OnlyOne == \A p, q \in Callers : Busy(p) /\ Busy(q) => p = q

Quiet == \A p \in Callers : handler[p].pc \notin Attending => call[p].pc \in {"idle", "done"}

Crediting(p) == handler[p].pc = "crediting" /\ call[p].pc \in Asking

(* The year is credited once, and not before whoever is about to.          *)
CreditsFit ==
  /\ \A c, d \in ledger : c.entry.type = "accrual" /\ d.entry.type = "accrual" => c = d
  /\ \A p \in Callers : Crediting(p) => Uncredited /\ call[p].entry = Accrual

Serial ==
  /\ OnlyOne /\ Quiet /\ CreditsFit
  /\ crashes \in Nat
  /\ crashes = 0 => /\ \A p \in Callers : Busy(p) => SoundAt(p)
                    /\ AllRest => Current /\ Spare >= 0

LEMMA SpareInt == ASSUME Numbers PROVE Spare \in Int
BY TotalsInt, AvailableInt DEF Spare, Numbers, BalanceNumbers

(* An entry adds its days to what is available.                            *)
LEMMA AvailableGrows ==
  ASSUME NEW docs, Counted(docs), NEW d, d \notin docs, d.entry.quantity \in Int,
         d.entry.type \in {"accrual", "usage", "usage_reversal"}, NEW n \in Int
  PROVE  Available(Totals(docs \cup {d}), n) = Available(Totals(docs), n) + d.entry.quantity
<1> DEFINE t == Totals(docs)
           u == Totals(docs \cup {d})
           k == d.entry.quantity
<1>1. \A f \in Fields : t[f] \in Int /\ u[f] = t[f] + Share(d, f)
  BY TotalsInt, TotalsGrow
<1>2. Fields = {"opening", "credited", "used", "lapsed", "encashed"}
  BY DEF Fields
<1>3. \/ /\ Field(d.entry.type) = "credited"
      \/ /\ Field(d.entry.type) = "used"
  BY DEF Field, Credits
<1> HIDE DEF t, u
<1>4. CASE Field(d.entry.type) = "credited"
  <2>1. /\ u["opening"] = t["opening"] /\ u["credited"] = t["credited"] + k
        /\ u["used"] = t["used"] /\ u["lapsed"] = t["lapsed"] /\ u["encashed"] = t["encashed"]
    BY <1>1, <1>2, <1>4 DEF Share
  <2>2. QED
    BY <1>1, <1>2, <2>1 DEF Available, t, u
<1>5. CASE Field(d.entry.type) = "used"
  <2>1. /\ u["opening"] = t["opening"] /\ u["credited"] = t["credited"]
        /\ u["used"] = t["used"] - k /\ u["lapsed"] = t["lapsed"] /\ u["encashed"] = t["encashed"]
    BY <1>1, <1>2, <1>5 DEF Share
  <2>2. QED
    BY <1>1, <1>2, <2>1 DEF Available, t, u
<1>6. QED
  BY <1>3, <1>4, <1>5

(* What a step makes of it.                                                *)
LEMMA SpareMoves ==
  ASSUME Numbers
  PROVE  /\ UNCHANGED <<ledger, balance>> => Spare' = Spare /\ Current' = Current
         /\ UNCHANGED ledger /\ balance'.pending = balance.pending => Spare' = Spare
         /\ \A k \in Int : UNCHANGED ledger /\ balance'.pending = balance.pending + k
                             => Spare' = Spare - k
<1> DEFINE t == Totals(ledger)
<1>1. t \in [Fields -> Int] /\ balance.pending \in Int
  BY TotalsInt DEF Numbers, BalanceNumbers
<1>2. \A f \in {"opening", "credited", "used", "lapsed", "encashed"} : t[f] \in Int
  BY <1>1 DEF Fields
<1>3. UNCHANGED ledger => t' = t
  OBVIOUS
<1>4. UNCHANGED ledger => Spare' = Available(t, balance'.pending)
  BY DEF Spare
<1> HIDE DEF t
<1>5. \A k \in Int : Available(t, balance.pending + k) = Available(t, balance.pending) - k
  BY <1>1, <1>2 DEF Available
<1>6. Spare = Available(t, balance.pending)
  BY DEF Spare, t
<1>7. UNCHANGED <<ledger, balance>> => Current' = Current
  BY DEF Current
<1>8. QED
  BY <1>4, <1>5, <1>6, <1>7

(* Of the days that are covered only those that the balance has.           *)
LEMMA DecomposeCovers ==
  ASSUME IInv, Numbers, NEW p \in Callers, Decompose(p)
  PROVE  handler'[p].doc.paid = 0 \/ handler'[p].doc.paid <= balance.available
<1> DEFINE n == Length(handler[p].req)
           covered == IF balance.available > 0 THEN balance.available ELSE 0
           paid == IF covered < n THEN covered ELSE n
           h == [handler[p] EXCEPT !.pc = "insert", !.doc.paid = paid]
<1>1. handler' = [handler EXCEPT ![p] = h]
  BY DEF Decompose, IInv, Shapes
<1>2. handler[p] \in Local
  BY DEF Numbers, RequestTypeOK
<1>3. h.doc.paid = paid
  BY <1>2 DEF Local, RequestDoc
<1>4. handler'[p] = h
  BY <1>1 DEF Numbers, RequestTypeOK
<1>5. n \in Nat
  <2>1. handler[p].req \in Requests
    BY HandlerReq DEF Decompose, On
  <2>2. QED
    BY <2>1, RequestAssumption, FS_CardinalityType DEF Length
<1>6. balance.available \in Int
  BY DEF Numbers, BalanceNumbers
<1>7. paid = 0 \/ paid <= balance.available
  BY <1>5, <1>6
<1>8. QED
  BY <1>3, <1>4, <1>7

(* A step of a rebuild.                                                    *)
Folding(p) ==
  /\ call[p].pc = "fold" /\ call'[p].pc = "readPending" /\ call'[p].totals = Totals(ledger)
  /\ UNCHANGED <<ledger, balance>>
Reading(p) ==
  /\ call[p].pc = "readPending" /\ call'[p].pc = "write" /\ call'[p].totals = call[p].totals
  /\ call'[p].reserved = balance.pending /\ UNCHANGED <<ledger, balance>>
Writing(p) ==
  /\ call[p].pc = "write" /\ call'[p].pc = "done"
  /\ UNCHANGED ledger /\ balance'.pending = balance.pending
  /\ balance'.totals = call[p].totals
  /\ balance'.available = Available(call[p].totals, call[p].reserved)

LEMMA RebuildDoes ==
  ASSUME IInv, Numbers, NEW p \in Callers, Serve(p), call[p].pc \in Rebuilds
  PROVE  Folding(p) \/ Reading(p) \/ Writing(p)
<1> DEFINE c == call[p]
<1>1. CallShape(c) /\ call = [q \in Callers |-> call[q]]
  BY ControlAt DEF IInv, Shapes
<1>2. Fold(p) \/ ReadPending(p) \/ Write(p)
  BY DEF Serve, LedgerStep, ReadSeq, Create, Collide, Inc, At, Rebuilds
<1>3. CASE Fold(p)
  <2> DEFINE b == [c EXCEPT !.pc = "readPending", !.totals = Totals(ledger), !.seen = LastSeq]
  <2>1. b.pc = "readPending" /\ b.totals = Totals(ledger)
    BY <1>1 DEF CallShape
  <2>2. call'[p] = b /\ c.pc = "fold" /\ UNCHANGED <<ledger, balance>>
    BY <1>1, <1>3 DEF Fold, At, Put
  <2> HIDE DEF b
  <2>3. QED
    BY <2>1, <2>2 DEF Folding
<1>4. CASE ReadPending(p)
  <2> DEFINE b == [c EXCEPT !.pc = "write", !.reserved = balance.pending]
  <2>1. b.pc = "write" /\ b.totals = c.totals /\ b.reserved = balance.pending
    BY <1>1 DEF CallShape
  <2>2. call'[p] = b /\ c.pc = "readPending" /\ UNCHANGED <<ledger, balance>>
    BY <1>1, <1>4 DEF ReadPending, At, Put
  <2> HIDE DEF b
  <2>3. QED
    BY <2>1, <2>2 DEF Reading
<1>5. CASE Write(p)
  <2>1. call'[p] = Finished(c) /\ c.pc = "write" /\ UNCHANGED ledger
    BY <1>1, <1>5 DEF Write, At, Put
  <2>2. /\ balance'.pending = balance.pending /\ balance'.totals = c.totals
        /\ balance'.available = Available(c.totals, c.reserved)
    BY <1>5 DEF Write, Numbers, BalanceNumbers
  <2>3. QED
    BY <2>1, <2>2, CallsOK DEF Writing
<1>6. QED
  BY <1>2, <1>3, <1>4, <1>5

-----------------------------------------------------------------------------
(* Steps between two calls of the ledger.                                  *)

Calm(h, c) == c.pc \notin Rebuilds /\ ~Lending(h, c)

(* The handler attends to a call, or has none under way.                   *)
Lands(p) ==
  /\ OthersWait(p) /\ UNCHANGED <<ledger, balance>>
  /\ handler'[p].pc \notin Attending => call'[p].pc \in {"idle", "done"}
  /\ handler'[p].pc = "crediting" => Uncredited /\ call'[p].entry = Accrual

(* It has neither charged nor reserved anything, and what it will reserve  *)
(* is what the balance covered.                                            *)
Calmly(p) ==
  /\ Lands(p) /\ Calm(handler[p], call[p]) /\ Calm(handler'[p], call'[p])
  /\ handler'[p].pc = "insert" =>
       /\ call[p].pc \notin Rebuilds
       /\ handler'[p].doc.paid = 0 \/ handler'[p].doc.paid <= balance.available
  /\ handler'[p].pc = "reserving" /\ call'[p].pc = "inc" =>
       /\ handler[p].pc = "insert" /\ handler[p].doc.paid > 0
       /\ request'[handler'[p].req].paid = handler[p].doc.paid

LEMMA CalmWhen ==
  ASSUME Quiet, NEW p \in Callers,
         \/ handler[p].pc \notin Attending
         \/ call[p].pc = "done" /\ handler[p].pc # "posting"
         \/ call[p].pc = "failed"
  PROVE  Calm(handler[p], call[p])
BY DEF Quiet, Attending, Calm, Lending, Rebuilds

LEMMA RestIsCalm == Calm(Rest, Idle) /\ Rest.pc = "idle" /\ Idle.pc = "idle"
BY DEF Rest, Idle, Calm, Lending, Rebuilds

LEMMA EndsCalmly ==
  ASSUME NEW p \in Callers, Ends(p), OthersWait(p), UNCHANGED <<ledger, balance>>
  PROVE  Lands(p) /\ (Calm(handler[p], call[p]) => Calmly(p))
BY RestIsCalm DEF Ends, Lands, Calmly

(* It goes on with the call it had, which is done if it attended to it.    *)
LEMMA TurnsCalmly ==
  ASSUME Quiet, NEW p \in Callers, OthersWait(p), UNCHANGED <<ledger, balance>>,
         NEW pc \in {"project", "saveIds", "void", "withdrawSave"}, Turns(p, pc, call[p]),
         \/ handler[p].pc \notin Attending
         \/ call[p].pc = "done" /\ handler[p].pc # "posting"
  PROVE  Calmly(p)
<1>1. Calm(handler[p], call[p])
  BY CalmWhen
<1>2. call[p].pc \in {"idle", "done"}
  BY DEF Quiet
<1>3. QED
  BY <1>1, <1>2 DEF Turns, Lands, Calmly, Calm, Lending

(* It calls the ledger.                                                    *)
LEMMA AsksCalmly ==
  ASSUME Quiet, NEW p \in Callers, OthersWait(p), UNCHANGED <<ledger, balance>>,
         Calm(handler[p], call[p]),
         \/ \E e : Turns(p, "posting", Appending(e))
         \/ \E n : Turns(p, "releasing", Adjusting(n))
  PROVE  Calmly(p)
BY CallsFit DEF Turns, Lands, Calmly, Calm, Lending, Rebuilds, Attending

LEMMA EnterCalmly ==
  ASSUME IInv, Numbers, Quiet, NEW p \in Callers, Decompose(p) \/ Insert(p) \/ Reserve(p)
  PROVE  Calmly(p)
<1> DEFINE r == handler[p].req
           n == handler[p].doc.paid
<1>1. CASE Decompose(p)
  <2>1. /\ handler[p].pc = "readBalance" /\ handler'[p].pc = "insert"
        /\ call'[p] = call[p] /\ OthersWait(p) /\ UNCHANGED <<ledger, balance>>
    BY <1>1, DecomposeDoes DEF store
  <2>2. call[p].pc \in {"idle", "done"} /\ Calm(handler[p], call[p])
    BY <2>1, CalmWhen DEF Quiet, Attending
  <2>3. QED
    BY <1>1, <2>1, <2>2, DecomposeCovers DEF Lands, Calmly, Calm, Lending, Rebuilds
<1>2. CASE Insert(p)
  <2>1. /\ handler[p].pc = "insert" /\ request'[r].paid = n
        /\ OthersWait(p) /\ UNCHANGED <<ledger, balance>>
        /\ \/ n > 0 /\ Turns(p, "reserving", Adjusting(n))
           \/ Turns(p, "project", call[p])
           \/ Ends(p)
    BY <1>2, InsertDoes DEF store
  <2>2. handler[p].pc \notin Attending
    BY <2>1 DEF Attending
  <2>3. Calm(handler[p], call[p])
    BY <2>2, CalmWhen
  <2>4. CASE n > 0 /\ Turns(p, "reserving", Adjusting(n))
    BY <2>1, <2>3, <2>4, CallsFit DEF Turns, Lands, Calmly, Calm, Lending, Rebuilds, Attending
  <2>5. QED
    BY <2>1, <2>2, <2>3, <2>4, TurnsCalmly, EndsCalmly
<1>3. CASE Reserve(p)
  <2>1. /\ handler[p].pc = "reserving" /\ call[p].pc = "done"
        /\ OthersWait(p) /\ UNCHANGED <<ledger, balance>>
        /\ \/ Turns(p, "posting", Appending(Usage(r)))
           \/ Turns(p, "project", call[p])
           \/ Ends(p)
    BY <1>3, ReserveDoes DEF store
  <2>2. Calm(handler[p], call[p])
    BY <2>1, CalmWhen
  <2>3. QED
    BY <2>1, <2>2, AsksCalmly, TurnsCalmly, EndsCalmly
<1>4. QED
  BY <1>1, <1>2, <1>3

LEMMA VerdictCalmly ==
  ASSUME IInv, Numbers, Quiet, NEW p \in Callers, Decide(p) \/ Refuse(p) \/ CancelSave(p)
  PROVE  Calmly(p)
<1> DEFINE r == handler[p].req
<1>1. /\ handler[p].pc \in {"decide", "refuse", "cancelSave"}
      /\ OthersWait(p) /\ UNCHANGED <<ledger, balance>>
      /\ \/ \E e : Turns(p, "posting", Appending(e))
         \/ \E n : Turns(p, "releasing", Adjusting(n))
         \/ Turns(p, "project", call[p])
         \/ Ends(p)
  BY DecideDoes, RefuseDoes DEF store
<1>2. handler[p].pc \notin Attending
  BY <1>1 DEF Attending
<1>3. Calm(handler[p], call[p])
  BY <1>2, CalmWhen
<1>4. QED
  BY <1>1, <1>2, <1>3, AsksCalmly, TurnsCalmly, EndsCalmly

LEMMA FinishCalmly ==
  ASSUME IInv, Numbers, Quiet, NEW p \in Callers,
         \/ Settle(p) \/ Project(p) \/ SaveIds(p)
         \/ Reversed(p) \/ Void(p) \/ WithdrawSave(p)
  PROVE  Calmly(p)
<1>1. /\ OthersWait(p) /\ UNCHANGED <<ledger, balance>>
      /\ \/ handler[p].pc \in {"settling", "reversing"} /\ call[p].pc = "done"
         \/ handler[p].pc \in {"project", "saveIds", "void", "withdrawSave"}
      /\ \/ \E pc \in {"project", "saveIds", "void", "withdrawSave"} : Turns(p, pc, call[p])
         \/ Ends(p)
  BY SettleDoes, ProjectDoes, SaveIdsDoes, ReversedDoes, VoidDoes, WithdrawSaveDoes DEF store
<1>2. handler[p].pc \notin Attending \/ (call[p].pc = "done" /\ handler[p].pc # "posting")
  BY <1>1 DEF Attending
<1>3. Calm(handler[p], call[p])
  BY <1>2, CalmWhen
<1>4. QED
  BY <1>1, <1>2, <1>3, TurnsCalmly, EndsCalmly

LEMMA EndCalmly ==
  ASSUME IInv, Quiet, NEW p \in Callers,
         Conflict(p) \/ Released(p) \/ Credited(p) \/ Abort(p) \/ Die(p)
  PROVE  Lands(p) /\ (Die(p) \/ Calmly(p))
<1>1. Ends(p) /\ OthersWait(p) /\ UNCHANGED <<ledger, balance>>
  BY EndDoes
<1>2. CASE Conflict(p) \/ Released(p) \/ Credited(p) \/ Abort(p)
  <2>1. \/ handler[p].pc \in {"decide", "refuse"}
        \/ call[p].pc = "done" /\ handler[p].pc # "posting"
        \/ call[p].pc = "failed"
    BY <1>2 DEF Conflict, Released, Credited, Abort, Served, On, At
  <2>2. Calm(handler[p], call[p])
    BY <2>1, CalmWhen DEF Attending
  <2>3. QED
    BY <1>1, <2>2, EndsCalmly
<1>3. QED
  BY <1>1, <1>2, EndsCalmly

LEMMA BeginCalmly ==
  ASSUME IInv, Numbers, Quiet, NEW p \in Callers,
         \/ Credit(p)
         \/ \E r \in Requests : \/ Apply(p, r) \/ Approve(p, r) \/ Reject(p, r)
                                \/ Cancel(p, r) \/ Withdraw(p, r)
  PROVE  Calmly(p) /\ handler'[p] # Rest
<1>1. ASSUME handler[p] = Rest
      PROVE  Calm(handler[p], call[p]) /\ call[p].pc \in {"idle", "done"}
  BY <1>1, CalmWhen, RestIsCalm DEF Quiet, Attending
<1>2. ASSUME NEW flow, NEW pc, NEW r, NEW doc, NEW c,
             Starts(p, flow, pc, r, doc, c), OthersWait(p),
             \/ c = call[p] /\ pc \in {"readBalance", "decide", "refuse", "cancelSave", "void"}
             \/ pc = "reversing" /\ c = Appending(Reversal(r))
             \/ pc = "crediting" /\ c = Appending(Accrual) /\ Uncredited
      PROVE  Calmly(p) /\ handler'[p] # Rest
  <2>1. /\ handler'[p].pc = pc /\ call'[p] = c /\ UNCHANGED <<ledger, balance>>
        /\ Calm(handler[p], call[p]) /\ call[p].pc \in {"idle", "done"}
    BY <1>1, <1>2 DEF Starts, store
  <2>2. pc # "idle"
    BY <1>2
  <2>3. CASE c = call[p] /\ pc \in {"readBalance", "decide", "refuse", "cancelSave", "void"}
    BY <1>2, <2>1, <2>2, <2>3, RestIsCalm DEF Lands, Calmly, Calm, Lending
  <2>4. CASE pc = "reversing" /\ c = Appending(Reversal(r))
    BY <1>2, <2>1, <2>2, <2>4, RestIsCalm, CallsFit
       DEF Lands, Calmly, Calm, Lending, Rebuilds, Attending
  <2>5. CASE pc = "crediting" /\ c = Appending(Accrual) /\ Uncredited
    BY <1>2, <2>1, <2>2, <2>5, RestIsCalm, CallsFit
       DEF Lands, Calmly, Calm, Lending, Rebuilds, Attending
  <2>6. QED
    BY <1>2, <2>3, <2>4, <2>5
<1>3. CASE Credit(p)
  <2>1. Uncredited
    BY <1>3 DEF Credit
  <2>2. QED
    BY <1>2, <1>3, <2>1, CreditDoes
<1>4. ASSUME NEW r \in Requests, Apply(p, r) \/ Approve(p, r) \/ Reject(p, r) \/ Cancel(p, r)
      PROVE  Calmly(p) /\ handler'[p] # Rest
  BY <1>2, <1>4, CallDoes
<1>5. ASSUME NEW r \in Requests, Withdraw(p, r) PROVE Calmly(p) /\ handler'[p] # Rest
  BY <1>2, <1>5, WithdrawDoes
<1>6. QED
  BY <1>3, <1>4, <1>5

LEMMA PostedLands ==
  ASSUME IInv, NEW p \in Callers, Posted(p) PROVE Lands(p)
BY PostedDoes, CallsFit DEF Turns, Lands, Attending, store

(* Such a step keeps the account sound.                                    *)
LEMMA CalmlySound ==
  ASSUME IInv, Numbers, NEW p \in Callers, SoundAt(p), Calmly(p) PROVE SoundAt(p)'
<1> DEFINE h == handler[p]
           c == call[p]
           g == handler'[p]
           b == call'[p]
<1>1. Spare' = Spare /\ Current' = Current
  BY SpareMoves DEF Calmly, Lands
<1>2. Current /\ Spare + 0 >= 0
  BY DEF SoundAt, Sound, Calmly, Calm, Lent
<1>3. balance.available = Spare
  BY <1>2 DEF Current, Spare
<1>4. b.pc \notin Rebuilds /\ Lent(g, b, request'[g.req].paid) = 0
  BY DEF Calmly, Calm, Lent
<1>5. g.pc = "insert" => g.doc.paid = 0 \/ g.doc.paid <= Spare
  BY <1>3 DEF Calmly
<1>6. g.pc = "reserving" /\ b.pc = "inc" => request'[g.req].paid <= Spare
  <2> SUFFICES ASSUME g.pc = "reserving", b.pc = "inc" PROVE request'[g.req].paid <= Spare
    OBVIOUS
  <2>1. h.pc = "insert" /\ h.doc.paid > 0 /\ request'[g.req].paid = h.doc.paid
    BY DEF Calmly
  <2>2. h.doc.paid = 0 \/ h.doc.paid <= Spare
    BY <2>1 DEF SoundAt, Sound
  <2>3. QED
    BY <2>1, <2>2
<1>7. QED
  BY <1>1, <1>2, <1>4, <1>5, <1>6 DEF SoundAt, Sound, Rebuilds

(* What was charged is about to be released.                               *)
LEMMA PostedSound ==
  ASSUME IInv, Numbers, NEW p \in Callers, SoundAt(p), Posted(p) PROVE SoundAt(p)'
<1> DEFINE r == handler[p].req
<1>1. /\ handler[p].pc = "posting" /\ call[p].pc = "done" /\ UNCHANGED <<ledger, balance, request>>
      /\ handler'[p].pc = "settling" /\ handler'[p].req = r /\ call'[p].pc = "inc"
  BY PostedDoes, CallsFit DEF Turns, Rests, store
<1>2. Spare' = Spare /\ Current' = Current
  BY <1>1, SpareMoves
<1>3. Current /\ Spare + request[r].paid >= 0
  BY <1>1 DEF SoundAt, Sound, Lent, Lending, Rebuilds
<1>4. Lent(handler'[p], call'[p], request'[handler'[p].req].paid) = request[r].paid
  BY <1>1 DEF Lent, Lending
<1>5. QED
  BY <1>1, <1>2, <1>3, <1>4 DEF SoundAt, Sound

-----------------------------------------------------------------------------
(* Steps of the call itself.                                               *)

(* What is posted, by whom.                                                *)
LEMMA PostsWhat ==
  ASSUME IInv, Numbers, Fits, CreditsFit, NEW p \in Callers, call[p].pc \in Asking
  PROVE  LET n == request[handler[p].req].paid
             e == call[p].entry
         IN  /\ e.quantity \in Int
             /\ \/ handler[p].pc = "posting" /\ e.type = "usage" /\ e.quantity = - n
                \/ handler[p].pc = "reversing" /\ e.type = "usage_reversal" /\ e.quantity = n
                \/ handler[p].pc = "crediting" /\ e.type = "accrual" /\ e.quantity = Annual
<1>1. ControlOK(handler[p], call[p]) /\ CallFits(handler[p], call[p], request[handler[p].req])
  BY ControlAt DEF Fits
<1>2. handler[p].pc = "crediting" => call[p].entry.quantity = Annual
  BY DEF CreditsFit, Crediting, Accrual
<1>3. call[p].entry.quantity \in Int
  BY DEF Numbers, Asked
<1>4. QED
  BY <1>1, <1>2, <1>3 DEF ControlOK, CallFits

LEMMA PaidIsNat ==
  ASSUME IInv, Numbers, NEW p \in Callers, handler[p].pc \in Attending \ {"crediting"}
  PROVE  request[handler[p].req].paid \in Nat
BY HandlerReq, PostsNumbers DEF Attending

(* The entry that a step posts is new, and adds its days to what is left.  *)
LEMMA PostingSound ==
  ASSUME IInv, Numbers, Fits, CreditsFit, NEW p \in Callers, SoundAt(p), Posting(p),
         UNCHANGED <<handler, request>>
  PROVE  SoundAt(p)'
<1> DEFINE h == handler[p]
           n == request[h.req].paid
           e == call[p].entry
<1>1. PICK d : d \notin ledger /\ d.entry = e /\ ledger' = ledger \cup {d}
  BY DEF Posting
<1>2. call[p].pc = "create" /\ call'[p].pc = "fold" /\ UNCHANGED balance
  BY DEF Posting
<1>3. /\ e.quantity \in Int
      /\ \/ h.pc = "posting" /\ e.type = "usage" /\ e.quantity = - n
         \/ h.pc = "reversing" /\ e.type = "usage_reversal" /\ e.quantity = n
         \/ h.pc = "crediting" /\ e.type = "accrual" /\ e.quantity = Annual
  BY <1>2, PostsWhat DEF Asking
<1>4. Spare' = Spare + e.quantity /\ Spare \in Int
  <2>1. Counted(ledger) /\ balance.pending \in Int
    BY DEF Numbers, BalanceNumbers
  <2>2. Available(Totals(ledger \cup {d}), balance.pending) = Spare + e.quantity
    BY <1>1, <1>3, <2>1, AvailableGrows DEF Spare
  <2>3. Spare' = Available(Totals(ledger \cup {d}), balance.pending)
    BY <1>1, <1>2 DEF Spare
  <2>4. QED
    BY <2>2, <2>3, SpareInt
<1>5. Lent(h, call[p], n) = 0
  BY <1>2 DEF Lent, Lending, Rebuilds
<1>6. Spare >= 0
  BY <1>4, <1>5 DEF SoundAt, Sound
<1>7. Spare' + Lent(h, call'[p], n) >= 0
  <2>1. CASE h.pc = "posting"
    BY <1>2, <1>3, <1>4, <1>6, <2>1, PaidIsNat DEF Lent, Lending, Rebuilds, Attending
  <2>2. CASE h.pc = "reversing"
    BY <1>3, <1>4, <1>6, <2>2, PaidIsNat DEF Lent, Lending, Attending
  <2>3. CASE h.pc = "crediting"
    BY <1>3, <1>4, <1>6, <2>3, RequestAssumption DEF Lent, Lending
  <2>4. QED
    BY <1>3, <2>1, <2>2, <2>3
<1>8. h.pc # "insert"
  BY <1>3
<1>9. QED
  BY <1>2, <1>7, <1>8 DEF SoundAt, Sound, Rebuilds

(* The reservation was covered, or what is released was reserved.          *)
LEMMA AddingSound ==
  ASSUME IInv, Numbers, Fits, NEW p \in Callers, SoundAt(p), Adding(p),
         UNCHANGED <<handler, request>>
  PROVE  SoundAt(p)'
<1> DEFINE h == handler[p]
           n == request[h.req].paid
           k == call[p].delta
<1>1. /\ call[p].pc = "inc" /\ call'[p].pc = "fold" /\ UNCHANGED ledger
      /\ balance'.pending = balance.pending + k
  BY DEF Adding
<1>2. k \in Int
  BY DEF Numbers, CallNumbers
<1>3. Spare' = Spare - k /\ Spare \in Int
  BY <1>1, <1>2, SpareMoves, SpareInt
<1>4. \/ h.pc = "reserving" /\ k = n
      \/ h.pc \in {"settling", "releasing"} /\ k = - n
  BY <1>1 DEF Fits, CallFits
<1>5. n \in Nat
  BY <1>4, PaidIsNat DEF Attending
<1>6. Spare + Lent(h, call[p], n) >= 0 /\ (h.pc = "reserving" => n <= Spare)
  BY <1>1 DEF SoundAt, Sound
<1>7. Spare' + Lent(h, call'[p], n) >= 0
  <2>1. Lent(h, call'[p], n) = 0
    BY <1>1, <1>4 DEF Lent, Lending
  <2>2. Lent(h, call[p], n) = IF h.pc = "settling" THEN n ELSE 0
    BY <1>1, <1>4 DEF Lent, Lending
  <2>3. QED
    BY <1>3, <1>4, <1>5, <1>6, <2>1, <2>2
<1>8. h.pc # "insert"
  BY <1>4
<1>9. QED
  BY <1>1, <1>7, <1>8 DEF SoundAt, Sound, Rebuilds

(* A rebuild that nobody interrupts writes the fold.                       *)
LEMMA RebuildSound ==
  ASSUME IInv, Numbers, NEW p \in Callers, SoundAt(p), Serve(p), call[p].pc \in Rebuilds
  PROVE  SoundAt(p)'
<1> DEFINE h == handler[p]
           n == request[h.req].paid
<1>1. UNCHANGED <<handler, request>>
  BY DEF Serve
<1>2. Folding(p) \/ Reading(p) \/ Writing(p)
  BY RebuildDoes
<1>3. Spare' = Spare /\ (UNCHANGED <<ledger, balance>> => Current' = Current)
  BY <1>2, SpareMoves DEF Folding, Reading, Writing
<1>4. Lent(h, call'[p], n) = Lent(h, call[p], n)
  BY <1>2 DEF Folding, Reading, Writing, Lent, Lending, Rebuilds
<1>5. Spare + Lent(h, call[p], n) >= 0 /\ (h.pc = "insert" => h.doc.paid = 0 \/ h.doc.paid <= Spare)
  BY DEF SoundAt, Sound
<1>6. call'[p].pc # "inc"
  BY <1>2 DEF Folding, Reading, Writing
<1>7. CASE Folding(p)
  BY <1>1, <1>3, <1>4, <1>5, <1>6, <1>7 DEF Folding, SoundAt, Sound, Rebuilds
<1>8. CASE Reading(p)
  BY <1>1, <1>3, <1>4, <1>5, <1>6, <1>8 DEF Reading, SoundAt, Sound, Rebuilds
<1>9. CASE Writing(p)
  <2>1. call[p].totals = Totals(ledger) /\ call[p].reserved = balance.pending
    BY <1>9 DEF Writing, SoundAt, Sound
  <2>2. Current'
    BY <1>9, <2>1 DEF Writing, Current
  <2>3. QED
    BY <1>1, <1>3, <1>4, <1>5, <1>6, <1>9, <2>2 DEF Writing, SoundAt, Sound
<1>10. QED
  BY <1>2, <1>7, <1>8, <1>9

LEMMA ServeSound ==
  ASSUME IInv, Numbers, Fits, CreditsFit, NEW p \in Callers, SoundAt(p), Serve(p)
  PROVE  SoundAt(p)'
<1>1. /\ UNCHANGED <<handler, request>>
      /\ Waiting(p) \/ Posting(p) \/ Adding(p) \/ Rebuilding(p)
  BY ServeDoes
<1>2. CASE Waiting(p)
  <2>1. /\ call[p].pc \in Asking /\ call'[p].pc \in Asking \cup {"failed"}
        /\ UNCHANGED <<ledger, balance>>
    BY <1>2 DEF Waiting
  <2>2. Spare' = Spare /\ Current' = Current
    BY <2>1, SpareMoves
  <2>3. \A n : Lent(handler[p], call'[p], n) = 0 /\ Lent(handler[p], call[p], n) = 0
    BY <2>1 DEF Lent, Lending, Rebuilds, Asking
  <2>4. QED
    BY <1>1, <2>1, <2>2, <2>3 DEF SoundAt, Sound, Rebuilds, Asking
<1>3. CASE Rebuilding(p)
  BY <1>3, RebuildSound DEF Rebuilding, Rebuilds
<1>4. QED
  BY <1>1, <1>2, <1>3, PostingSound, AddingSound

-----------------------------------------------------------------------------
(* One handler at a time.                                                  *)

(* Every other handler rests while p takes a step.                         *)
Single(p) == \A q \in Callers \ {p} : handler[q] = Rest /\ handler'[q] = Rest

(* A step of p, other than Serve: it is under way before or after.         *)
Acts(p) ==
  \/ HandlerStep(p) \/ Credit(p) \/ Abort(p) \/ Die(p)
  \/ \E r \in Requests : \/ Apply(p, r) \/ Approve(p, r) \/ Reject(p, r)
                         \/ Cancel(p, r) \/ Withdraw(p, r)

LEMMA ActsLand ==
  ASSUME IInv, Numbers, Quiet, NEW p \in Callers, Acts(p)
  PROVE  /\ Lands(p)
         /\ Die(p) \/ Posted(p) \/ Calmly(p)
         /\ Busy(p) \/ Busy(p)'
<1>1. CASE HandlerStep(p)
  <2>1. handler[p].pc # "idle"
    BY <1>1 DEF HandlerStep, Decompose, Insert, Reserve, Decide, Refuse, Conflict, Released, Posted,
                Settle, Project, SaveIds, CancelSave, Reversed, Void, WithdrawSave, Credited,
                Served, On
  <2>2. Busy(p)
    BY <2>1, RestIsCalm DEF Busy
  <2>3. Lands(p) /\ (Die(p) \/ Posted(p) \/ Calmly(p))
    <3>1. Calmly(p) => Lands(p)
      BY DEF Calmly
    <3>2. CASE Decompose(p) \/ Insert(p) \/ Reserve(p)
      BY <3>1, <3>2, EnterCalmly
    <3>3. CASE Decide(p) \/ Refuse(p) \/ CancelSave(p)
      BY <3>1, <3>3, VerdictCalmly
    <3>4. CASE \/ Settle(p) \/ Project(p) \/ SaveIds(p)
               \/ Reversed(p) \/ Void(p) \/ WithdrawSave(p)
      BY <3>1, <3>4, FinishCalmly
    <3>5. CASE Conflict(p) \/ Released(p) \/ Credited(p)
      BY <3>5, EndCalmly
    <3>6. CASE Posted(p)
      BY <3>6, PostedLands
    <3>7. QED
      BY <1>1, <3>2, <3>3, <3>4, <3>5, <3>6 DEF HandlerStep
  <2>4. QED
    BY <2>2, <2>3
<1>2. CASE Abort(p) \/ Die(p)
  <2>1. Busy(p)
    BY <1>2 DEF Abort, Die
  <2>2. QED
    BY <1>2, <2>1, EndCalmly
<1>3. ASSUME Credit(p) \/ \E r \in Requests : \/ Apply(p, r) \/ Approve(p, r) \/ Reject(p, r)
                                              \/ Cancel(p, r) \/ Withdraw(p, r)
      PROVE  Lands(p) /\ Calmly(p) /\ Busy(p)'
  <2>1. Calmly(p) /\ handler'[p] # Rest
    BY <1>3, BeginCalmly
  <2>2. QED
    BY <2>1 DEF Calmly, Busy
<1>4. QED
  BY <1>1, <1>2, <1>3 DEF Acts

LEMMA Alone ==
  ASSUME OnlyOne, OneAtATime, NEW p \in Callers, OthersWait(p), Busy(p) \/ Busy(p)'
  PROVE  Single(p)
<1> SUFFICES ASSUME NEW q \in Callers \ {p}, handler[q] # Rest PROVE FALSE
  BY DEF Single, OthersWait
<1>1. Busy(q) /\ Busy(q)'
  BY DEF OthersWait, Busy
<1>2. QED
  BY <1>1 DEF OnlyOne, OneAtATime

(* Only a death is counted.                                                *)
LEMMA CrashesStay ==
  ASSUME NEW p \in Callers, Serve(p) \/ Acts(p)
  PROVE  UNCHANGED crashes \/ (Die(p) /\ crashes' = crashes + 1)
BY DEF Acts, HandlerStep, Serve, LedgerStep, ReadSeq, Create, Collide, Inc, Fold, ReadPending, Write,
       Decompose, Insert, Reserve, Decide, Refuse, Conflict, Released, Posted,
       Settle, Project, SaveIds, CancelSave, Reversed, Void, WithdrawSave, Credited,
       Credit, Abort, Die, Apply, Approve, Reject, Cancel, Withdraw, store

LEMMA QuietStays ==
  ASSUME IInv, Numbers, Quiet, NEW p \in Callers, Serve(p) \/ Acts(p)
  PROVE  Quiet'
<1>1. OthersWait(p) /\ (handler'[p].pc \notin Attending => call'[p].pc \in {"idle", "done"})
  <2>1. CASE Acts(p)
    BY <2>1, ActsLand DEF Lands
  <2>2. CASE Serve(p)
    <3>1. UNCHANGED handler /\ OthersWait(p)
      BY <2>2, ServeDoes
    <3>2. call[p].pc \notin {"idle", "done"}
      BY <2>2 DEF Serve, LedgerStep, ReadSeq, Create, Collide, Inc, Fold, ReadPending, Write, At
    <3>3. QED
      BY <3>1, <3>2 DEF Quiet
  <2>3. QED
    BY <2>1, <2>2
<1>2. QED
  BY <1>1 DEF Quiet, OthersWait

LEMMA CreditsStay ==
  ASSUME IInv, Numbers, Fits, Quiet, CreditsFit, NEW p \in Callers, Single(p), Serve(p) \/ Acts(p)
  PROVE  CreditsFit'
<1>1. ASSUME NEW q \in Callers, Crediting(q)' PROVE q = p
  BY <1>1, RestIsCalm DEF Single, Crediting
<1>2. CASE Acts(p)
  <2>1. UNCHANGED ledger /\ (handler'[p].pc = "crediting" => Uncredited /\ call'[p].entry = Accrual)
    BY <1>2, ActsLand DEF Lands
  <2>2. Uncredited' = Uncredited
    BY <2>1 DEF Uncredited
  <2>3. QED
    BY <1>1, <2>1, <2>2 DEF CreditsFit, Crediting
<1>3. CASE Serve(p)
  <2>1. UNCHANGED handler /\ (Waiting(p) \/ Posting(p) \/ Adding(p) \/ Rebuilding(p))
    BY <1>3, ServeDoes
  <2>2. CASE Waiting(p)
    <3>1. /\ UNCHANGED ledger /\ call[p].pc \in Asking /\ call'[p].entry = call[p].entry
      BY <2>2 DEF Waiting
    <3>2. Uncredited' = Uncredited /\ (Crediting(p)' => Crediting(p))
      BY <2>1, <3>1 DEF Uncredited, Crediting
    <3>3. QED
      BY <1>1, <3>1, <3>2 DEF CreditsFit
  <2>3. CASE Posting(p)
    <3>1. PICK d : d.entry = call[p].entry /\ ledger' = ledger \cup {d}
      BY <2>3 DEF Posting
    <3>2. call[p].pc \in Asking /\ ~Crediting(p)'
      BY <2>3 DEF Posting, Asking, Crediting
    <3>3. d.entry.type = "accrual" => Uncredited
      BY <3>1, <3>2, PostsWhat DEF CreditsFit, Crediting
    <3>4. \A c, e \in ledger' : c.entry.type = "accrual" /\ e.entry.type = "accrual" => c = e
      BY <3>1, <3>3 DEF CreditsFit, Uncredited
    <3>5. QED
      BY <1>1, <3>2, <3>4 DEF CreditsFit
  <2>4. CASE Adding(p) \/ Rebuilding(p)
    <3>1. UNCHANGED ledger /\ ~Crediting(p)'
      BY <2>4 DEF Adding, Rebuilding, Crediting, Asking
    <3>2. QED
      BY <1>1, <3>1 DEF CreditsFit
  <2>5. QED
    BY <2>1, <2>2, <2>3, <2>4
<1>4. QED
  BY <1>2, <1>3

LEMMA SoundStays ==
  ASSUME IInv, Numbers, Fits, Quiet, CreditsFit, NEW p \in Callers, SoundAt(p),
         Serve(p) \/ Acts(p), ~Die(p)
  PROVE  SoundAt(p)'
BY ActsLand, ServeSound, PostedSound, CalmlySound

(* Whoever begins finds the balance current, and whoever ends leaves it so. *)
LEMMA SoundAtRest ==
  ASSUME NEW p \in Callers, handler[p] = Rest, Quiet, Current, Spare >= 0, Spare \in Int
  PROVE  SoundAt(p)
<1>1. handler[p].pc = "idle" /\ call[p].pc \in {"idle", "done"}
  BY RestIsCalm DEF Quiet, Attending
<1>2. \A n : Lent(handler[p], call[p], n) = 0
  BY <1>1 DEF Lent, Lending
<1>3. QED
  BY <1>1, <1>2 DEF SoundAt, Sound, Rebuilds

LEMMA CurrentAtRest ==
  ASSUME NEW p \in Callers, (handler[p] = Rest)', Quiet', SoundAt(p)', (Spare \in Int)'
  PROVE  Current' /\ (Spare >= 0)'
<1>1. (handler[p].pc = "idle" /\ call[p].pc \in {"idle", "done"})'
  BY RestIsCalm DEF Quiet, Attending
<1>2. \A n : Lent(handler'[p], call'[p], n) = 0
  BY <1>1 DEF Lent, Lending
<1>3. QED
  BY <1>1, <1>2 DEF SoundAt, Sound, Rebuilds

LEMMA SingleStep ==
  ASSUME IInv, Numbers, Numbers', Fits, Serial, OneAtATime, NEW p \in Callers, Serve(p) \/ Acts(p)
  PROVE  Serial'
<1>1. OnlyOne /\ Quiet /\ CreditsFit /\ crashes \in Nat
  BY DEF Serial
<1>2. Single(p)
  <2>1. OthersWait(p)
    BY <1>1, ActsLand, ServeDoes DEF Lands
  <2>2. Busy(p) \/ Busy(p)'
    BY <1>1, ActsLand DEF Serve
  <2>3. QED
    BY <1>1, <2>1, <2>2, Alone
<1>3. OnlyOne' /\ Quiet' /\ CreditsFit'
  BY <1>1, <1>2, QuietStays, CreditsStay DEF OnlyOne, OneAtATime
<1>4. crashes' \in Nat /\ (crashes' = 0 => crashes = 0 /\ ~Die(p))
  <2>1. UNCHANGED crashes \/ (Die(p) /\ crashes' = crashes + 1)
    BY CrashesStay
  <2>2. Die(p) => crashes' = crashes + 1
    BY DEF Die
  <2>3. QED
    BY <1>1, <2>1, <2>2
<1>5. ASSUME crashes' = 0 PROVE SoundAt(p)'
  <2>1. SoundAt(p)
    <3>1. CASE Busy(p)
      BY <1>4, <1>5, <3>1 DEF Serial
    <3>2. CASE ~Busy(p)
      <4>1. AllRest
        BY <1>2, <3>2 DEF AllRest, Busy, Single
      <4>2. Current /\ Spare >= 0
        BY <1>4, <1>5, <4>1 DEF Serial
      <4>3. QED
        BY <1>1, <3>2, <4>2, SpareInt, SoundAtRest DEF Busy
    <3>3. QED
      BY <3>1, <3>2
  <2>2. QED
    BY <1>1, <1>4, <1>5, <2>1, SoundStays
<1>6. ASSUME crashes' = 0, NEW q \in Callers, Busy(q)' PROVE SoundAt(q)'
  <2>1. q = p
    BY <1>2, <1>6 DEF Single, Busy
  <2>2. QED
    BY <1>5, <1>6, <2>1
<1>7. ASSUME crashes' = 0, AllRest' PROVE Current' /\ Spare' >= 0
  <2>1. handler'[p] = Rest /\ SoundAt(p)'
    BY <1>5, <1>7 DEF AllRest, Busy
  <2>2. Spare' \in Int
    BY TotalsInt, AvailableInt DEF Spare, Numbers, BalanceNumbers
  <2>3. QED
    BY <1>3, <2>1, <2>2, CurrentAtRest
<1>8. QED
  BY <1>3, <1>4, <1>6, <1>7 DEF Serial

LEMMA InitSerial == RequestInit => Serial
<1> SUFFICES ASSUME RequestInit PROVE Serial
  OBVIOUS
<1>1. \A p \in Callers : handler[p] = Rest /\ call[p] = Idle
  BY DEF RequestInit, Init
<1>2. /\ ledger = {} /\ crashes = 0
      /\ balance = [totals |-> Totals({}), pending |-> 0, available |-> 0, lastLedgerSeq |-> 0]
  BY DEF RequestInit, Init
<1>3. Available(Totals({}), 0) = 0
  <2>1. \A f \in Fields : Totals({})[f] = 0
    BY TotalsAre, SumEmpty
  <2>2. \A f \in {"opening", "credited", "used", "lapsed", "encashed"} : Totals({})[f] = 0
    BY <2>1 DEF Fields
  <2>3. QED
    BY <2>2 DEF Available
<1>4. Current /\ Spare >= 0
  <2>1. balance.totals = Totals({}) /\ balance.pending = 0 /\ balance.available = 0
    BY <1>2
  <2>2. QED
    BY <1>2, <1>3, <2>1 DEF Current, Spare
<1>5. OnlyOne /\ Quiet /\ CreditsFit
  BY <1>1, <1>2, RestIsCalm DEF OnlyOne, Quiet, CreditsFit, Crediting, Busy
<1>6. \A p \in Callers : ~Busy(p)
  BY <1>1 DEF Busy
<1>7. QED
  BY <1>2, <1>4, <1>5, <1>6 DEF Serial

LEMMA SerialStep ==
  ASSUME IInv, Numbers, Numbers', Fits, alone => Serial, [CallsNext]_callVars
  PROVE  (alone => Serial)'
<1> SUFFICES ASSUME alone PROVE Serial'
  BY DEF CallsNext, callVars
<1>1. Serial
  OBVIOUS
<1>2. CASE UNCHANGED callVars \/ LockPayroll
  <2>1. UNCHANGED <<ledger, balance, crashes, call, request, handler>>
    BY <1>2 DEF callVars, rvars, LockPayroll, store
  <2>2. /\ OnlyOne' = OnlyOne /\ Quiet' = Quiet /\ CreditsFit' = CreditsFit
        /\ Current' = Current /\ AllRest' = AllRest /\ Spare' = Spare
    BY <2>1 DEF OnlyOne, Quiet, CreditsFit, Crediting, Uncredited, Current, AllRest, Busy, Spare
  <2>3. \A p \in Callers : Busy(p)' = Busy(p) /\ SoundAt(p)' = SoundAt(p)
    BY <2>1, <2>2 DEF Busy, SoundAt, Sound, Lent, Lending
  <2>4. QED
    BY <1>1, <2>1, <2>2, <2>3 DEF Serial
<1>3. CASE CallsNext /\ ~LockPayroll
  <2>1. OneAtATime /\ \E p \in Callers : Serve(p) \/ Acts(p)
    BY <1>3 DEF CallsNext, RequestNext, Acts
  <2>2. QED
    BY <1>1, <2>1, SingleStep
<1>4. QED
  BY <1>2, <1>3

LEMMA AccountKeptIn == Serial => AccountKept
<1> SUFFICES ASSUME Serial PROVE AccountKept
  OBVIOUS
<1>1. CreditedOnce
  BY OneAtMost DEF Serial, CreditsFit, CreditedOnce
<1>2. ASSUME crashes = 0, AllRest PROVE Current /\ balance.available >= 0
  BY <1>2 DEF Serial, Current, Spare
<1>3. QED
  BY <1>1, <1>2 DEF AccountKept, BalanceIsFold

(* With one handler at a time the year is credited once, whoever dies; and *)
(* as long as none did, the balance that handlers leave behind is the fold *)
(* of the ledger and never below zero.                                     *)
THEOREM AccountAlwaysKept == CallsSpec => []SerialAccountKept
<1>1. CallsInit => RequestInit /\ (alone => Serial)
  BY InitSerial DEF CallsInit
<1>2. [CallsNext]_callVars => [RequestNext]_rvars
  BY DEF CallsNext, callVars, rvars
<1>3. IInv /\ Numbers /\ Numbers' /\ Books /\ (alone => Serial) /\ [CallsNext]_callVars
        => (alone => Serial)'
  BY SerialStep DEF Books
<1>4. (alone => Serial) => SerialAccountKept
  BY AccountKeptIn DEF SerialAccountKept
<1>5. RequestInit => Numbers /\ Books
  BY InitNumbers, InitBooks
<1>6. CallsSpec => RequestSpec
  BY <1>1, <1>2, PTL DEF CallsSpec, RequestSpec
<1>7. QED
  BY <1>1, <1>2, <1>3, <1>4, <1>5, <1>6, BooksStep, IInvAlways, PTL DEF CallsSpec
=============================================================================
