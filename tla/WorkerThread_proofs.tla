-------------------------- MODULE WorkerThread_proofs --------------------------
(***************************************************************************)
(* Proofs about the call handshake of CWorkerThread: the slot has one      *)
(* owner and no request is served twice, for any number of callers and     *)
(* calls, and a single caller that waits gets its own reply.               *)
(***************************************************************************)
EXTENDS MCWorkerThread, TLAPS

Handshake == SlotInOrder /\ RequestsInOrder

(* A move of one caller.                                                   *)
LEMMA Moves ==
  ASSUME TypeOK, NEW c \in Caller,
         NEW l \in {"idle", "reserve", "publish", "post", "reset", "send",
                    "wait", "read", "terminate"},
         Goto(c, l)
  PROVE  /\ pc' \in [Caller -> {"idle", "reserve", "publish", "post", "reset", "send",
                                "wait", "read", "terminate"}]
         /\ pc'[c] = l
         /\ \A d \in Caller : d # c => pc'[d] = pc[d]
         /\ Filling' = IF l \in {"publish", "post", "reset", "send"}
                         THEN Filling \union {c} ELSE Filling \ {c}
         /\ Unpublished' = IF l \in {"reserve", "publish"}
                             THEN Unpublished \union {c} ELSE Unpublished \ {c}
BY DEF TypeOK, Goto, Filling, Unpublished

LEMMA Payloads ==
  /\ \A n \in Number : /\ Request(n) \in Payload /\ Result(n) \in Payload
                       /\ Request(n)[1] = "request" /\ Request(n)[2] = n
  /\ Request(0) \in Payload
  /\ Number \subseteq Nat
BY CallsAssumption DEF Payload, Request, Result, Number

(* Where no request comes into the slot and no call is begun, the numbers  *)
(* stay in order.                                                          *)
LEMMA NumbersKept ==
  ASSUME RequestsInOrder, UNCHANGED <<calls, call, replied>>,
         Unpublished' \subseteq Unpublished,
         Pending' => Pending /\ param' = param,
         wpc' = "store" => wpc = "store" /\ got' = got
  PROVE  RequestsInOrder'
<1>1. \A p : Unanswered(p) => Unanswered(p)'
  BY DEF Unanswered
<1>. QED
  BY <1>1 DEF RequestsInOrder

-----------------------------------------------------------------------------
(* Preservation, action by action.                                         *)
LEMMA BeginStep ==
  ASSUME Handshake, NEW c \in Caller, NEW m \in Mode, Begin(c, m)
  PROVE  Handshake'
<1>1. TypeOK /\ OneSlotOwner /\ RequestsInOrder
  BY DEF Handshake, SlotInOrder
<1>2. /\ pc[c] = "idle" /\ calls < MaxCalls /\ calls' = calls + 1
      /\ call' = [call EXCEPT ![c] = calls + 1] /\ mode' = [mode EXCEPT ![c] = m]
      /\ Goto(c, "reserve")
      /\ UNCHANGED <<flags, param, send, complete, alive, wpc, got, replied>>
  BY DEF Begin, slot, worker
<1>3. /\ pc' \in [Caller -> {"idle", "reserve", "publish", "post", "reset", "send",
                             "wait", "read", "terminate"}]
      /\ pc'[c] = "reserve" /\ (\A d \in Caller : d # c => pc'[d] = pc[d])
      /\ Filling' = Filling \ {c} /\ Unpublished' = Unpublished \union {c}
  BY <1>1, <1>2, Moves
<1>4. c \notin Filling /\ c \notin Unpublished
  BY <1>2 DEF Filling, Unpublished
<1>5. calls \in Nat /\ calls' \in Number /\ calls' \notin 1 .. calls
  BY <1>1, <1>2, CallsAssumption DEF RequestsInOrder, Number
<1>6. TypeOK'
  BY <1>1, <1>2, <1>3, <1>5 DEF TypeOK
<1>7. OneSlotOwner'
  BY <1>1, <1>2, <1>3, <1>4 DEF OneSlotOwner, Serving
<1>8. call'[c] = calls' /\ \A d \in Caller : d # c => call'[d] = call[d]
  BY <1>1, <1>2 DEF TypeOK
<1>9. \A p : Unanswered(p) => Unanswered(p)'
  <2>. SUFFICES ASSUME NEW p, Unanswered(p) PROVE Unanswered(p)'
    OBVIOUS
  <2>1. p[2] \in Number /\ p[2] <= calls /\ p[2] # calls'
    BY <1>2, <1>5, Payloads DEF Unanswered
  <2>2. p[2] <= calls'
    <3>1. p[2] \in Nat
      BY <2>1, Payloads
    <3>. QED
      BY <1>2, <1>5, <2>1, <3>1
  <2>3. \A d \in Unpublished : d \in Caller /\ d # c /\ call[d] # p[2]
    BY <1>4 DEF Unanswered, Unpublished
  <2>4. \A d \in Unpublished' : call'[d] # p[2]
    BY <1>3, <1>8, <2>1, <2>3
  <2>. QED
    BY <1>2, <2>2, <2>4 DEF Unanswered
<1>10. RequestsInOrder'
  <2>1. Pending' => Pending
    BY <1>2, <1>3 DEF Pending
  <2>2. calls' \in Nat /\ 1 .. calls \subseteq 1 .. calls' /\ calls' \in 1 .. calls'
    BY <1>2, <1>5
  <2>3. \A d \in Unpublished : call[d] \in 1 .. calls /\ call[d] \notin replied /\ d \in Caller
    BY <1>1 DEF RequestsInOrder, Unpublished
  <2>4. \A d \in Unpublished' : call'[d] \in (1 .. calls') \ replied'
    BY <1>1, <1>2, <1>3, <1>4, <1>5, <1>8, <2>2, <2>3 DEF RequestsInOrder
  <2>5. \A d, e \in Unpublished' : call'[d] = call'[e] => d = e
    BY <1>1, <1>3, <1>4, <1>5, <1>8, <2>3 DEF RequestsInOrder
  <2>. QED
    BY <1>1, <1>2, <1>9, <2>1, <2>2, <2>4, <2>5 DEF RequestsInOrder
<1>. QED
  BY <1>6, <1>7, <1>10 DEF Handshake, SlotInOrder

LEMMA ReserveStep ==
  ASSUME Handshake, NEW c \in Caller, Reserve(c)
  PROVE  Handshake'
<1>1. TypeOK /\ OneSlotOwner /\ RequestsInOrder
  BY DEF Handshake, SlotInOrder
<1>2. /\ pc[c] = "reserve"
      /\ UNCHANGED <<param, send, complete, alive, mode, call, calls, wpc, got, replied>>
  BY DEF Reserve, worker
<1>3. CASE flags = {} /\ flags' = {"SCHEDULED"} /\ Goto(c, "publish")
  <2>1. /\ pc' \in [Caller -> {"idle", "reserve", "publish", "post", "reset", "send",
                               "wait", "read", "terminate"}]
        /\ pc'[c] = "publish" /\ (\A d \in Caller : d # c => pc'[d] = pc[d])
        /\ Filling' = Filling \union {c} /\ Unpublished' = Unpublished \union {c}
    BY <1>1, <1>3, Moves
  <2>2. Filling = {} /\ ~send /\ ~Serving
    BY <1>1, <1>3 DEF OneSlotOwner
  <2>3. TypeOK'
    BY <1>1, <1>2, <1>3, <2>1 DEF TypeOK
  <2>4. OneSlotOwner'
    BY <1>2, <1>3, <2>1, <2>2 DEF OneSlotOwner, Serving
  <2>5. Unpublished' = Unpublished /\ (Pending' => Pending)
    BY <1>2, <2>1 DEF Unpublished, Pending
  <2>6. RequestsInOrder'
    BY <1>1, <1>2, <2>5, NumbersKept
  <2>. QED
    BY <2>3, <2>4, <2>6 DEF Handshake, SlotInOrder
<1>4. CASE flags # {} /\ Goto(c, "idle") /\ UNCHANGED flags
  <2>1. /\ pc' \in [Caller -> {"idle", "reserve", "publish", "post", "reset", "send",
                               "wait", "read", "terminate"}]
        /\ pc'[c] = "idle" /\ (\A d \in Caller : d # c => pc'[d] = pc[d])
        /\ Filling' = Filling \ {c} /\ Unpublished' = Unpublished \ {c}
    BY <1>1, <1>4, Moves
  <2>2. TypeOK'
    BY <1>1, <1>2, <1>4, <2>1 DEF TypeOK
  <2>3. OneSlotOwner'
    BY <1>1, <1>2, <1>4, <2>1 DEF OneSlotOwner, Serving
  <2>4. Pending' => Pending
    BY <1>2, <2>1 DEF Pending
  <2>5. RequestsInOrder'
    BY <1>1, <1>2, <2>1, <2>4, NumbersKept
  <2>. QED
    BY <2>2, <2>3, <2>5 DEF Handshake, SlotInOrder
<1>. QED
  BY <1>3, <1>4 DEF Reserve

(* The request comes into the slot.                                        *)
LEMMA PublishStep ==
  ASSUME Handshake, NEW c \in Caller, Publish(c)
  PROVE  Handshake'
<1>1. TypeOK /\ OneSlotOwner /\ RequestsInOrder
  BY DEF Handshake, SlotInOrder
<1>2. /\ pc[c] = "publish" /\ param' = Request(call[c]) /\ Goto(c, "post")
      /\ UNCHANGED <<flags, send, complete, alive, mode, call, calls, wpc, got, replied>>
  BY DEF Publish, worker
<1>3. /\ pc' \in [Caller -> {"idle", "reserve", "publish", "post", "reset", "send",
                             "wait", "read", "terminate"}]
      /\ pc'[c] = "post" /\ (\A d \in Caller : d # c => pc'[d] = pc[d])
      /\ Filling' = Filling \union {c} /\ Unpublished' = Unpublished \ {c}
  BY <1>1, <1>2, Moves
<1>4. c \in Filling /\ c \in Unpublished
  BY <1>2 DEF Filling, Unpublished
<1>5. ~Serving /\ Filling' = Filling
  BY <1>1, <1>3, <1>4 DEF OneSlotOwner
<1>6. call[c] \in Number /\ call[c] \in 1 .. calls /\ call[c] \notin replied /\ calls \in Nat
  BY <1>1, <1>4 DEF RequestsInOrder, TypeOK, Number
<1>7. TypeOK'
  BY <1>1, <1>2, <1>3, <1>6, Payloads DEF TypeOK
<1>8. OneSlotOwner'
  BY <1>1, <1>2, <1>5 DEF OneSlotOwner, Serving
<1>9. Unanswered(param)'
  <2>1. param' \in {Request(n) : n \in Number \ replied} /\ param'[2] = call[c]
    BY <1>2, <1>6, Payloads
  <2>2. \A d \in Unpublished \ {c} : call[d] # call[c]
    BY <1>1, <1>4 DEF RequestsInOrder
  <2>. QED
    BY <1>2, <1>3, <1>6, <2>1, <2>2 DEF Unanswered
<1>10. RequestsInOrder'
  BY <1>1, <1>2, <1>3, <1>5, <1>9 DEF RequestsInOrder, Serving
<1>. QED
  BY <1>7, <1>8, <1>10 DEF Handshake, SlotInOrder

(* Post, ResetComplete: the slot is still being filled.                    *)
LEMMA FillStep ==
  ASSUME Handshake, NEW c \in Caller, Post(c) \/ ResetComplete(c)
  PROVE  Handshake'
<1>1. TypeOK /\ OneSlotOwner /\ RequestsInOrder
  BY DEF Handshake, SlotInOrder
<1>2. PICK l \in {"reset", "send"} :
        /\ pc[c] \in {"post", "reset"} /\ Goto(c, l)
        /\ flags' = flags \/ flags' = {"PENDING"}
        /\ complete' = complete \/ complete' = FALSE
        /\ UNCHANGED <<param, send, alive, mode, call, calls, wpc, got, replied>>
  <2>1. CASE Post(c)
    BY <2>1 DEF Post, worker
  <2>2. CASE ResetComplete(c)
    BY <2>2 DEF ResetComplete, worker, slot
  <2>. QED
    BY <2>1, <2>2
<1>3. /\ pc' \in [Caller -> {"idle", "reserve", "publish", "post", "reset", "send",
                             "wait", "read", "terminate"}]
      /\ pc'[c] = l /\ (\A d \in Caller : d # c => pc'[d] = pc[d])
      /\ Filling' = Filling \union {c} /\ Unpublished' = Unpublished \ {c}
  BY <1>1, <1>2, Moves
<1>4. c \in Filling /\ Filling' = Filling /\ flags # {} /\ flags' # {}
  BY <1>1, <1>2, <1>3 DEF Filling, OneSlotOwner
<1>5. TypeOK'
  BY <1>1, <1>2, <1>3 DEF TypeOK
<1>6. OneSlotOwner'
  BY <1>1, <1>2, <1>4 DEF OneSlotOwner, Serving
<1>7. Pending
  BY <1>2 DEF Pending
<1>8. RequestsInOrder'
  BY <1>1, <1>2, <1>3, <1>7, NumbersKept
<1>. QED
  BY <1>5, <1>6, <1>8 DEF Handshake, SlotInOrder

(* The slot passes to the signaled event.                                  *)
LEMMA SetSendStep ==
  ASSUME Handshake, NEW c \in Caller, SetSend(c)
  PROVE  Handshake'
<1>1. TypeOK /\ OneSlotOwner /\ RequestsInOrder
  BY DEF Handshake, SlotInOrder
<1>2. PICK l \in {"wait", "read"} :
        /\ pc[c] = "send" /\ Goto(c, l) /\ send' = TRUE
        /\ UNCHANGED <<flags, param, complete, alive, mode, call, calls, wpc, got, replied>>
  BY DEF SetSend, worker, slot
<1>3. /\ pc' \in [Caller -> {"idle", "reserve", "publish", "post", "reset", "send",
                             "wait", "read", "terminate"}]
      /\ Filling' = Filling \ {c} /\ Unpublished' = Unpublished \ {c}
  BY <1>1, <1>2, Moves
<1>4. c \in Filling /\ Filling' = {} /\ ~Serving /\ flags # {}
  BY <1>1, <1>2, <1>3 DEF Filling, OneSlotOwner
<1>5. TypeOK'
  BY <1>1, <1>2, <1>3 DEF TypeOK
<1>6. OneSlotOwner'
  BY <1>2, <1>4 DEF OneSlotOwner, Serving
<1>7. Pending
  BY <1>2 DEF Pending
<1>8. RequestsInOrder'
  BY <1>1, <1>2, <1>3, <1>7, NumbersKept
<1>. QED
  BY <1>5, <1>6, <1>8 DEF Handshake, SlotInOrder

(* WaitForReply, TimeOut, Terminate, Read: the slot is somebody else's.    *)
LEMMA AwayStep ==
  ASSUME Handshake, NEW c \in Caller,
         WaitForReply(c) \/ TimeOut(c) \/ Terminate(c) \/ Read(c)
  PROVE  Handshake'
<1>1. TypeOK /\ OneSlotOwner /\ RequestsInOrder
  BY DEF Handshake, SlotInOrder
<1>2. PICK l \in {"read", "terminate", "idle"} :
        /\ pc[c] \in {"wait", "terminate", "read"} /\ Goto(c, l)
        /\ complete' \in BOOLEAN /\ alive' \in BOOLEAN
        /\ wpc' = wpc \/ wpc' = "dead"
        /\ UNCHANGED <<flags, param, send, mode, call, calls, got, replied>>
  <2>1. CASE WaitForReply(c)
    BY <1>1, <2>1 DEF WaitForReply, worker, slot, TypeOK
  <2>2. CASE TimeOut(c)
    BY <1>1, <2>2 DEF TimeOut, worker, slot, TypeOK
  <2>3. CASE Terminate(c)
    BY <1>1, <2>3 DEF Terminate, slot, TypeOK
  <2>4. CASE Read(c)
    BY <1>1, <2>4 DEF Read, worker, slot, TypeOK
  <2>. QED
    BY <2>1, <2>2, <2>3, <2>4
<1>3. /\ pc' \in [Caller -> {"idle", "reserve", "publish", "post", "reset", "send",
                             "wait", "read", "terminate"}]
      /\ pc'[c] = l /\ (\A d \in Caller : d # c => pc'[d] = pc[d])
      /\ Filling' = Filling \ {c} /\ Unpublished' = Unpublished \ {c}
  BY <1>1, <1>2, Moves
<1>4. TypeOK'
  BY <1>1, <1>2, <1>3 DEF TypeOK
<1>5. OneSlotOwner'
  BY <1>1, <1>2, <1>3 DEF OneSlotOwner, Serving
<1>6. Pending' => Pending
  BY <1>2, <1>3 DEF Pending
<1>7. RequestsInOrder'
  BY <1>1, <1>2, <1>3, <1>6, NumbersKept
<1>. QED
  BY <1>4, <1>5, <1>7 DEF Handshake, SlotInOrder

(* The worker takes the slot over from the event and serves it.            *)
LEMMA WorkStep ==
  ASSUME Handshake, Work
  PROVE  Handshake'
<1>1. /\ TypeOK /\ OneSlotOwner /\ RequestsInOrder
      /\ flags \subseteq {"SCHEDULED", "PENDING"} /\ replied \subseteq Number
  BY DEF Handshake, SlotInOrder, TypeOK
<1>2. CASE WaitForCall
  <2>1. /\ wpc = "wait" /\ send /\ send' = FALSE /\ wpc' = "take"
        /\ UNCHANGED <<flags, param, complete, alive, pc, mode, call, calls, got, replied>>
    BY <1>2 DEF WaitForCall, slot, caller
  <2>2. Filling' = Filling /\ Unpublished' = Unpublished /\ Pending
    BY <2>1 DEF Filling, Unpublished, Pending
  <2>3. TypeOK'
    BY <1>1, <2>1 DEF TypeOK
  <2>4. OneSlotOwner'
    BY <1>1, <2>1, <2>2 DEF OneSlotOwner, Serving
  <2>5. RequestsInOrder'
    BY <1>1, <2>1, <2>2, NumbersKept
  <2>. QED
    BY <2>3, <2>4, <2>5 DEF Handshake, SlotInOrder
<1>3. CASE TakeParam
  <2>1. /\ wpc = "take" /\ got' = param /\ wpc' = "store"
        /\ UNCHANGED <<flags, param, send, complete, alive, pc, mode, call, calls, replied>>
    BY <1>3 DEF TakeParam, slot, caller
  <2>2. Filling' = Filling /\ Unpublished' = Unpublished /\ Pending
    BY <2>1 DEF Filling, Unpublished, Pending
  <2>3. TypeOK'
    BY <1>1, <2>1 DEF TypeOK
  <2>4. OneSlotOwner'
    BY <1>1, <2>1, <2>2 DEF OneSlotOwner, Serving
  <2>5. ~Pending'
    BY <1>1, <2>1 DEF Pending, OneSlotOwner, Serving, Filling
  <2>6. Unanswered(got)'
    BY <1>1, <2>1, <2>2 DEF RequestsInOrder, Unanswered
  <2>7. RequestsInOrder'
    BY <1>1, <2>1, <2>2, <2>5, <2>6 DEF RequestsInOrder
  <2>. QED
    BY <2>3, <2>4, <2>7 DEF Handshake, SlotInOrder
<1>4. CASE StoreResult
  <2>1. /\ wpc = "store" /\ param' = Result(got[2]) /\ replied' = replied \union {got[2]}
        /\ wpc' = "free"
        /\ UNCHANGED <<flags, send, complete, alive, pc, mode, call, calls, got>>
    BY <1>4 DEF StoreResult, caller
  <2>2. Filling' = Filling /\ Unpublished' = Unpublished
    BY <2>1 DEF Filling, Unpublished
  <2>3. /\ got[2] \in Number /\ got[2] \in Nat /\ got[2] <= calls /\ calls \in Nat
        /\ \A c \in Unpublished : call[c] # got[2]
    BY <1>1, <2>1, Payloads DEF RequestsInOrder, Unanswered
  <2>4. got[2] \in 1 .. calls
    BY <2>3 DEF Number
  <2>5. TypeOK'
    BY <1>1, <2>1, <2>3, Payloads DEF TypeOK
  <2>6. OneSlotOwner'
    BY <1>1, <2>1, <2>2 DEF OneSlotOwner, Serving
  <2>7. ~Pending'
    BY <1>1, <2>1 DEF Pending, OneSlotOwner, Serving, Filling
  <2>8. RequestsInOrder'
    BY <1>1, <2>1, <2>2, <2>3, <2>4, <2>7 DEF RequestsInOrder
  <2>. QED
    BY <2>5, <2>6, <2>8 DEF Handshake, SlotInOrder
<1>5. CASE FreeSlot
  <2>1. /\ wpc = "free" /\ flags' = {} /\ wpc' = "signal"
        /\ UNCHANGED <<param, send, complete, alive, pc, mode, call, calls, got, replied>>
    BY <1>1, <1>5 DEF FreeSlot, caller
  <2>2. Filling' = Filling /\ Unpublished' = Unpublished /\ (Pending' => Pending)
    BY <2>1 DEF Filling, Unpublished, Pending
  <2>3. TypeOK'
    BY <1>1, <2>1 DEF TypeOK
  <2>4. OneSlotOwner'
    BY <1>1, <2>1, <2>2 DEF OneSlotOwner, Serving
  <2>5. RequestsInOrder'
    BY <1>1, <2>1, <2>2, NumbersKept
  <2>. QED
    BY <2>3, <2>4, <2>5 DEF Handshake, SlotInOrder
<1>6. CASE SetComplete
  <2>1. /\ wpc = "signal" /\ complete' = TRUE /\ wpc' = "wait"
        /\ UNCHANGED <<flags, param, send, alive, pc, mode, call, calls, got, replied>>
    BY <1>6 DEF SetComplete, slot, caller
  <2>2. Filling' = Filling /\ Unpublished' = Unpublished /\ (Pending' => Pending)
    BY <2>1 DEF Filling, Unpublished, Pending
  <2>3. TypeOK'
    BY <1>1, <2>1 DEF TypeOK
  <2>4. OneSlotOwner'
    BY <1>1, <2>1, <2>2 DEF OneSlotOwner, Serving
  <2>5. RequestsInOrder'
    BY <1>1, <2>1, <2>2, NumbersKept
  <2>. QED
    BY <2>3, <2>4, <2>5 DEF Handshake, SlotInOrder
<1>. QED
  BY <1>2, <1>3, <1>4, <1>5, <1>6 DEF Work

LEMMA InitHandshake == Init => Handshake
<1>. SUFFICES ASSUME Init PROVE Handshake
  OBVIOUS
<1>1. TypeOK
  BY Payloads DEF Init, TypeOK
<1>2. Filling = {} /\ Unpublished = {} /\ ~send /\ ~Serving /\ ~Pending /\ wpc # "store"
  BY DEF Init, Filling, Unpublished, Serving, Pending
<1>3. OneSlotOwner /\ RequestsInOrder
  BY <1>2 DEF Init, OneSlotOwner, RequestsInOrder
<1>. QED
  BY <1>1, <1>3 DEF Handshake, SlotInOrder

LEMMA NextHandshake == Handshake /\ [Next]_vars => Handshake'
<1>. SUFFICES ASSUME Handshake, [Next]_vars PROVE Handshake'
  OBVIOUS
<1>1. CASE \E c \in Caller : \E m \in Mode : Begin(c, m)
  BY <1>1, BeginStep
<1>2. CASE \E c \in Caller : Proceed(c)
  BY <1>2, ReserveStep, PublishStep, FillStep, SetSendStep, AwayStep DEF Proceed
<1>3. CASE Work
  BY <1>3, WorkStep
<1>4. CASE UNCHANGED vars
  <2>1. /\ UNCHANGED <<flags, param, send, complete, alive, pc, mode, call, calls,
                       wpc, got, replied>>
    BY <1>4 DEF vars, slot, caller, worker
  <2>2. TypeOK /\ OneSlotOwner /\ RequestsInOrder
    BY DEF Handshake, SlotInOrder
  <2>3. TypeOK'
    BY <2>1, <2>2 DEF TypeOK
  <2>4. Filling' = Filling /\ Unpublished' = Unpublished /\ (Pending' => Pending)
    BY <2>1 DEF Filling, Unpublished, Pending
  <2>5. OneSlotOwner'
    BY <2>1, <2>2, <2>4 DEF OneSlotOwner, Serving
  <2>6. RequestsInOrder'
    BY <2>1, <2>2, <2>4, NumbersKept
  <2>. QED
    BY <2>3, <2>5, <2>6 DEF Handshake, SlotInOrder
<1>. QED
  BY <1>1, <1>2, <1>3, <1>4 DEF Next

(* CWorkerThread's slot belongs to one party at a time, and its flags say  *)
(* so, through every interleaving of callers, worker and termination.      *)
THEOREM OneOwnerOfTheSlot == Spec => []SlotInOrder
<1>1. Handshake => SlotInOrder
  BY DEF Handshake
<1>. QED
  BY <1>1, InitHandshake, NextHandshake, PTL DEF Spec

(* What WaitForCall takes is a published request that was not answered     *)
(* yet, however many threads call.                                         *)
THEOREM NoneServedTwice == Spec => ServedOnce
<1>1. ASSUME Handshake, TakeParam
      PROVE  param[1] = "request" /\ param[2] \in Number \ replied
  <2>1. Unanswered(param)
    BY <1>1 DEF Handshake, RequestsInOrder, Pending, TakeParam
  <2>. QED
    BY <2>1, Payloads DEF Unanswered
<1>2. Handshake /\ [Next]_vars =>
        [TakeParam => param[1] = "request" /\ param[2] \in Number \ replied]_vars
  BY <1>1
<1>. QED
  BY <1>2, InitHandshake, NextHandshake, PTL DEF Spec, ServedOnce

-----------------------------------------------------------------------------
(* A single caller that waits for every reply.                             *)

LEMMA WaitingIsNext ==
  ASSUME Waiting!Next
  PROVE  Next
<1>1. CASE \E c \in {c1} : \E m \in SyncOnly : Waiting!Begin(c, m)
  <2>1. Begin(c1, "sync")
    BY <1>1 DEF Waiting!Begin, Begin, SyncOnly, Waiting!Goto, Goto, Waiting!slot, slot,
                Waiting!worker, worker
  <2>. QED
    BY <2>1, WaitingAssumption DEF Next
<1>2. CASE Waiting!Proceed(c1)
  <2>1. Proceed(c1)
    BY <1>2 DEF Waiting!Proceed, Proceed, Waiting!Reserve, Reserve, Waiting!Publish, Publish,
                Waiting!Post, Post, Waiting!ResetComplete, ResetComplete,
                Waiting!SetSend, SetSend, Waiting!WaitForReply, WaitForReply,
                Waiting!TimeOut, TimeOut, Waiting!Terminate, Terminate, Waiting!Read, Read,
                Waiting!Goto, Goto, Waiting!slot, slot, Waiting!worker, worker,
                Waiting!Request, Request
  <2>. QED
    BY <2>1, WaitingAssumption DEF Next
<1>3. CASE Waiting!Work
  <2>1. Work
    BY <1>3 DEF Waiting!Work, Work, Waiting!WaitForCall, WaitForCall,
                Waiting!TakeParam, TakeParam, Waiting!StoreResult, StoreResult,
                Waiting!FreeSlot, FreeSlot, Waiting!SetComplete, SetComplete,
                Waiting!slot, slot, Waiting!caller, caller, Waiting!Result, Result
  <2>. QED
    BY <2>1 DEF Next
<1>. QED
  BY <1>1, <1>2, <1>3 DEF Waiting!Next

LEMMA MCIsSpec == MCInit /\ [][MCNext]_allVars => Spec
<1>1. MCInit => Init
  BY DEF MCInit
<1>2. [MCNext]_allVars => [Next]_vars
  BY WaitingIsNext DEF MCNext, allVars
<1>. QED
  BY <1>1, <1>2, PTL DEF Spec

(* Caller and worker take turns.                                           *)
LEMMA TurnsBegin ==
  ASSUME TypeOK, TakeTurns, Waiting!Begin(c1, "sync")
  PROVE  TakeTurns'
<1>1. /\ pc[c1] = "idle" /\ alive /\ calls < MaxCalls
      /\ call' = [call EXCEPT ![c1] = calls + 1] /\ mode' = [mode EXCEPT ![c1] = "sync"]
      /\ pc' = [pc EXCEPT ![c1] = "reserve"]
      /\ UNCHANGED <<flags, param, send, complete, alive, wpc, got, replied>>
  BY DEF Waiting!Begin, Waiting!Goto, Waiting!slot, Waiting!worker
<1>2. calls + 1 \in Number /\ calls \in Number \union {0}
  BY <1>1, CallsAssumption DEF TypeOK, Number
<1>3. /\ pc'[c1] = "reserve" /\ mode'[c1] = "sync" /\ call'[c1] \in Number
      /\ \A c \in Caller \ {c1} : pc'[c] = pc[c]
  BY <1>1, <1>2, WaitingAssumption DEF TypeOK
<1>. QED
  BY <1>1, <1>3 DEF TakeTurns, Rests

LEMMA TurnsProceed ==
  ASSUME TypeOK, TakeTurns, Waiting!Proceed(c1)
  PROVE  TakeTurns'
<1>1. /\ alive /\ mode[c1] = "sync" /\ call[c1] \in Number
      /\ pc[c1] \notin {"wait", "terminate"} => Rests
      /\ pc[c1] \in {"post", "reset", "send"} => param = Request(call[c1])
      /\ pc[c1] \in {"wait", "terminate"} => Underway
  BY DEF TakeTurns, Waiting!Proceed, Waiting!Reserve, Waiting!Publish, Waiting!Post,
         Waiting!ResetComplete, Waiting!SetSend, Waiting!WaitForReply, Waiting!TimeOut,
         Waiting!Terminate, Waiting!Read
<1>2. \A l : pc' = [pc EXCEPT ![c1] = l] =>
        pc'[c1] = l /\ \A c \in Caller \ {c1} : pc'[c] = pc[c] /\ pc'[c] = "idle"
  BY WaitingAssumption DEF TypeOK, TakeTurns
<1>3. CASE Waiting!Reserve(c1)
  <2>1. PICK l \in {"publish", "idle"} :
          /\ pc[c1] = "reserve" /\ pc' = [pc EXCEPT ![c1] = l]
          /\ UNCHANGED <<param, send, complete, alive, mode, call, calls, wpc, got>>
    BY <1>3 DEF Waiting!Reserve, Waiting!Goto, Waiting!worker
  <2>. QED
    BY <1>1, <1>2, <2>1 DEF TakeTurns, Rests
<1>4. CASE Waiting!Publish(c1)
  <2>1. /\ pc[c1] = "publish" /\ pc' = [pc EXCEPT ![c1] = "post"]
        /\ param' = Request(call[c1])
        /\ UNCHANGED <<send, complete, alive, mode, call, calls, wpc, got>>
    BY <1>4 DEF Waiting!Publish, Waiting!Goto, Waiting!worker, Waiting!Request, Request
  <2>. QED
    BY <1>1, <1>2, <2>1 DEF TakeTurns, Rests, Request
<1>5. CASE Waiting!Post(c1) \/ Waiting!ResetComplete(c1)
  <2>1. PICK l \in {"reset", "send"} :
          /\ pc[c1] \in {"post", "reset"} /\ pc' = [pc EXCEPT ![c1] = l]
          /\ complete' = complete \/ complete' = FALSE
          /\ UNCHANGED <<param, send, alive, mode, call, calls, wpc, got>>
    <3>1. CASE Waiting!Post(c1)
      BY <3>1 DEF Waiting!Post, Waiting!Goto, Waiting!worker
    <3>2. CASE Waiting!ResetComplete(c1)
      BY <3>2 DEF Waiting!ResetComplete, Waiting!Goto, Waiting!worker, Waiting!slot
    <3>. QED
      BY <1>5, <3>1, <3>2
  <2>. QED
    BY <1>1, <1>2, <2>1 DEF TakeTurns, Rests, Request
<1>6. CASE Waiting!SetSend(c1)
  <2>1. /\ pc[c1] = "send" /\ pc' = [pc EXCEPT ![c1] = "wait"] /\ send' = TRUE
        /\ UNCHANGED <<param, complete, alive, mode, call, calls, wpc, got>>
    BY <1>1, <1>6 DEF Waiting!SetSend, Waiting!Goto, Waiting!worker, Waiting!slot
  <2>2. Underway'
    BY <1>1, <2>1 DEF Underway, Rests, Request
  <2>. QED
    BY <1>1, <1>2, <2>1, <2>2 DEF TakeTurns
<1>7. CASE Waiting!WaitForReply(c1)
  <2>1. /\ pc[c1] = "wait" /\ pc' = [pc EXCEPT ![c1] = "read"] /\ complete /\ complete' = FALSE
        /\ UNCHANGED <<param, send, alive, mode, call, calls, wpc, got>>
    BY <1>7 DEF Waiting!WaitForReply, Waiting!Goto, Waiting!worker, Waiting!slot
  <2>2. wpc = "wait" /\ ~send /\ param = Result(call[c1])
    BY <1>1, <2>1 DEF Underway
  <2>. QED
    BY <1>1, <1>2, <2>1, <2>2 DEF TakeTurns, Rests, Result
<1>8. CASE Waiting!TimeOut(c1)
  <2>1. /\ pc[c1] = "wait" /\ pc' = [pc EXCEPT ![c1] = "terminate"]
        /\ UNCHANGED <<param, send, complete, alive, mode, call, calls, wpc, got>>
    BY <1>8 DEF Waiting!TimeOut, Waiting!Goto, Waiting!worker, Waiting!slot
  <2>2. Underway'
    BY <1>1, <2>1 DEF Underway, Request, Result
  <2>. QED
    BY <1>1, <1>2, <2>1, <2>2 DEF TakeTurns
<1>9. CASE Waiting!Terminate(c1)
  <2>1. /\ pc[c1] = "terminate" /\ pc' = [pc EXCEPT ![c1] = "idle"]
        /\ alive' = FALSE /\ wpc' = "dead"
        /\ UNCHANGED <<param, send, complete, mode, call, calls, got>>
    BY <1>1, <1>9 DEF Waiting!Terminate, Waiting!Goto, Waiting!slot
  <2>. QED
    BY <1>1, <1>2, <2>1 DEF TakeTurns
<1>10. CASE Waiting!Read(c1)
  <2>1. /\ pc[c1] = "read" /\ pc' = [pc EXCEPT ![c1] = "idle"]
        /\ UNCHANGED <<param, send, complete, alive, mode, call, calls, wpc, got>>
    BY <1>10 DEF Waiting!Read, Waiting!Goto, Waiting!worker, Waiting!slot
  <2>. QED
    BY <1>1, <1>2, <2>1 DEF TakeTurns, Rests
<1>. QED
  BY <1>3, <1>4, <1>5, <1>6, <1>7, <1>8, <1>9, <1>10 DEF Waiting!Proceed

LEMMA TurnsWork ==
  ASSUME TypeOK, TakeTurns, Waiting!Work
  PROVE  TakeTurns'
<1>1. /\ UNCHANGED <<pc, mode, call, alive>> /\ wpc # "dead"
      /\ wpc = "wait" => send
  BY DEF Waiting!Work, Waiting!WaitForCall, Waiting!TakeParam, Waiting!StoreResult,
         Waiting!FreeSlot, Waiting!SetComplete, Waiting!caller
<1>2. alive /\ pc[c1] \in {"wait", "terminate"} /\ Underway
  BY <1>1 DEF TakeTurns, Rests
<1>3. Underway'
  <2>1. CASE Waiting!WaitForCall
    BY <1>2, <2>1 DEF Waiting!WaitForCall, Waiting!slot, Waiting!caller, Underway, Request
  <2>2. CASE Waiting!TakeParam
    BY <1>2, <2>2 DEF Waiting!TakeParam, Waiting!slot, Waiting!caller, Underway, Request
  <2>3. CASE Waiting!StoreResult
    BY <1>2, <2>3 DEF Waiting!StoreResult, Waiting!slot, Waiting!caller, Underway,
                      Request, Result, Waiting!Result
  <2>4. CASE Waiting!FreeSlot
    BY <1>2, <2>4 DEF Waiting!FreeSlot, Waiting!slot, Waiting!caller, Underway, Result
  <2>5. CASE Waiting!SetComplete
    BY <1>2, <2>5 DEF Waiting!SetComplete, Waiting!slot, Waiting!caller, Underway, Result
  <2>. QED
    BY <2>1, <2>2, <2>3, <2>4, <2>5 DEF Waiting!Work
<1>. QED
  BY <1>1, <1>2, <1>3 DEF TakeTurns

LEMMA MCInitIInv == MCInit => IInv
<1>. SUFFICES ASSUME MCInit PROVE IInv
  OBVIOUS
<1>1. TakeTurns
  BY WaitingAssumption DEF MCInit, Init, TakeTurns, Rests
<1>. QED
  BY <1>1, InitHandshake DEF MCInit, IInv, Handshake

LEMMA MCNextIInv == IInv /\ [MCNext]_allVars => IInv'
<1>. SUFFICES ASSUME IInv, [MCNext]_allVars PROVE IInv'
  OBVIOUS
<1>1. [Next]_vars /\ waiting' = waiting
  BY WaitingIsNext DEF MCNext, allVars
<1>2. Handshake' /\ TypeOK
  BY <1>1, NextHandshake DEF IInv, Handshake, SlotInOrder
<1>3. ASSUME waiting PROVE TakeTurns'
  <2>1. TakeTurns
    BY <1>3 DEF IInv
  <2>2. CASE Waiting!Next
    <3>1. CASE \E c \in {c1} : \E m \in SyncOnly : Waiting!Begin(c, m)
      BY <1>2, <2>1, <3>1, TurnsBegin DEF SyncOnly
    <3>. QED
      BY <1>2, <2>1, <2>2, <3>1, TurnsProceed, TurnsWork DEF Waiting!Next
  <2>3. CASE UNCHANGED vars
    BY <2>1, <2>3 DEF vars, slot, caller, worker, TakeTurns, Rests, Underway, Request, Result
  <2>. QED
    BY <1>3, <2>2, <2>3 DEF MCNext, allVars
<1>. QED
  BY <1>1, <1>2, <1>3 DEF IInv, Handshake

(* One owner of the slot, requests in order, and turns taken where a       *)
(* single caller waits, in CWorkerThread's Call, WaitForCall and Reply.    *)
THEOREM HandshakeInvariance == MCSpec => []IInv
<1>. QED
  BY MCInitIInv, MCNextIInv, PTL DEF MCSpec

(* A synchronous CallWorker gets the result of its own request, so long as *)
(* its thread is the only one to call and always waits.                    *)
THEOREM OwnReplyAlways == MCSpec => []OwnReplyWhenWaiting
<1>1. IInv => OwnReplyWhenWaiting
  BY WaitingAssumption DEF IInv, OwnReplyWhenWaiting, OwnReply, TakeTurns
<1>. QED
  BY <1>1, HandshakeInvariance, PTL

(* Such a caller times out, and terminates the worker, only while the      *)
(* worker still has the request: the auto-reset event loses no reply.      *)
THEOREM NoReplyLost == MCSpec => NoLostReply
<1>1. ASSUME IInv, [MCNext]_allVars
      PROVE  [waiting => TimesOutUnanswered]_allVars
  <2>1. ASSUME waiting, NEW c \in Caller, TimeOut(c) PROVE send \/ wpc # "wait"
    <3>1. pc[c] = "wait" /\ ~complete
      BY <2>1 DEF TimeOut
    <3>2. c = c1 /\ Underway
      BY <1>1, <2>1, <3>1 DEF IInv, TakeTurns
    <3>. QED
      BY <3>1, <3>2 DEF Underway
  <2>. QED
    BY <2>1 DEF TimesOutUnanswered
<1>. QED
  BY <1>1, HandshakeInvariance, PTL DEF MCSpec, NoLostReply

=============================================================================
