--------------------------- MODULE CanTx_proofs ---------------------------
(***************************************************************************)
(* Proofs about CanTx, for any number of slots and both drivers.           *)
(***************************************************************************)
EXTENDS CanTx, TLAPS

(* Between two interrupts the h7 keeps on its books what is still pending: *)
(* anything else has raised a flag the handler has not yet acknowledged.   *)
BooksOK ==
    /\ isr # "report" => done = {}
    /\ isr # "idle" => listening
    /\ H7 /\ listening /\ isr # "ack" => flag \/ \A s \in booked \ request : owed[s] = "thrown"

(* The slot of a call under way is its own.                                *)
SlotOK ==
    ~sends =>
        /\ pc \in {"fill", "request"} =>
              /\ slot \notin request
              /\ ~H7 => slot \notin done
              /\ ~H7 /\ listening => slot \notin booked
              /\ listening => owed[slot] \in {"none", "thrown"}
        /\ pc \in {"wait", "look", "kept"} => blocking
        /\ pc \in {"look", "kept"} => slot \notin request
        /\ pc = "kept" => slot \notin success

(* What the listener is still to hear of a slot is what the registers say. *)
OwedOK ==
    ~sends =>
        /\ request \cap success = {} /\ request \cap done = {} /\ booked \cap done = {}
        /\ ~listening => \A s \in Slots : owed[s] = "none"
        /\ listening /\ H7 => request \subseteq booked
        /\ listening =>
              \A s \in Slots :
                 /\ owed[s] # "confused"
                 /\ owed[s] = "queued" <=> s \in request
                 /\ owed[s] \in {"sent", "lost", "thrown"} <=> s \in booked \ request
                 /\ owed[s] = "sent" => s \in success
                 /\ owed[s] \in {"lost", "thrown"} => s \notin success

(* The outcome of a frame is in its success flag, on its way through the   *)
(* handler, or kept in tx_ok.                                              *)
Visible(s) ==
    \/ s \in success
    \/ ~H7 /\ IF s \in done THEN s \in good ELSE s \in tx_ok

(* The fate of the frame of a blocking call, seen from the call.           *)
FateOK ==
    ~sends /\ blocking =>
        /\ pc = "fill" => \A s \in Slots : box[s] # "mine"
        /\ pc \in {"request", "wait", "look", "kept"} =>
              \A s \in Slots : box[s] = "mine" <=> s = slot
        /\ pc = "request" /\ ~H7 => slot \notin tx_ok
        /\ pc \in {"wait", "look", "kept"} =>
              /\ fate = "queued" <=> slot \in request
              /\ fate \in {"queued", "sent", "lost"}
              /\ fate = "sent" <=> Visible(slot)
              /\ ~H7 /\ slot \in booked \cup done => slot \notin tx_ok
        /\ pc = "idle" /\ ret \in {"true", "false"} =>
              \A s \in Slots : box[s] = "mine" => s \notin request
        /\ pc = "idle" /\ ret = "true" => fate = "sent"
        /\ pc = "idle" /\ ret = "false" => fate \in {"none", "lost"}

Inv == TypeOK /\ BooksOK /\ SlotOK /\ OwedOK /\ FateOK

(* Every variable keeps its type.                                          *)
LEMMA TypeInit == Init => TypeOK
  BY DEF Init, TypeOK

(* A request keeps the types of what it changes.                           *)
LEMMA RequestedType ==
  ASSUME NEW s \in Slots, TypeOK, Requested(s)
  PROVE  /\ request' \subseteq Slots /\ success' \subseteq Slots /\ booked' \subseteq Slots
         /\ owed' \in [Slots -> {"none", "queued", "sent", "lost", "thrown", "confused"}]
  BY DEF TypeOK, Requested, H7

(* Every step keeps the types.                                             *)
LEMMA TypeStep == TypeOK /\ [Next]_vars => TypeOK'
<1> SUFFICES ASSUME TypeOK, [Next]_vars PROVE TypeOK'
  OBVIOUS
<1> USE DEF TypeOK, config, bus, task, H7
<1>1. ASSUME NEW s \in Slots, NEW sent \in BOOLEAN, FrameEnds(s, sent) PROVE TypeOK'
  BY <1>1 DEF FrameEnds
<1>2. CASE IsrAck
  BY <1>2 DEF IsrAck
<1>3. CASE IsrTake
  BY <1>3 DEF IsrTake, Done
<1>4. CASE IsrReport
  BY <1>4 DEF IsrReport, Reported, Outcome
<1>5. CASE IsrReportSend
  <2> PICK s \in Slots, n \in Free :
          /\ done' = done \ {s} /\ tx_ok' = Outcome(s) \ {n}
          /\ box' = [box EXCEPT ![n] = "other"]
          /\ Requested(n)
    BY <1>5 DEF IsrReportSend
  <2>1. n \in Slots
    BY DEF Free
  <2>2. /\ request' \subseteq Slots /\ success' \subseteq Slots /\ booked' \subseteq Slots
        /\ owed' \in [Slots -> {"none", "queued", "sent", "lost", "thrown", "confused"}]
    BY <2>1, RequestedType
  <2>3. /\ box' \in [Slots -> {"none", "mine", "other"}]
        /\ done' \subseteq Slots /\ tx_ok' \subseteq Slots
    BY <2>1 DEF Outcome
  <2>4. UNCHANGED <<config, bus, listening, flag, isr, good, task, fate>>
    BY <1>5 DEF IsrReportSend
  <2> QED BY <2>2, <2>3, <2>4
<1>6. CASE IsrExit
  BY <1>6 DEF IsrExit, Kept
<1>7. CASE Start
  BY <1>7 DEF Start
<1>8. CASE BusOff
  BY <1>8 DEF BusOff
<1>9. CASE Stop
  BY <1>9 DEF Stop
<1>10. CASE SetTxCallback
  BY <1>10 DEF SetTxCallback, Forget
<1>11. CASE TransmitAbort
  BY <1>11 DEF TransmitAbort
<1>12. ASSUME NEW wait \in BOOLEAN, Transmit(wait) PROVE TypeOK'
  BY <1>12 DEF Transmit, Free
<1>13. CASE Fill
  BY <1>13 DEF Fill, ForgetOutcome
<1>14. CASE Request
  BY <1>14 DEF Request, Requested, ForgetOutcome
<1>15. CASE Expire
  BY <1>15 DEF Expire
<1>16. CASE WaitDone
  BY <1>16 DEF WaitDone
<1>17. CASE Look
  BY <1>17 DEF Look, Succeeded
<1>18. CASE WaitTimeout
  BY <1>18 DEF WaitTimeout, GiveUp
<1>19. CASE UNCHANGED vars
  BY <1>19 DEF vars
<1> QED
  BY <1>1, <1>2, <1>3, <1>4, <1>5, <1>6, <1>7, <1>8, <1>9, <1>10, <1>11, <1>12, <1>13, <1>14, <1>15, <1>16, <1>17, <1>18, <1>19 DEF Next, Handler, Call

(* The program keeps the types of its state.                              *)
THEOREM TypeCorrect == Spec => []TypeOK
  BY TypeInit, TypeStep, PTL DEF Spec

(* The handler keeps the books.                                            *)
LEMMA BooksStep == TypeOK /\ BooksOK /\ SlotOK /\ [Next]_vars => BooksOK'
<1> SUFFICES ASSUME TypeOK /\ BooksOK /\ SlotOK, [Next]_vars PROVE BooksOK'
  OBVIOUS
<1> USE DEF TypeOK, BooksOK, config, bus, task, H7
<1>1. ASSUME NEW s \in Slots, NEW sent \in BOOLEAN, FrameEnds(s, sent) PROVE BooksOK'
  BY <1>1 DEF FrameEnds
<1>2. CASE IsrAck
  BY <1>2 DEF IsrAck, TaskRuns, IrqPending
<1>3. CASE IsrTake
  BY <1>3 DEF IsrTake, Done
<1>4. CASE IsrReport
  BY <1>4 DEF IsrReport, Reported, Outcome
<1>5. CASE IsrReportSend
  BY <1>5 DEF IsrReportSend, Reported, Outcome, Requested, Free
<1>6. CASE IsrExit
  BY <1>6 DEF IsrExit, Kept
<1>7. CASE Start
  BY <1>7 DEF Start, TaskRuns, IrqPending
<1>8. CASE BusOff
  BY <1>8 DEF BusOff
<1>9. CASE Stop
  BY <1>9 DEF Stop, TaskRuns, IrqPending
<1>10. CASE SetTxCallback
  BY <1>10 DEF SetTxCallback, Forget, TaskRuns, IrqPending
<1>11. CASE TransmitAbort
  BY <1>11 DEF TransmitAbort, TaskRuns, IrqPending
<1>12. ASSUME NEW wait \in BOOLEAN, Transmit(wait) PROVE BooksOK'
  BY <1>12 DEF Transmit, Free, TaskRuns, IrqPending
<1>13. CASE Fill
  BY <1>13 DEF Fill, ForgetOutcome, TaskRuns, IrqPending
<1>14. CASE Request
  BY <1>14 DEF Request, Requested, ForgetOutcome, TaskRuns, IrqPending
<1>15. CASE Expire
  BY <1>15 DEF Expire
<1>16. CASE WaitDone
  BY <1>16 DEF WaitDone, TaskRuns, IrqPending
<1>17. CASE Look
  BY <1>17 DEF Look, Succeeded, TaskRuns, IrqPending
<1>18. CASE WaitTimeout
  BY <1>18 DEF WaitTimeout, GiveUp, TaskRuns, IrqPending
<1>19. CASE UNCHANGED vars
  BY <1>19 DEF vars
<1> QED
  BY <1>1, <1>2, <1>3, <1>4, <1>5, <1>6, <1>7, <1>8, <1>9, <1>10, <1>11, <1>12, <1>13, <1>14, <1>15, <1>16, <1>17, <1>18, <1>19 DEF Next, Handler, Call

(* A call has its slot to itself.                                          *)
LEMMA SlotStep == TypeOK /\ BooksOK /\ SlotOK /\ OwedOK /\ [Next]_vars => SlotOK'
<1> SUFFICES ASSUME TypeOK /\ BooksOK /\ SlotOK /\ OwedOK, [Next]_vars PROVE SlotOK'
  OBVIOUS
<1> USE DEF TypeOK, BooksOK, SlotOK, OwedOK, config, bus, task, H7
<1>1. ASSUME NEW s \in Slots, NEW sent \in BOOLEAN, FrameEnds(s, sent) PROVE SlotOK'
  BY <1>1 DEF FrameEnds
<1>2. CASE IsrAck
  BY <1>2 DEF IsrAck, TaskRuns, IrqPending
<1>3. CASE IsrTake
  BY <1>3 DEF IsrTake, Done
<1>4. CASE IsrReport
  BY <1>4 DEF IsrReport, Reported, Outcome
<1>5. CASE IsrReportSend
  BY <1>5 DEF IsrReportSend, Reported, Outcome, Requested, Free
<1>6. CASE IsrExit
  BY <1>6 DEF IsrExit, Kept
<1>7. CASE Start
  BY <1>7 DEF Start, TaskRuns, IrqPending
<1>8. CASE BusOff
  BY <1>8 DEF BusOff
<1>9. CASE Stop
  BY <1>9 DEF Stop, TaskRuns, IrqPending
<1>10. CASE SetTxCallback
  BY <1>10 DEF SetTxCallback, Forget, TaskRuns, IrqPending
<1>11. CASE TransmitAbort
  BY <1>11 DEF TransmitAbort, TaskRuns, IrqPending
<1>12. ASSUME NEW wait \in BOOLEAN, Transmit(wait) PROVE SlotOK'
  BY <1>12 DEF Transmit, Free, TaskRuns, IrqPending
<1>13. CASE Fill
  BY <1>13 DEF Fill, ForgetOutcome, TaskRuns, IrqPending
<1>14. CASE Request
  BY <1>14 DEF Request, Requested, ForgetOutcome, TaskRuns, IrqPending
<1>15. CASE Expire
  BY <1>15 DEF Expire
<1>16. CASE WaitDone
  BY <1>16 DEF WaitDone, TaskRuns, IrqPending
<1>17. CASE Look
  BY <1>17 DEF Look, Succeeded, TaskRuns, IrqPending
<1>18. CASE WaitTimeout
  BY <1>18 DEF WaitTimeout, GiveUp, TaskRuns, IrqPending
<1>19. CASE UNCHANGED vars
  BY <1>19 DEF vars
<1> QED
  BY <1>1, <1>2, <1>3, <1>4, <1>5, <1>6, <1>7, <1>8, <1>9, <1>10, <1>11, <1>12, <1>13, <1>14, <1>15, <1>16, <1>17, <1>18, <1>19 DEF Next, Handler, Call

(* The handler sees every frame once, with its outcome.                    *)
LEMMA OwedStep == TypeOK /\ BooksOK /\ SlotOK /\ OwedOK /\ [Next]_vars => OwedOK'
<1> SUFFICES ASSUME TypeOK /\ BooksOK /\ SlotOK /\ OwedOK, [Next]_vars PROVE OwedOK'
  OBVIOUS
<1> USE DEF TypeOK, BooksOK, SlotOK, OwedOK, config, bus, task, H7
<1>1. ASSUME NEW s \in Slots, NEW sent \in BOOLEAN, FrameEnds(s, sent) PROVE OwedOK'
  BY <1>1 DEF FrameEnds
<1>2. CASE IsrAck
  BY <1>2 DEF IsrAck, TaskRuns, IrqPending
<1>3. CASE IsrTake
  BY <1>3 DEF IsrTake, Done
<1>4. CASE IsrReport
  BY <1>4 DEF IsrReport, Reported, Outcome
<1>5. CASE IsrReportSend
  BY <1>5 DEF IsrReportSend, Reported, Outcome, Requested, Free
<1>6. CASE IsrExit
  BY <1>6 DEF IsrExit, Kept
<1>7. CASE Start
  BY <1>7 DEF Start, TaskRuns, IrqPending
<1>8. CASE BusOff
  BY <1>8 DEF BusOff
<1>9. CASE Stop
  BY <1>9 DEF Stop, TaskRuns, IrqPending
<1>10. CASE SetTxCallback
  BY <1>10 DEF SetTxCallback, Forget, TaskRuns, IrqPending
<1>11. CASE TransmitAbort
  BY <1>11 DEF TransmitAbort, TaskRuns, IrqPending
<1>12. ASSUME NEW wait \in BOOLEAN, Transmit(wait) PROVE OwedOK'
  BY <1>12 DEF Transmit, Free, TaskRuns, IrqPending
<1>13. CASE Fill
  BY <1>13 DEF Fill, ForgetOutcome, TaskRuns, IrqPending
<1>14. CASE Request
  BY <1>14 DEF Request, Requested, ForgetOutcome, TaskRuns, IrqPending
<1>15. CASE Expire
  BY <1>15 DEF Expire
<1>16. CASE WaitDone
  BY <1>16 DEF WaitDone, TaskRuns, IrqPending
<1>17. CASE Look
  BY <1>17 DEF Look, Succeeded, TaskRuns, IrqPending
<1>18. CASE WaitTimeout
  BY <1>18 DEF WaitTimeout, GiveUp, TaskRuns, IrqPending
<1>19. CASE UNCHANGED vars
  BY <1>19 DEF vars
<1> QED
  BY <1>1, <1>2, <1>3, <1>4, <1>5, <1>6, <1>7, <1>8, <1>9, <1>10, <1>11, <1>12, <1>13, <1>14, <1>15, <1>16, <1>17, <1>18, <1>19 DEF Next, Handler, Call

(* The call sees the fate of its frame.                                    *)
LEMMA FateStep == TypeOK /\ BooksOK /\ SlotOK /\ OwedOK /\ FateOK /\ [Next]_vars => FateOK'
<1> SUFFICES ASSUME TypeOK /\ BooksOK /\ SlotOK /\ OwedOK /\ FateOK, [Next]_vars PROVE FateOK'
  OBVIOUS
<1> USE DEF TypeOK, BooksOK, SlotOK, OwedOK, FateOK, Visible, config, bus, task, H7
<1>1. ASSUME NEW s \in Slots, NEW sent \in BOOLEAN, FrameEnds(s, sent) PROVE FateOK'
  BY <1>1 DEF FrameEnds
<1>2. CASE IsrAck
  BY <1>2 DEF IsrAck, TaskRuns, IrqPending
<1>3. CASE IsrTake
  BY <1>3 DEF IsrTake, Done
<1>4. CASE IsrReport
  <2> PICK s \in Slots : Reported(s) /\ done' = done \ {s} /\ tx_ok' = Outcome(s)
    BY <1>4 DEF IsrReport
  <2>1. UNCHANGED <<config, bus, listening, box, request, success, booked, flag, isr, good,
                    task, fate, owed>>
    BY <1>4 DEF IsrReport
  <2>2. Visible(slot)' <=> Visible(slot)
    BY <2>1 DEF Reported, Outcome
  <2>3. ~sends /\ slot \in (booked \cup done)' /\ slot \notin tx_ok => slot \notin tx_ok'
    BY <2>1 DEF Reported, Outcome
  <2>4. ~sends /\ ~H7 /\ pc = "request" /\ slot \notin tx_ok => slot \notin tx_ok'
    BY <2>1 DEF Reported, Outcome
  <2>5. H7' = H7 /\ (slot \in request)' = (slot \in request)
    BY <2>1
  <2>6. slot \in (booked \cup done)' => slot \in booked \cup done
    BY <2>1
  <2> HIDE DEF Visible, H7
  <2> QED BY <2>1, <2>2, <2>3, <2>4, <2>5, <2>6
<1>5. CASE IsrReportSend
  BY <1>5 DEF IsrReportSend, Reported, Outcome, Requested, Free
<1>6. CASE IsrExit
  BY <1>6 DEF IsrExit, Kept
<1>7. CASE Start
  BY <1>7 DEF Start, TaskRuns, IrqPending
<1>8. CASE BusOff
  BY <1>8 DEF BusOff
<1>9. CASE Stop
  BY <1>9 DEF Stop, TaskRuns, IrqPending
<1>10. CASE SetTxCallback
  BY <1>10 DEF SetTxCallback, Forget, TaskRuns, IrqPending
<1>11. CASE TransmitAbort
  BY <1>11 DEF TransmitAbort, TaskRuns, IrqPending
<1>12. ASSUME NEW wait \in BOOLEAN, Transmit(wait) PROVE FateOK'
  BY <1>12 DEF Transmit, Free, TaskRuns, IrqPending
<1>13. CASE Fill
  BY <1>13 DEF Fill, ForgetOutcome, TaskRuns, IrqPending
<1>14. CASE Request
  BY <1>14 DEF Request, Requested, ForgetOutcome, TaskRuns, IrqPending
<1>15. CASE Expire
  BY <1>15 DEF Expire
<1>16. CASE WaitDone
  BY <1>16 DEF WaitDone, TaskRuns, IrqPending
<1>17. CASE Look
  BY <1>17 DEF Look, Succeeded, TaskRuns, IrqPending
<1>18. CASE WaitTimeout
  BY <1>18 DEF WaitTimeout, GiveUp, TaskRuns, IrqPending
<1>19. CASE UNCHANGED vars
  BY <1>19 DEF vars
<1> QED
  BY <1>1, <1>2, <1>3, <1>4, <1>5, <1>6, <1>7, <1>8, <1>9, <1>10, <1>11, <1>12, <1>13, <1>14, <1>15, <1>16, <1>17, <1>18, <1>19 DEF Next, Handler, Call

(* Initially nothing is sent.                                              *)
LEMMA InvInit == Init => Inv
  BY TypeInit DEF Init, Inv, BooksOK, SlotOK, OwedOK, FateOK, Visible, TypeOK, H7

(* The books, slots and outcomes stay in order.                            *)
THEOREM Invariance == Spec => []Inv
<1>1. Inv /\ [Next]_vars => Inv'
  BY TypeStep, BooksStep, SlotStep, OwedStep, FateStep DEF Inv
<1> QED BY InvInit, <1>1, PTL DEF Spec

(* uni_hal_can_transmit tells the truth about its own frame.               *)
THEOREM OutcomeIsTold == Spec => []OutcomeTold
<1>1. Inv => OutcomeTold
  BY DEF Inv, TypeOK, FateOK, OutcomeTold
<1> QED BY <1>1, Invariance, PTL

(* As long as only the task sends, the callback hears of every frame once. *)
THEOREM FramesAreReported == Spec => []TaskFramesReported
<1>1. Inv => TaskFramesReported
  BY DEF Inv, TypeOK, BooksOK, OwedOK, TaskFramesReported, EveryFrameReported, TaskRuns,
         IrqPending, H7
<1> QED BY <1>1, Invariance, PTL

(* Nothing that is done waits without an interrupt, whoever sends.         *)
THEOREM NothingIsLeftBehind == Spec => []NothingLeftBehind
<1>1. Inv => NothingLeftBehind
  BY DEF Inv, TypeOK, BooksOK, NothingLeftBehind, TaskRuns, IrqPending, H7
<1> QED BY <1>1, Invariance, PTL
=============================================================================
