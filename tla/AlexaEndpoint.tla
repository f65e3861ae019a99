--------------------------- MODULE AlexaEndpoint ---------------------------
(***************************************************************************)
(* The handler of POST /alexa in alexa.go, over the capture store: read    *)
(* the body once, verify, capture, answer.  Requests are served            *)
(* concurrently.  The verifier is represented by its verdict, which module *)
(* Verifier is about; the skill's answer by its status.  A crash loses     *)
(* every request in flight and the count of rejections, not the disk.      *)
(***************************************************************************)
EXTENDS Capture, FiniteSets

CONSTANT Verdicts   \* what verifier.Verify may return

ASSUME VerdictsAssumption == "nil" \in Verdicts

VARIABLES
  handler,    \* the state of each request
  rejected    \* the closure's counter

endpointVars == <<disk, save, handler, rejected>>

Waiting == [pc |-> "idle"]

-----------------------------------------------------------------------------
(* Steps                                                                   *)

EndpointInit ==
  /\ CaptureInit
  /\ handler = [p \in Procs |-> Waiting]
  /\ rejected = 0

\* rejectUnverified, and the count that goes with it.
Rejected(h) == [h EXCEPT !.pc = "answered", !.status = 400]

Arrived(at, encodes) ==
  [pc |-> "verify", at |-> at, encodes |-> encodes, verdict |-> "none", status |-> 0]

\* Receipt: the body is read to the end, or is too long or breaks off, and a
\* body that was not read in full is refused without being verified.
Receive(p, at, full, encodes) ==
  /\ handler[p] = Waiting
  /\ handler' = [handler EXCEPT ![p] = IF full THEN Arrived(at, encodes)
                                       ELSE Rejected(Arrived(at, encodes))]
  /\ rejected' = IF full THEN rejected ELSE rejected + 1
  /\ UNCHANGED captureVars

\* Deliberate mistake: the body is captured whatever the verdict.
VerifiedCapturesAll(p, verdict) ==
  /\ handler[p].pc = "verify"
  /\ handler' = [handler EXCEPT ![p] = [@ EXCEPT !.pc = "capture", !.verdict = verdict]]
  /\ UNCHANGED <<captureVars, rejected>>

\* verifier.Verify returns.
Verified(p, verdict) ==
  LET judged == [handler[p] EXCEPT !.verdict = verdict] IN
  /\ handler[p].pc = "verify"
  /\ handler' = [handler EXCEPT ![p] = IF verdict = "nil" THEN [judged EXCEPT !.pc = "capture"]
                                       ELSE Rejected(judged)]
  /\ rejected' = IF verdict = "nil" THEN rejected ELSE rejected + 1
  /\ UNCHANGED captureVars

\* Deliberate mistake: the capture does not wait for the verdict.
StartSaveEarly(p, suffix, prepared) ==
  /\ handler[p].pc \in {"verify", "capture"}
  /\ Begin(p, handler[p].at, suffix, prepared)
  /\ UNCHANGED <<handler, rejected>>

\* store.Save is called with the time of receipt.
StartSave(p, suffix, prepared) ==
  /\ handler[p].pc = "capture"
  /\ Begin(p, handler[p].at, suffix, prepared)
  /\ UNCHANGED <<handler, rejected>>

\* store.Save at work.
ContinueSave(p) ==
  /\ SaveStep(p)
  /\ UNCHANGED <<handler, rejected>>

SaveReturned(p) == save[p] # NoSave /\ save[p].pc = "returned"

\* Deliberate mistake: a failed capture is answered as a failure.
RespondToCapture(p) ==
  /\ handler[p].pc = "capture"
  /\ SaveReturned(p)
  /\ handler' = [handler EXCEPT ![p] =
       [@ EXCEPT !.pc = "answered", !.status = IF handler[p].encodes /\ save[p].ok THEN 200 ELSE 500]]
  /\ UNCHANGED <<captureVars, rejected>>

\* Deliberate mistake: there is no answer without a capture.
RespondIfSaved(p) ==
  /\ handler[p].pc = "capture"
  /\ SaveReturned(p)
  /\ save[p].ok
  /\ handler' = [handler EXCEPT ![p] =
       [@ EXCEPT !.pc = "answered", !.status = IF handler[p].encodes THEN 200 ELSE 500]]
  /\ UNCHANGED <<captureVars, rejected>>

\* The answer, whatever became of the capture: 200, or 500 when the skill's
\* envelope does not encode.
Respond(p) ==
  /\ handler[p].pc = "capture"
  /\ SaveReturned(p)
  /\ handler' = [handler EXCEPT ![p] =
       [@ EXCEPT !.pc = "answered", !.status = IF handler[p].encodes THEN 200 ELSE 500]]
  /\ UNCHANGED <<captureVars, rejected>>

\* The process dies and is started again.  What was in flight is lost where it
\* stood; the requests answered before belong to the past.
Crash ==
  /\ handler' = [p \in Procs |->
       CASE handler[p] = Waiting -> Waiting
         [] handler[p] # Waiting /\ handler[p].pc = "answered" -> [handler[p] EXCEPT !.pc = "past"]
         [] handler[p] # Waiting /\ handler[p].pc = "past" -> handler[p]
         [] OTHER -> [handler[p] EXCEPT !.pc = "lost"]]
  /\ save' = [p \in Procs |->
       IF Saving(p) THEN [save[p] EXCEPT !.pc = "lost"] ELSE save[p]]
  /\ rejected' = 0
  /\ UNCHANGED disk

Serve(p) ==
  \/ \E verdict \in Verdicts : Verified(p, verdict)
  \/ \E suffix \in Suffixes, prepared \in BOOLEAN : StartSave(p, suffix, prepared)
  \/ ContinueSave(p)
  \/ Respond(p)

EndpointNext ==
  \/ \E p \in Procs :
       \/ \E at \in Instants, full, encodes \in BOOLEAN : Receive(p, at, full, encodes)
       \/ Serve(p)
  \/ Crash

EndpointSpec == EndpointInit /\ [][EndpointNext]_endpointVars

(***************************************************************************)
(* A handler's goroutine is scheduled, Verify returns (CallsReturn of      *)
(* module Verifier), and a file operation returns, if only with an error.  *)
(***************************************************************************)
FairEndpointSpec == EndpointSpec /\ \A p \in Procs : WF_endpointVars(Serve(p))

-----------------------------------------------------------------------------
(* Properties                                                              *)

Answered(p) == handler[p].pc \in {"answered", "past"}

\* The types of the store and of the handlers; a save belongs to a request that
\* got as far as being captured, and the count is of the rejections since the
\* process was started.
EndpointTypeOK ==
  /\ CaptureTypeOK
  /\ rejected = Cardinality({p \in Procs : handler[p].pc = "answered" /\ handler[p].status = 400})
  /\ \A p \in Procs :
       /\ handler[p].pc \in {"idle", "verify", "capture", "answered", "past", "lost"}
       /\ Answered(p) => handler[p].status \in {200, 400, 500}
       /\ handler[p].pc \in {"idle", "verify"} => save[p] = NoSave

\* No byte of a request that did not verify reaches the capture directory, in
\* whole or in part, in any interleaving and across restarts.
CapturedOnlyVerified ==
  \A s \in Stems, k \in Kinds :
    disk[s][k] # Absent => handler[disk[s][k].by].verdict = "nil"

\* The status says whether the request verified, and nothing of why it did not,
\* nor of how its capture went: a verified request whose capture failed at any
\* point is answered like any other.
StatusTellsVerdictOnly ==
  \A p \in Procs : Answered(p) =>
    handler[p].status = CASE handler[p].verdict # "nil" -> 400
                          [] handler[p].verdict = "nil" /\ handler[p].encodes -> 200
                          [] OTHER -> 500

\* Every request is answered, unless the process dies under it, however many of
\* the capture's system calls fail.
RequestsAnswered ==
  \A p \in Procs : handler[p].pc # "idle" ~> handler[p].pc \in {"answered", "past", "lost"}

=============================================================================
