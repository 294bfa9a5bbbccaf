---------------------------- MODULE RdfValidation ----------------------------
(* RDF validation of the data that two connectors transfer                  *)
(* (edc-rdf-validator-dataplane and edc-rdf-validation-api).                *)
(*                                                                          *)
(* A transfer has a transfer process, and so a row of edc_transfer_process, *)
(* in the provider's and in the consumer's connector.  Three writers put a  *)
(* validation status into those rows without a common lock:                 *)
(*   - the in-stream sink of the runtime that writes the data (stream);     *)
(*   - the consumer's mirror endpoint, which the sink POSTs its report to;  *)
(*   - each runtime's completion-event subscriber (fallback).               *)
(* Each SQL statement is atomic; everything between two of them interleaves.*)
EXTENDS Naturals

CONSTANTS
    Transfers,        \* transfers going on between the two connectors
    Flows,            \* what a transfer's request, data and landing place can be
    DatabaseMayFail,  \* may single SQL statements fail?
    MayRestart        \* may a connector's runtime restart?

Sides == {"provider", "consumer"}
Definitive == {"SUCCESS", "FAILED", "ERROR"}
Status == Definitive \cup {"SKIPPED"}

\* Where the completion subscriber looks for the data: is the transfer process
\* found, the service there, the destination set, with a path, to a file, of an
\* RDF suffix, for an asset that exists, with a shape; what does validating give.
\* A malformed path is one that Paths.get rejects, or that has no file name.
Landing == [found : BOOLEAN, service : BOOLEAN, destination : BOOLEAN,
            path : {"absent", "malformed", "given"}, exists : BOOLEAN, rdf : BOOLEAN,
            asset : BOOLEAN, shacl : BOOLEAN,
            outcome : {"conforms", "violates", "throws"}]

\* Which runtime runs the sink, for whom; what the stream's parts are; whether a
\* callback URL is configured and which of the report's keys match the consumer's row.
Flow == [side : Sides, kafka : BOOLEAN, participant : {"unset", "own", "other"},
         service : BOOLEAN, shacl : BOOLEAN,
         parts : SUBSET {"plain", "conforms", "violates", "throws"},
         callback : BOOLEAN, consumerId : BOOLEAN, correlates : BOOLEAN,
         landing : [Sides -> Landing]]

ASSUME FlowsAssumption == Flows \subseteq Flow
ASSUME SwitchesAssumption == DatabaseMayFail \in BOOLEAN /\ MayRestart \in BOOLEAN

VARIABLES
    flow,     \* each transfer's flow
    stream,   \* where the in-stream sink is in transfer()
    report,   \* the status of the sink's report, "none" before validate()
    temp,     \* the spooled temporary files: "none", "held" or "leaked"
    result,   \* what the sink returned
    mark,     \* inStreamValidatedTransfers of each runtime (in memory)
    row,      \* the status in private_properties of each transfer process row
    mirror,   \* the callback on its way to, or in, the consumer's endpoint
    tp,       \* the state of each transfer process in its control plane
    fallback, \* each runtime's subscriber, for each transfer's completion event
    lost,     \* history: rows for which an UPDATE failed
    misread,  \* history: rows whose definitive status a failed query hid
    thrown    \* history: processes whose subscriber's own look-ups threw

streaming == <<stream, report, temp, result>>
vars == <<flow, stream, report, temp, result, mark, row, mirror, tp, fallback, lost, misread, thrown>>

Processes == Sides \X Transfers

\* The process that the runtime which runs the sink knows.
Own(t) == <<flow[t].side, t>>

\* The process that the mirror endpoint stands for.
Mirrored(t) == <<"consumer", t>>

Init ==
    /\ flow \in [Transfers -> Flows]
    /\ stream = [t \in Transfers |-> "idle"]
    /\ report = [t \in Transfers |-> "none"]
    /\ temp = [t \in Transfers |-> "none"]
    /\ result = [t \in Transfers |-> "none"]
    /\ mark = {}
    /\ row = [p \in Processes |-> "none"]
    /\ mirror = [t \in Transfers |-> "none"]
    /\ tp = [p \in Processes |-> "STARTED"]
    /\ fallback = [p \in Processes |-> "none"]
    /\ lost = {}
    /\ misread = {}
    /\ thrown = {}

(***************************************************************************)
(* The two verdicts, after two faulty variants of the first, no part of    *)
(* Spec: each stands for a plausible slip that a property must notice.     *)
(***************************************************************************)
StreamStatusIgnoringErrors(f) ==
    IF f.participant = "other" \/ ~f.service \/ ~f.shacl \/ f.parts \subseteq {"plain"} THEN "SKIPPED"
    ELSE IF "violates" \in f.parts THEN "FAILED" ELSE "SUCCESS"
StreamStatusUnknownLiteral(f) ==
    IF f.parts = {"conforms"} THEN "PASSED" ELSE "SKIPPED"

\* ValidatingDataSink.validate: only the consumer's runtime judges, every RDF
\* part is validated, an exception outweighs a failure.
StreamStatus(f) ==
    IF f.participant = "other" \/ ~f.service \/ ~f.shacl \/ f.parts \subseteq {"plain"} THEN "SKIPPED"
    ELSE IF "throws" \in f.parts THEN "ERROR"
    ELSE IF "violates" \in f.parts THEN "FAILED" ELSE "SUCCESS"

\* AutomaticRdfValidationSubscriber.runFallbackValidation, in the code's order.
FallbackStatus(l) ==
    IF ~l.service \/ ~l.destination \/ l.path = "absent" THEN "SKIPPED"
    ELSE IF ~l.exists THEN "ERROR"
    ELSE IF ~l.rdf \/ ~l.asset \/ ~l.shacl THEN "SKIPPED"
    ELSE IF l.outcome = "throws" THEN "ERROR"
    ELSE IF l.outcome = "violates" THEN "FAILED" ELSE "SUCCESS"

\* persistByTransferId: an unconditional merge into the row, whose SQLException
\* is swallowed.
Store(p, status) == row' = [row EXCEPT ![p] = status] /\ UNCHANGED lost
StoreFails(p) == DatabaseMayFail /\ lost' = lost \cup {p} /\ UNCHANGED row

Goto(t, point) == stream' = [stream EXCEPT ![t] = point]
Return(t, outcome) == Goto(t, "done") /\ result' = [result EXCEPT ![t] = outcome]

(***************************************************************************)
(* Faulty variants of the actions below, no part of Spec either.           *)
(***************************************************************************)
SendKeepsFilesOnError(t) ==
    /\ stream[t] = "sending"
    /\ Goto(t, "persisting")
    /\ \E outcome \in {"ok", "failed", "error"} :
          /\ result' = [result EXCEPT ![t] = outcome]
          /\ temp' = [temp EXCEPT ![t] = IF outcome = "error" THEN @ ELSE "none"]
    /\ UNCHANGED <<flow, misread, thrown, report, mark, row, mirror, tp, fallback, lost>>

PersistDefinitiveOnly(t) ==
    /\ stream[t] = "persisting" /\ Goto(t, "done")
    /\ IF report[t] \in Definitive
       THEN Store(Own(t), report[t]) ELSE UNCHANGED <<row, lost>>
    /\ UNCHANGED <<flow, misread, thrown, report, temp, result, mark, mirror, tp, fallback>>

NotifyUntilAnswered(t) ==
    /\ stream[t] = "notifying" /\ (flow[t].callback => mirror[t] = "done")
    /\ Goto(t, "sending")
    /\ UNCHANGED <<flow, misread, thrown, report, temp, result, mark, row, mirror, tp, fallback, lost>>

OnCompletedUnchecked(p) ==
    /\ fallback[p] = "queued"
    /\ fallback' = [fallback EXCEPT ![p] = "reading"]
    /\ UNCHANGED <<flow, misread, thrown, streaming, mark, row, mirror, tp, lost>>

ReadRowUnchecked(p) ==
    /\ fallback[p] = "reading"
    /\ fallback' = [fallback EXCEPT ![p] = "judging"]
    /\ UNCHANGED <<flow, misread, thrown, streaming, mark, row, mirror, tp, lost>>

JudgeDefinitiveOnly(p) ==
    /\ fallback[p] = "judging"
    /\ fallback' = [fallback EXCEPT ![p] = "done"]
    /\ LET status == FallbackStatus(flow[p[2]].landing[p[1]]) IN
       IF status = "SKIPPED" THEN UNCHANGED <<row, lost>> ELSE Store(p, status)
    /\ UNCHANGED <<flow, misread, thrown, streaming, mark, mirror, tp>>

-----------------------------------------------------------------------------
(* The in-stream sink.                                                      *)

\* createSink: Kafka destinations get the undecorated sink.
Start(t) ==
    /\ stream[t] = "idle"
    /\ Goto(t, IF flow[t].kafka THEN "bypassed" ELSE "spooling")
    /\ UNCHANGED <<flow, misread, thrown, report, temp, result, mark, row, mirror, tp, fallback, lost>>

BypassedTransfer(t) ==
    /\ stream[t] = "bypassed"
    /\ \E outcome \in {"ok", "failed"} : Return(t, outcome)
    /\ UNCHANGED <<flow, misread, thrown, report, temp, mark, row, mirror, tp, fallback, lost>>

\* spoolSource: on an error the parts spooled so far are deleted, but not the
\* file of the part whose copy failed, which is not in the list yet.
Spool(t) ==
    /\ stream[t] = "spooling"
    /\ \/ Goto(t, "validating") /\ temp' = [temp EXCEPT ![t] = "held"] /\ UNCHANGED result
       \/ Return(t, "error") /\ UNCHANGED temp
       \/ Return(t, "error") /\ temp' = [temp EXCEPT ![t] = "leaked"]
    /\ UNCHANGED <<flow, misread, thrown, report, mark, row, mirror, tp, fallback, lost>>

Validate(t) ==
    /\ stream[t] = "validating"
    /\ report' = [report EXCEPT ![t] = StreamStatus(flow[t])]
    /\ Goto(t, "marking")
    /\ UNCHANGED <<flow, misread, thrown, temp, result, mark, row, mirror, tp, fallback, lost>>

\* validate() looks the asset up outside any try block: when that throws, so
\* does transfer(), and nobody deletes the spooled parts.
ValidateThrows(t) ==
    /\ stream[t] = "validating"
    /\ Return(t, "thrown")
    /\ temp' = [temp EXCEPT ![t] = "leaked"]
    /\ UNCHANGED <<flow, misread, thrown, report, mark, row, mirror, tp, fallback, lost>>

\* alreadyValidatedTransfers.add, whatever the report says.
Mark(t) ==
    /\ stream[t] = "marking"
    /\ mark' = mark \cup {Own(t)}
    /\ Goto(t, "notifying")
    /\ UNCHANGED <<flow, misread, thrown, report, temp, result, row, mirror, tp, fallback, lost>>

\* notifyCallback: the POST may get lost; 5 s timeouts let the sink go on while
\* the consumer still works on it; no failure is passed on.
NotifyCallback(t) ==
    /\ stream[t] = "notifying"
    /\ Goto(t, "sending")
    /\ \/ flow[t].callback /\ mirror' = [mirror EXCEPT ![t] = "posted"]
       \/ UNCHANGED mirror
    /\ UNCHANGED <<flow, misread, thrown, report, temp, result, mark, row, tp, fallback, lost>>

\* delegate.transfer: its set-up fails, or the returned future ends one way or
\* the other; the spooled parts are deleted in each case.
Send(t) ==
    /\ stream[t] = "sending"
    /\ Goto(t, "persisting")
    /\ \E outcome \in {"ok", "failed", "error"} : result' = [result EXCEPT ![t] = outcome]
    /\ temp' = [temp EXCEPT ![t] = "none"]
    /\ UNCHANGED <<flow, misread, thrown, report, mark, row, mirror, tp, fallback, lost>>

\* persistAfterTransferSafe runs before the future the pipeline waits for ends.
PersistAfterTransfer(t) ==
    /\ stream[t] = "persisting"
    /\ Goto(t, "done")
    /\ Store(Own(t), report[t]) \/ StoreFails(Own(t))
    /\ UNCHANGED <<flow, misread, thrown, report, temp, result, mark, mirror, tp, fallback>>

StreamStep(t) ==
    \/ BypassedTransfer(t) \/ Spool(t) \/ Validate(t) \/ ValidateThrows(t) \/ Mark(t)
    \/ NotifyCallback(t) \/ Send(t) \/ PersistAfterTransfer(t)

-----------------------------------------------------------------------------
(* The consumer's mirror endpoint: first by the consumer's process id, then *)
(* by correlation id; it answers 200 whatever happens.                      *)
MirrorById(t) ==
    /\ mirror[t] = "posted"
    /\ \/ /\ flow[t].consumerId
          /\ Store(Mirrored(t), report[t])
          /\ mirror' = [mirror EXCEPT ![t] = "done"]
       \/ /\ flow[t].consumerId
          /\ StoreFails(Mirrored(t))
          /\ mirror' = [mirror EXCEPT ![t] = "unmatched"]
       \/ /\ ~flow[t].consumerId
          /\ mirror' = [mirror EXCEPT ![t] = "unmatched"]
          /\ UNCHANGED <<row, lost>>
    /\ UNCHANGED <<flow, misread, thrown, streaming, mark, tp, fallback>>

MirrorByCorrelation(t) ==
    /\ mirror[t] = "unmatched"
    /\ mirror' = [mirror EXCEPT ![t] = "done"]
    /\ IF flow[t].correlates
       THEN Store(Mirrored(t), report[t]) \/ StoreFails(Mirrored(t))
       ELSE UNCHANGED <<row, lost>>
    /\ UNCHANGED <<flow, misread, thrown, streaming, mark, tp, fallback>>

MirrorStep(t) == MirrorById(t) \/ MirrorByCorrelation(t)

-----------------------------------------------------------------------------
(* The control planes (EDC) and the completion-event subscriber.            *)

\* A control plane learns of the end of the data flow and, if it went well,
\* publishes TransferProcessCompleted to its runtime's subscribers.
EndTransfer(p) ==
    /\ tp[p] = "STARTED" /\ stream[p[2]] = "done"
    /\ IF result[p[2]] = "ok"
       THEN /\ tp' = [tp EXCEPT ![p] = "COMPLETED"]
            /\ fallback' = [fallback EXCEPT ![p] = "queued"]
       ELSE tp' = [tp EXCEPT ![p] = "TERMINATED"] /\ UNCHANGED fallback
    /\ UNCHANGED <<flow, misread, thrown, streaming, mark, row, mirror, lost>>

OnCompleted(p) ==
    /\ fallback[p] = "queued"
    /\ fallback' = [fallback EXCEPT ![p] = IF p \in mark THEN "done" ELSE "reading"]
    /\ UNCHANGED <<flow, misread, thrown, streaming, mark, row, mirror, tp, lost>>

\* findById, then hasDefinitiveRdfValidationInDb, which answers "no" when its
\* query fails.
ReadRow(p) ==
    /\ fallback[p] = "reading"
    /\ \/ /\ ~flow[p[2]].landing[p[1]].found \/ row[p] \in Definitive
          /\ fallback' = [fallback EXCEPT ![p] = "done"]
          /\ UNCHANGED misread
       \/ /\ flow[p[2]].landing[p[1]].found
          /\ row[p] \notin Definitive \/ DatabaseMayFail
          /\ fallback' = [fallback EXCEPT ![p] = "judging"]
          /\ misread' = IF row[p] \in Definitive THEN misread \cup {p} ELSE misread
    /\ UNCHANGED <<flow, streaming, mark, row, mirror, tp, lost, thrown>>

\* on() catches whatever runFallbackValidation throws and logs it: the event is
\* over, with nothing written.
Swallow(p) ==
    /\ fallback' = [fallback EXCEPT ![p] = "done"]
    /\ thrown' = thrown \cup {p}
    /\ UNCHANGED <<flow, misread, streaming, mark, row, mirror, tp, lost>>

\* transferProcessStore.findById throws.
ReadRowThrows(p) == fallback[p] = "reading" /\ DatabaseMayFail /\ Swallow(p)

\* Where the subscriber has been told to look, if it gets as far as that.
PathOf(l) == IF l.service /\ l.destination THEN l.path ELSE "absent"

\* The rest of runFallbackValidation; validating a file takes its time, and the
\* UPDATE at its end does not look at the row again.  A verdict whose commit fails
\* is thrown into the catch block around the validation, which stores ERROR instead.
Judge(p) ==
    LET landing == flow[p[2]].landing[p[1]]
        status == FallbackStatus(landing)
    IN /\ fallback[p] = "judging" /\ PathOf(landing) # "malformed"
       /\ fallback' = [fallback EXCEPT ![p] = "done"]
       /\ \/ Store(p, status) \/ StoreFails(p)
          \/ /\ DatabaseMayFail /\ status \in {"SUCCESS", "FAILED"}
             /\ row' = [row EXCEPT ![p] = "ERROR"]
             /\ lost' = lost \cup {p}
       /\ UNCHANGED <<flow, misread, thrown, streaming, mark, mirror, tp>>

\* Paths.get or getFileName reject the path, or assetService.findById throws, none
\* of them within that try block.
JudgeThrows(p) ==
    LET landing == flow[p[2]].landing[p[1]] IN
    /\ fallback[p] = "judging"
    /\ \/ PathOf(landing) = "malformed"
       \/ PathOf(landing) = "given" /\ landing.exists /\ landing.rdf /\ DatabaseMayFail
    /\ Swallow(p)

FallbackStep(p) ==
    OnCompleted(p) \/ ReadRow(p) \/ ReadRowThrows(p) \/ Judge(p) \/ JudgeThrows(p)

\* A runtime restarts: its set of validated transfers is gone, and so is what
\* its threads were doing; rows, transfer processes and temporary files stay.
Restart(s) ==
    /\ MayRestart
    /\ mark' = mark \ ({s} \X Transfers)
    /\ stream' = [t \in Transfers |->
           IF flow[t].side = s /\ stream[t] \notin {"idle", "done"} THEN "dead" ELSE stream[t]]
    /\ temp' = [t \in Transfers |->
           IF flow[t].side = s /\ temp[t] = "held" THEN "leaked" ELSE temp[t]]
    /\ mirror' = [t \in Transfers |->
           IF s = "consumer" /\ mirror[t] # "none" THEN "done" ELSE mirror[t]]
    /\ fallback' = [p \in Processes |->
           IF p[1] = s /\ fallback[p] \notin {"none", "done"} THEN "dead" ELSE fallback[p]]
    /\ UNCHANGED <<flow, misread, thrown, report, result, row, tp, lost>>

Next ==
    \/ \E t \in Transfers : Start(t) \/ StreamStep(t) \/ MirrorStep(t)
    \/ \E p \in Processes : EndTransfer(p) \/ FallbackStep(p)
    \/ \E s \in Sides : Restart(s)

\* The data plane's, the endpoint's and the event router's threads keep running;
\* nothing makes EDC start a transfer or a runtime restart.
Fairness ==
    /\ \A t \in Transfers : WF_vars(StreamStep(t)) /\ WF_vars(MirrorStep(t))
    /\ \A p \in Processes : WF_vars(FallbackStep(p))

Spec == Init /\ [][Next]_vars /\ Fairness

-----------------------------------------------------------------------------
\* Every variable holds values of its kind.
TypeOK ==
    /\ flow \in [Transfers -> Flow]
    /\ stream \in [Transfers -> {"idle", "bypassed", "spooling", "validating", "marking",
                                 "notifying", "sending", "persisting", "done", "dead"}]
    /\ report \in [Transfers -> Status \cup {"none"}]
    /\ temp \in [Transfers -> {"none", "held", "leaked"}]
    /\ result \in [Transfers -> {"none", "ok", "failed", "error", "thrown"}]
    /\ mark \subseteq Processes
    /\ row \in [Processes -> Status \cup {"none"}]
    /\ mirror \in [Transfers -> {"none", "posted", "unmatched", "done"}]
    /\ tp \in [Processes -> {"STARTED", "COMPLETED", "TERMINATED"}]
    /\ fallback \in [Processes -> {"none", "queued", "reading", "judging", "done", "dead"}]
    /\ lost \subseteq Processes
    /\ misread \subseteq Processes
    /\ thrown \subseteq Processes

\* A row says SUCCESS only if a validation earned it: the sink, on behalf of its
\* own participant and with a shape, found RDF parts and all conform, or the
\* subscriber validated the landed file; whichever of the writers came last.
Earned(p) ==
    LET f == flow[p[2]]
        l == f.landing[p[1]]
    IN \/ /\ f.participant # "other" /\ f.service /\ f.shacl
          /\ "conforms" \in f.parts /\ f.parts \subseteq {"plain", "conforms"}
       \/ /\ l.service /\ l.exists /\ l.rdf /\ l.shacl
          /\ l.outcome = "conforms"
SuccessIsEarned == \A p \in Processes : row[p] = "SUCCESS" => Earned(p)

\* A completed transfer's row has a status by the time its event is dealt with, be
\* it SKIPPED.  What leaves a gap is known: an UPDATE on the row failed (the set of
\* validated transfers silences the subscriber, persistAfterTransferSafe swallows
\* the failure), the process is unknown, or the subscriber's own look-ups threw,
\* which on() swallows; no interleaving of the writers does.
NoSilentGap ==
    \A p \in Processes : fallback[p] = "done" /\ row[p] = "none" =>
        p \in lost \cup thrown \/ ~flow[p[2]].landing[p[1]].found

\* A sink that has ended keeps no temporary file, unless spooling or validating
\* broke off with an exception before the data was sent.
NoLeakAfterSending ==
    \A t \in Transfers : stream[t] = "done" /\ temp[t] # "none" =>
        temp[t] = "leaked" /\ result[t] \in {"error", "thrown"} /\ report[t] = "none"

\* While a runtime remembers that it validated a transfer in-stream, its
\* subscriber never gets past the look at the set: the sink marks the transfer
\* before the data is sent, hence before the completion event can exist.
MarkedNeverReachesFallback ==
    \A p \in mark : fallback[p] \notin {"reading", "judging"}

\* A definitive in-stream verdict, once stored on the runtime that found it, is
\* there to stay: against a restart the row protects it, against failing
\* statements the in-memory set; it takes a forgotten mark and, on the same row, a
\* failed statement as well to undo it (a check of either kind, far from the UPDATE).
InStreamVerdictStays ==
    [][\A t \in Transfers :
          LET p == Own(t) IN
          /\ stream[t] = "done" /\ row[p] = report[t] /\ report[t] \in Definitive
          /\ row'[p] # row[p]
          => p \notin mark /\ p \in misread \cup lost]_vars

\* Validation never blocks a transfer ("must never block the transfer",
\* RdfValidationMirrorController): with a lost callback, a slow consumer or a
\* failing database every sink that starts still ends.
StreamsEnd == \A t \in Transfers : stream[t] # "idle" ~> stream[t] \in {"done", "dead"}

\* Every completion event leads to a status in the row, except where the UPDATE
\* failed, the process is unknown, a look-up of the subscriber threw (on() swallows
\* the exception and the event does not come again) or the runtime went down over it.
CompletionsAreJudged ==
    \A p \in Processes : tp[p] = "COMPLETED" ~>
        \/ row[p] # "none" \/ p \in lost \cup thrown
        \/ fallback[p] = "dead" \/ ~flow[p[2]].landing[p[1]].found

\* AutomaticRdfValidationSubscriber:80: "already has definitive RDF validation in
\* DB (e.g. provider mirror); skipping fallback to avoid overwriting with SKIPPED".
FallbackKeepsMirroredVerdict ==
    [][\A p \in Processes : row[p] \in Definitive /\ fallback[p] = "judging"
          => row'[p] # "SKIPPED"]_vars
=============================================================================
