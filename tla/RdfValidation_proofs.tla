------------------------ MODULE RdfValidation_proofs ------------------------
(* What RdfValidation promises for any number of transfers and any flows.   *)
EXTENDS RdfValidation, TLAPS

InFlight == {"notifying", "sending", "persisting"}

\* The sink's report is absent before validate() and its verdict afterwards;
\* nothing is posted to the mirror without a report.
ReportsKnown ==
    \A t \in Transfers :
        /\ report[t] \in {"none", StreamStatus(flow[t])}
        /\ stream[t] \in {"idle", "bypassed", "spooling", "validating"} => report[t] = "none"
        /\ stream[t] \in {"marking"} \cup InFlight => report[t] # "none"
        /\ mirror[t] # "none" => report[t] # "none"

\* Whatever a row holds, one of the two validations found it, or the subscriber
\* stored ERROR for a verdict it could not commit.
RowsKnown ==
    \A p \in Processes :
        row[p] \in {"none", "ERROR", report[p[2]], FallbackStatus(flow[p[2]].landing[p[1]])}

\* Completion events exist only for transfers whose sink has ended.
EventsFollowSinks == \A p \in Processes : fallback[p] # "none" => stream[p[2]] = "done"

\* A marked transfer was validated by the marking runtime, which is past the
\* mark; its subscriber keeps out, and its row has the status, or lost it.
MarksTrue ==
    \A p \in mark :
        /\ p = Own(p[2])
        /\ stream[p[2]] \in InFlight \cup {"done"}
        /\ fallback[p] \notin {"reading", "judging"}
        /\ stream[p[2]] = "done" => row[p] # "none" \/ p \in lost

\* Where the temporary files can be at each point of the sink.
FilesKnown ==
    \A t \in Transfers :
        /\ stream[t] \in {"idle", "bypassed", "spooling", "persisting"} => temp[t] = "none"
        /\ stream[t] = "done" /\ temp[t] # "none" =>
              temp[t] = "leaked" /\ result[t] \in {"error", "thrown"} /\ report[t] = "none"

\* What protects a verdict where no statement failed on its row: the row itself,
\* and that the subscriber has not yet looked away from it.
VerdictsGuarded ==
    \A t \in Transfers : stream[t] = "done" /\ report[t] \in Definitive =>
        \/ Own(t) \in misread \cup lost
        \/ row[Own(t)] \in Definitive /\ fallback[Own(t)] # "judging"

IInv ==
    /\ TypeOK
    /\ ReportsKnown
    /\ RowsKnown
    /\ EventsFollowSinks
    /\ MarksTrue
    /\ FilesKnown
    /\ VerdictsGuarded
    /\ NoSilentGap

(***************************************************************************)
(* Lemmas on the operators.                                                *)
(***************************************************************************)
\* Both verdicts are statuses, never "none".
LEMMA StreamStatusType == ASSUME NEW f PROVE StreamStatus(f) \in Status /\ StreamStatus(f) # "none"
  BY DEF StreamStatus, Status, Definitive

LEMMA FallbackStatusType ==
    ASSUME NEW l PROVE FallbackStatus(l) \in Status /\ FallbackStatus(l) # "none"
  BY DEF FallbackStatus, Status, Definitive

\* The process a sink persists to is one of the system's.
LEMMA OwnProcess ==
    ASSUME TypeOK, NEW t \in Transfers
    PROVE  Own(t) \in Processes /\ Own(t)[1] = flow[t].side /\ Own(t)[2] = t
  <1>1. flow[t] \in Flow
    BY DEF TypeOK
  <1>2. flow[t].side \in Sides
    BY <1>1 DEF Flow
  <1> QED BY <1>2 DEF Own, Processes

LEMMA MirroredProcess == ASSUME NEW t \in Transfers PROVE Mirrored(t) \in Processes /\ Mirrored(t)[2] = t
  BY DEF Mirrored, Processes, Sides

LEMMA OwnFixed == ASSUME UNCHANGED flow, NEW t PROVE Own(t)' = Own(t)
  BY DEF Own

-----------------------------------------------------------------------------
LEMMA InitIInv == Init => IInv
  <1> SUFFICES ASSUME Init PROVE IInv
    OBVIOUS
  <1>1. TypeOK
    BY FlowsAssumption DEF Init, TypeOK, Processes
  <1>2. \A t \in Transfers : stream[t] = "idle" /\ report[t] = "none" /\ temp[t] = "none" /\ mirror[t] = "none"
    BY DEF Init
  <1>3. \A p \in Processes : row[p] = "none" /\ fallback[p] = "none"
    BY DEF Init
  <1> QED BY <1>1, <1>2, <1>3 DEF Init, IInv, ReportsKnown, RowsKnown, EventsFollowSinks,
          MarksTrue, FilesKnown, VerdictsGuarded, NoSilentGap, InFlight

\* An exception that on() swallows ends the event and touches no row.
LEMMA SwallowIInv ==
    ASSUME IInv, NEW p \in Processes, fallback[p] \in {"reading", "judging"}, Swallow(p)
    PROVE  IInv'
  <1>1. TypeOK'
    BY DEF IInv, TypeOK, Swallow, streaming, Processes, Definitive, Status
  <1>2. ReportsKnown'
    BY DEF IInv, TypeOK, ReportsKnown, InFlight, Swallow, streaming, Processes, Definitive, Status
  <1>3. RowsKnown'
    BY DEF IInv, TypeOK, RowsKnown, Swallow, streaming, Processes, Definitive, Status
  <1>4. EventsFollowSinks'
    BY DEF IInv, TypeOK, EventsFollowSinks, Swallow, streaming, Processes, Definitive, Status
  <1>5. MarksTrue'
    BY OwnFixed
    DEF IInv, TypeOK, MarksTrue, InFlight, Swallow, streaming, Processes, Definitive, Status
  <1>6. FilesKnown'
    BY DEF IInv, TypeOK, FilesKnown, Swallow, streaming, Processes, Definitive, Status
  <1>7. VerdictsGuarded'
    BY OwnFixed, OwnProcess
    DEF IInv, TypeOK, VerdictsGuarded, InFlight, Swallow, streaming, Processes, Definitive, Status
  <1>8. NoSilentGap'
    BY DEF IInv, TypeOK, NoSilentGap, MarksTrue, EventsFollowSinks, Swallow, streaming, Processes, Definitive, Status
  <1> QED BY <1>1, <1>2, <1>3, <1>4, <1>5, <1>6, <1>7, <1>8 DEF IInv

LEMMA NextIInv == IInv /\ [Next]_vars => IInv'
  <1> SUFFICES ASSUME IInv, [Next]_vars PROVE IInv'
    OBVIOUS
  <1>1. ASSUME NEW t \in Transfers, Start(t) PROVE IInv'
    <2>1. TypeOK'
      BY <1>1
      DEF IInv, TypeOK, Start, Goto, Processes, Definitive, Status
    <2>2. ReportsKnown'
      BY <1>1
      DEF IInv, TypeOK, ReportsKnown, InFlight, Start, Goto, Processes, Definitive, Status
    <2>3. RowsKnown'
      BY <1>1
      DEF IInv, TypeOK, RowsKnown, Start, Goto, Processes, Definitive, Status
    <2>4. EventsFollowSinks'
      BY <1>1
      DEF IInv, TypeOK, EventsFollowSinks, Start, Goto, Processes, Definitive, Status
    <2>5. MarksTrue'
      BY <1>1, OwnFixed
      DEF IInv, TypeOK, MarksTrue, InFlight, Start, Goto, Processes, Definitive, Status
    <2>6. FilesKnown'
      BY <1>1
      DEF IInv, TypeOK, FilesKnown, Start, Goto, Processes, Definitive, Status
    <2>7. VerdictsGuarded'
      BY <1>1, OwnFixed
      DEF IInv, TypeOK, VerdictsGuarded, InFlight, Start, Goto, Processes, Definitive, Status
    <2>8. NoSilentGap'
      BY <1>1
      DEF IInv, TypeOK, NoSilentGap, Start, Goto, Processes, Definitive, Status
    <2> QED BY <2>1, <2>2, <2>3, <2>4, <2>5, <2>6, <2>7, <2>8 DEF IInv
  <1>2. ASSUME NEW t \in Transfers, BypassedTransfer(t) PROVE IInv'
    <2>1. TypeOK'
      BY <1>2
      DEF IInv, TypeOK, BypassedTransfer, Goto, Return, Processes, Definitive, Status
    <2>2. ReportsKnown'
      BY <1>2
      DEF IInv, TypeOK, ReportsKnown, InFlight, BypassedTransfer, Goto, Return, Processes, Definitive, Status
    <2>3. RowsKnown'
      BY <1>2
      DEF IInv, TypeOK, RowsKnown, BypassedTransfer, Goto, Return, Processes, Definitive, Status
    <2>4. EventsFollowSinks'
      BY <1>2
      DEF IInv, TypeOK, EventsFollowSinks, BypassedTransfer, Goto, Return, Processes, Definitive, Status
    <2>5. MarksTrue'
      BY <1>2, OwnFixed
      DEF IInv, TypeOK, MarksTrue, InFlight, BypassedTransfer, Goto, Return, Processes, Definitive, Status
    <2>6. FilesKnown'
      BY <1>2
      DEF IInv, TypeOK, FilesKnown, BypassedTransfer, Goto, Return, Processes, Definitive, Status
    <2>7. VerdictsGuarded'
      BY <1>2, OwnFixed
      DEF IInv, TypeOK, VerdictsGuarded, ReportsKnown, InFlight, BypassedTransfer, Goto, Return, Processes, Definitive, Status
    <2>8. NoSilentGap'
      BY <1>2
      DEF IInv, TypeOK, NoSilentGap, BypassedTransfer, Goto, Return, Processes, Definitive, Status
    <2> QED BY <2>1, <2>2, <2>3, <2>4, <2>5, <2>6, <2>7, <2>8 DEF IInv
  <1>3. ASSUME NEW t \in Transfers, Spool(t) PROVE IInv'
    <2>1. TypeOK'
      <3>1. stream' \in [Transfers -> {"idle", "bypassed", "spooling", "validating", "marking",
                                    "notifying", "sending", "persisting", "done", "dead"}]
        BY <1>3 DEF IInv, TypeOK, Spool, Goto, Return
      <3>2. temp' \in [Transfers -> {"none", "held", "leaked"}]
        BY <1>3 DEF IInv, TypeOK, Spool, Goto, Return
      <3>3. result' \in [Transfers -> {"none", "ok", "failed", "error", "thrown"}]
        BY <1>3 DEF IInv, TypeOK, Spool, Goto, Return
      <3> QED BY <1>3, <3>1, <3>2, <3>3 DEF IInv, TypeOK, Spool, Processes
    <2>2. ReportsKnown'
      BY <1>3
      DEF IInv, TypeOK, ReportsKnown, InFlight, Spool, Goto, Return, Processes, Definitive, Status
    <2>3. RowsKnown'
      BY <1>3
      DEF IInv, TypeOK, RowsKnown, Spool, Goto, Return, Processes, Definitive, Status
    <2>4. EventsFollowSinks'
      BY <1>3
      DEF IInv, TypeOK, EventsFollowSinks, Spool, Goto, Return, Processes, Definitive, Status
    <2>5. MarksTrue'
      BY <1>3, OwnFixed
      DEF IInv, TypeOK, MarksTrue, InFlight, Spool, Goto, Return, Processes, Definitive, Status
    <2>6. FilesKnown'
      BY <1>3
      DEF IInv, TypeOK, FilesKnown, ReportsKnown, Spool, Goto, Return, Processes, Definitive, Status
    <2>7. VerdictsGuarded'
      BY <1>3, OwnFixed
      DEF IInv, TypeOK, VerdictsGuarded, ReportsKnown, InFlight, Spool, Goto, Return, Processes, Definitive, Status
    <2>8. NoSilentGap'
      BY <1>3
      DEF IInv, TypeOK, NoSilentGap, Spool, Goto, Return, Processes, Definitive, Status
    <2> QED BY <2>1, <2>2, <2>3, <2>4, <2>5, <2>6, <2>7, <2>8 DEF IInv
  <1>4. ASSUME NEW t \in Transfers, Validate(t) PROVE IInv'
    <2>1. TypeOK'
      BY <1>4, StreamStatusType
      DEF IInv, TypeOK, Validate, Goto, Processes, Definitive, Status
    <2>2. ReportsKnown'
      BY <1>4, StreamStatusType
      DEF IInv, TypeOK, ReportsKnown, InFlight, Validate, Goto, Processes, Definitive, Status
    <2>3. RowsKnown'
      BY <1>4, StreamStatusType
      DEF IInv, TypeOK, RowsKnown, ReportsKnown, Validate, Goto, Processes, Definitive, Status
    <2>4. EventsFollowSinks'
      BY <1>4, StreamStatusType
      DEF IInv, TypeOK, EventsFollowSinks, Validate, Goto, Processes, Definitive, Status
    <2>5. MarksTrue'
      BY <1>4, StreamStatusType, OwnFixed
      DEF IInv, TypeOK, MarksTrue, InFlight, Validate, Goto, Processes, Definitive, Status
    <2>6. FilesKnown'
      BY <1>4, StreamStatusType
      DEF IInv, TypeOK, FilesKnown, Validate, Goto, Processes, Definitive, Status
    <2>7. VerdictsGuarded'
      BY <1>4, StreamStatusType, OwnFixed
      DEF IInv, TypeOK, VerdictsGuarded, InFlight, Validate, Goto, Processes, Definitive, Status
    <2>8. NoSilentGap'
      BY <1>4, StreamStatusType
      DEF IInv, TypeOK, NoSilentGap, Validate, Goto, Processes, Definitive, Status
    <2> QED BY <2>1, <2>2, <2>3, <2>4, <2>5, <2>6, <2>7, <2>8 DEF IInv
  <1>5. ASSUME NEW t \in Transfers, ValidateThrows(t) PROVE IInv'
    <2>1. TypeOK'
      BY <1>5
      DEF IInv, TypeOK, ValidateThrows, Goto, Return, Processes, Definitive, Status
    <2>2. ReportsKnown'
      BY <1>5
      DEF IInv, TypeOK, ReportsKnown, InFlight, ValidateThrows, Goto, Return, Processes, Definitive, Status
    <2>3. RowsKnown'
      BY <1>5
      DEF IInv, TypeOK, RowsKnown, ValidateThrows, Goto, Return, Processes, Definitive, Status
    <2>4. EventsFollowSinks'
      BY <1>5
      DEF IInv, TypeOK, EventsFollowSinks, ValidateThrows, Goto, Return, Processes, Definitive, Status
    <2>5. MarksTrue'
      BY <1>5, OwnFixed
      DEF IInv, TypeOK, MarksTrue, InFlight, ValidateThrows, Goto, Return, Processes, Definitive, Status
    <2>6. FilesKnown'
      BY <1>5
      DEF IInv, TypeOK, FilesKnown, ReportsKnown, ValidateThrows, Goto, Return, Processes, Definitive, Status
    <2>7. VerdictsGuarded'
      BY <1>5, OwnFixed
      DEF IInv, TypeOK, VerdictsGuarded, ReportsKnown, InFlight, ValidateThrows, Goto, Return, Processes, Definitive, Status
    <2>8. NoSilentGap'
      BY <1>5
      DEF IInv, TypeOK, NoSilentGap, ValidateThrows, Goto, Return, Processes, Definitive, Status
    <2> QED BY <2>1, <2>2, <2>3, <2>4, <2>5, <2>6, <2>7, <2>8 DEF IInv
  <1>6. ASSUME NEW t \in Transfers, Mark(t) PROVE IInv'
    <2>1. TypeOK'
      BY <1>6, OwnProcess
      DEF IInv, TypeOK, Mark, Goto, Processes, Definitive, Status
    <2>2. ReportsKnown'
      BY <1>6, OwnProcess
      DEF IInv, TypeOK, ReportsKnown, InFlight, Mark, Goto, Processes, Definitive, Status
    <2>3. RowsKnown'
      BY <1>6, OwnProcess
      DEF IInv, TypeOK, RowsKnown, Mark, Goto, Processes, Definitive, Status
    <2>4. EventsFollowSinks'
      BY <1>6, OwnProcess
      DEF IInv, TypeOK, EventsFollowSinks, Mark, Goto, Processes, Definitive, Status
    <2>5. MarksTrue'
      <3>1. /\ stream[t] = "marking" /\ mark' = mark \cup {Own(t)}
            /\ stream' = [stream EXCEPT ![t] = "notifying"]
            /\ UNCHANGED <<flow, row, fallback, lost>>
        BY <1>6 DEF Mark, Goto
      <3>2. \A q : Own(q)' = Own(q)
        BY <3>1, OwnFixed
      <3>3. Own(t) \in Processes /\ Own(t)[2] = t /\ fallback[Own(t)] = "none"
        BY <3>1, OwnProcess DEF IInv, EventsFollowSinks
      <3>4. stream'[t] = "notifying" /\ \A u \in Transfers \ {t} : stream'[u] = stream[u]
        BY <3>1 DEF IInv, TypeOK
      <3>5. \A q \in mark : q[2] \in Transfers \ {t}
        BY <3>1 DEF IInv, TypeOK, MarksTrue, InFlight, Processes
      <3> QED BY <3>1, <3>2, <3>3, <3>4, <3>5 DEF IInv, MarksTrue, InFlight
    <2>6. FilesKnown'
      BY <1>6, OwnProcess
      DEF IInv, TypeOK, FilesKnown, Mark, Goto, Processes, Definitive, Status
    <2>7. VerdictsGuarded'
      BY <1>6, OwnProcess, OwnFixed
      DEF IInv, TypeOK, VerdictsGuarded, InFlight, Mark, Goto, Processes, Definitive, Status
    <2>8. NoSilentGap'
      BY <1>6, OwnProcess
      DEF IInv, TypeOK, NoSilentGap, Mark, Goto, Processes, Definitive, Status
    <2> QED BY <2>1, <2>2, <2>3, <2>4, <2>5, <2>6, <2>7, <2>8 DEF IInv
  <1>7. ASSUME NEW t \in Transfers, NotifyCallback(t) PROVE IInv'
    <2>1. TypeOK'
      BY <1>7
      DEF IInv, TypeOK, NotifyCallback, Goto, Processes, Definitive, Status
    <2>2. ReportsKnown'
      BY <1>7
      DEF IInv, TypeOK, ReportsKnown, InFlight, NotifyCallback, Goto, Processes, Definitive, Status
    <2>3. RowsKnown'
      BY <1>7
      DEF IInv, TypeOK, RowsKnown, NotifyCallback, Goto, Processes, Definitive, Status
    <2>4. EventsFollowSinks'
      BY <1>7
      DEF IInv, TypeOK, EventsFollowSinks, NotifyCallback, Goto, Processes, Definitive, Status
    <2>5. MarksTrue'
      BY <1>7, OwnFixed
      DEF IInv, TypeOK, MarksTrue, InFlight, NotifyCallback, Goto, Processes, Definitive, Status
    <2>6. FilesKnown'
      BY <1>7
      DEF IInv, TypeOK, FilesKnown, NotifyCallback, Goto, Processes, Definitive, Status
    <2>7. VerdictsGuarded'
      BY <1>7, OwnFixed
      DEF IInv, TypeOK, VerdictsGuarded, InFlight, NotifyCallback, Goto, Processes, Definitive, Status
    <2>8. NoSilentGap'
      BY <1>7
      DEF IInv, TypeOK, NoSilentGap, NotifyCallback, Goto, Processes, Definitive, Status
    <2> QED BY <2>1, <2>2, <2>3, <2>4, <2>5, <2>6, <2>7, <2>8 DEF IInv
  <1>8. ASSUME NEW t \in Transfers, Send(t) PROVE IInv'
    <2>1. TypeOK'
      BY <1>8
      DEF IInv, TypeOK, Send, Goto, Processes, Definitive, Status
    <2>2. ReportsKnown'
      BY <1>8
      DEF IInv, TypeOK, ReportsKnown, InFlight, Send, Goto, Processes, Definitive, Status
    <2>3. RowsKnown'
      BY <1>8
      DEF IInv, TypeOK, RowsKnown, Send, Goto, Processes, Definitive, Status
    <2>4. EventsFollowSinks'
      BY <1>8
      DEF IInv, TypeOK, EventsFollowSinks, Send, Goto, Processes, Definitive, Status
    <2>5. MarksTrue'
      BY <1>8, OwnFixed
      DEF IInv, TypeOK, MarksTrue, InFlight, Send, Goto, Processes, Definitive, Status
    <2>6. FilesKnown'
      BY <1>8
      DEF IInv, TypeOK, FilesKnown, Send, Goto, Processes, Definitive, Status
    <2>7. VerdictsGuarded'
      BY <1>8, OwnFixed
      DEF IInv, TypeOK, VerdictsGuarded, InFlight, Send, Goto, Processes, Definitive, Status
    <2>8. NoSilentGap'
      BY <1>8
      DEF IInv, TypeOK, NoSilentGap, Send, Goto, Processes, Definitive, Status
    <2> QED BY <2>1, <2>2, <2>3, <2>4, <2>5, <2>6, <2>7, <2>8 DEF IInv
  <1>9. ASSUME NEW t \in Transfers, PersistAfterTransfer(t) PROVE IInv'
    <2>1. TypeOK'
      BY <1>9, OwnProcess
      DEF IInv, TypeOK, PersistAfterTransfer, Goto, Store, StoreFails, Processes, Definitive, Status
    <2>2. ReportsKnown'
      BY <1>9, OwnProcess
      DEF IInv, TypeOK, ReportsKnown, InFlight, PersistAfterTransfer, Goto, Store, StoreFails, Processes, Definitive, Status
    <2>3. RowsKnown'
      <3>1. row' = row \/ row' = [row EXCEPT ![Own(t)] = report[t]]
        BY <1>9 DEF PersistAfterTransfer, Store, StoreFails
      <3>2. UNCHANGED <<flow, report>>
        BY <1>9 DEF PersistAfterTransfer
      <3> QED BY <3>1, <3>2, OwnProcess DEF IInv, TypeOK, RowsKnown
    <2>4. EventsFollowSinks'
      BY <1>9, OwnProcess
      DEF IInv, TypeOK, EventsFollowSinks, PersistAfterTransfer, Goto, Store, StoreFails, Processes, Definitive, Status
    <2>5. MarksTrue'
      BY <1>9, OwnProcess, OwnFixed
      DEF IInv, TypeOK, MarksTrue, ReportsKnown, InFlight, PersistAfterTransfer, Goto, Store, StoreFails, Processes, Definitive, Status
    <2>6. FilesKnown'
      BY <1>9, OwnProcess
      DEF IInv, TypeOK, FilesKnown, PersistAfterTransfer, Goto, Store, StoreFails, Processes, Definitive, Status
    <2>7. VerdictsGuarded'
      BY <1>9, OwnProcess, OwnFixed
      DEF IInv, TypeOK, VerdictsGuarded, EventsFollowSinks, InFlight, PersistAfterTransfer, Goto, Store, StoreFails, Processes, Definitive, Status
    <2>8. NoSilentGap'
      <3> SUFFICES ASSUME NEW p \in Processes, fallback'[p] = "done", row'[p] = "none"
                   PROVE  p \in lost' \cup thrown' \/ ~flow'[p[2]].landing[p[1]].found
        BY DEF NoSilentGap
      <3>1. row[p] = "none" /\ lost \subseteq lost'
        BY <1>9, OwnProcess DEF IInv, TypeOK, ReportsKnown, InFlight, PersistAfterTransfer, Store, StoreFails
      <3>2. UNCHANGED <<flow, fallback, thrown>>
        BY <1>9 DEF PersistAfterTransfer
      <3>3. p \in lost \cup thrown \/ ~flow[p[2]].landing[p[1]].found
        BY <3>1, <3>2 DEF IInv, NoSilentGap
      <3> QED BY <3>1, <3>2, <3>3
    <2> QED BY <2>1, <2>2, <2>3, <2>4, <2>5, <2>6, <2>7, <2>8 DEF IInv
  <1>10. ASSUME NEW t \in Transfers, MirrorById(t) PROVE IInv'
    <2>1. TypeOK'
      BY <1>10, MirroredProcess
      DEF IInv, TypeOK, MirrorById, Store, StoreFails, streaming, Processes, Definitive, Status
    <2>2. ReportsKnown'
      BY <1>10, MirroredProcess
      DEF IInv, TypeOK, ReportsKnown, InFlight, MirrorById, Store, StoreFails, streaming, Processes, Definitive, Status
    <2>3. RowsKnown'
      BY <1>10, MirroredProcess
      DEF IInv, TypeOK, RowsKnown, ReportsKnown, MirrorById, Store, StoreFails, streaming, Processes, Definitive, Status
    <2>4. EventsFollowSinks'
      BY <1>10, MirroredProcess
      DEF IInv, TypeOK, EventsFollowSinks, MirrorById, Store, StoreFails, streaming, Processes, Definitive, Status
    <2>5. MarksTrue'
      BY <1>10, MirroredProcess, OwnFixed
      DEF IInv, TypeOK, MarksTrue, ReportsKnown, InFlight, MirrorById, Store, StoreFails, streaming, Processes, Definitive, Status
    <2>6. FilesKnown'
      BY <1>10, MirroredProcess
      DEF IInv, TypeOK, FilesKnown, MirrorById, Store, StoreFails, streaming, Processes, Definitive, Status
    <2>7. VerdictsGuarded'
      <3>1. \A u \in Transfers : Own(u)' = Own(u) /\ Own(u) \in Processes /\ Own(u)[2] = u
        BY <1>10, OwnProcess, OwnFixed DEF IInv, MirrorById
      <3>2. row' = row \/ row' = [row EXCEPT ![Mirrored(t)] = report[t]]
        BY <1>10 DEF MirrorById, Store, StoreFails
      <3>3. \A u \in Transfers : report[u] \in Definitive /\ row[Own(u)] \in Definitive
                                  => row'[Own(u)] \in Definitive
        BY <3>1, <3>2, MirroredProcess DEF IInv, TypeOK
      <3>4. lost \subseteq lost' /\ UNCHANGED <<misread, stream, report, fallback>>
        BY <1>10 DEF MirrorById, Store, StoreFails, streaming
      <3> QED BY <3>1, <3>3, <3>4 DEF IInv, VerdictsGuarded
    <2>8. NoSilentGap'
      BY <1>10, MirroredProcess
      DEF IInv, TypeOK, NoSilentGap, ReportsKnown, MirrorById, Store, StoreFails, streaming, Processes, Definitive, Status
    <2> QED BY <2>1, <2>2, <2>3, <2>4, <2>5, <2>6, <2>7, <2>8 DEF IInv
  <1>11. ASSUME NEW t \in Transfers, MirrorByCorrelation(t) PROVE IInv'
    <2>1. TypeOK'
      BY <1>11, MirroredProcess
      DEF IInv, TypeOK, MirrorByCorrelation, Store, StoreFails, streaming, Processes, Definitive, Status
    <2>2. ReportsKnown'
      BY <1>11, MirroredProcess
      DEF IInv, TypeOK, ReportsKnown, InFlight, MirrorByCorrelation, Store, StoreFails, streaming, Processes, Definitive, Status
    <2>3. RowsKnown'
      BY <1>11, MirroredProcess
      DEF IInv, TypeOK, RowsKnown, MirrorByCorrelation, Store, StoreFails, streaming, Processes, Definitive, Status
    <2>4. EventsFollowSinks'
      BY <1>11, MirroredProcess
      DEF IInv, TypeOK, EventsFollowSinks, MirrorByCorrelation, Store, StoreFails, streaming, Processes, Definitive, Status
    <2>5. MarksTrue'
      BY <1>11, MirroredProcess, OwnFixed
      DEF IInv, TypeOK, MarksTrue, ReportsKnown, InFlight, MirrorByCorrelation, Store, StoreFails, streaming, Processes, Definitive, Status
    <2>6. FilesKnown'
      BY <1>11, MirroredProcess
      DEF IInv, TypeOK, FilesKnown, MirrorByCorrelation, Store, StoreFails, streaming, Processes, Definitive, Status
    <2>7. VerdictsGuarded'
      <3>1. \A u \in Transfers : Own(u)' = Own(u) /\ Own(u) \in Processes /\ Own(u)[2] = u
        BY <1>11, OwnProcess, OwnFixed DEF IInv, MirrorByCorrelation
      <3>2. row' = row \/ row' = [row EXCEPT ![Mirrored(t)] = report[t]]
        BY <1>11 DEF MirrorByCorrelation, Store, StoreFails
      <3>3. \A u \in Transfers : report[u] \in Definitive /\ row[Own(u)] \in Definitive
                                  => row'[Own(u)] \in Definitive
        BY <3>1, <3>2, MirroredProcess DEF IInv, TypeOK
      <3>4. lost \subseteq lost' /\ UNCHANGED <<misread, stream, report, fallback>>
        BY <1>11 DEF MirrorByCorrelation, Store, StoreFails, streaming
      <3> QED BY <3>1, <3>3, <3>4 DEF IInv, VerdictsGuarded
    <2>8. NoSilentGap'
      BY <1>11, MirroredProcess
      DEF IInv, TypeOK, NoSilentGap, ReportsKnown, MirrorByCorrelation, Store, StoreFails, streaming, Processes, Definitive, Status
    <2> QED BY <2>1, <2>2, <2>3, <2>4, <2>5, <2>6, <2>7, <2>8 DEF IInv
  <1>12. ASSUME NEW p \in Processes, EndTransfer(p) PROVE IInv'
    <2>1. TypeOK'
      <3>1. tp' \in [Processes -> {"STARTED", "COMPLETED", "TERMINATED"}]
        BY <1>12 DEF IInv, TypeOK, EndTransfer
      <3>2. fallback' \in [Processes -> {"none", "queued", "reading", "judging", "done", "dead"}]
        BY <1>12 DEF IInv, TypeOK, EndTransfer
      <3> QED BY <1>12, <3>1, <3>2 DEF IInv, TypeOK, EndTransfer, streaming
    <2>2. ReportsKnown'
      BY <1>12
      DEF IInv, TypeOK, ReportsKnown, InFlight, EndTransfer, streaming, Processes, Definitive, Status
    <2>3. RowsKnown'
      BY <1>12
      DEF IInv, TypeOK, RowsKnown, EndTransfer, streaming, Processes, Definitive, Status
    <2>4. EventsFollowSinks'
      BY <1>12
      DEF IInv, TypeOK, EventsFollowSinks, EndTransfer, streaming, Processes, Definitive, Status
    <2>5. MarksTrue'
      BY <1>12, OwnFixed
      DEF IInv, TypeOK, MarksTrue, InFlight, EndTransfer, streaming, Processes, Definitive, Status
    <2>6. FilesKnown'
      BY <1>12
      DEF IInv, TypeOK, FilesKnown, EndTransfer, streaming, Processes, Definitive, Status
    <2>7. VerdictsGuarded'
      BY <1>12, OwnFixed, OwnProcess
      DEF IInv, TypeOK, VerdictsGuarded, InFlight, EndTransfer, streaming, Processes, Definitive, Status
    <2>8. NoSilentGap'
      BY <1>12
      DEF IInv, TypeOK, NoSilentGap, EndTransfer, streaming, Processes, Definitive, Status
    <2> QED BY <2>1, <2>2, <2>3, <2>4, <2>5, <2>6, <2>7, <2>8 DEF IInv
  <1>13. ASSUME NEW p \in Processes, OnCompleted(p) PROVE IInv'
    <2>1. TypeOK'
      BY <1>13
      DEF IInv, TypeOK, OnCompleted, streaming, Processes, Definitive, Status
    <2>2. ReportsKnown'
      BY <1>13
      DEF IInv, TypeOK, ReportsKnown, InFlight, OnCompleted, streaming, Processes, Definitive, Status
    <2>3. RowsKnown'
      BY <1>13
      DEF IInv, TypeOK, RowsKnown, OnCompleted, streaming, Processes, Definitive, Status
    <2>4. EventsFollowSinks'
      BY <1>13
      DEF IInv, TypeOK, EventsFollowSinks, OnCompleted, streaming, Processes, Definitive, Status
    <2>5. MarksTrue'
      BY <1>13, OwnFixed
      DEF IInv, TypeOK, MarksTrue, InFlight, OnCompleted, streaming, Processes, Definitive, Status
    <2>6. FilesKnown'
      BY <1>13
      DEF IInv, TypeOK, FilesKnown, OnCompleted, streaming, Processes, Definitive, Status
    <2>7. VerdictsGuarded'
      BY <1>13, OwnFixed, OwnProcess
      DEF IInv, TypeOK, VerdictsGuarded, InFlight, OnCompleted, streaming, Processes, Definitive, Status
    <2>8. NoSilentGap'
      BY <1>13
      DEF IInv, TypeOK, NoSilentGap, MarksTrue, EventsFollowSinks, OnCompleted, streaming, Processes, Definitive, Status
    <2> QED BY <2>1, <2>2, <2>3, <2>4, <2>5, <2>6, <2>7, <2>8 DEF IInv
  <1>14. ASSUME NEW p \in Processes, ReadRow(p) PROVE IInv'
    <2>1. TypeOK'
      BY <1>14
      DEF IInv, TypeOK, ReadRow, streaming, Processes, Definitive, Status
    <2>2. ReportsKnown'
      BY <1>14
      DEF IInv, TypeOK, ReportsKnown, InFlight, ReadRow, streaming, Processes, Definitive, Status
    <2>3. RowsKnown'
      BY <1>14
      DEF IInv, TypeOK, RowsKnown, ReadRow, streaming, Processes, Definitive, Status
    <2>4. EventsFollowSinks'
      BY <1>14
      DEF IInv, TypeOK, EventsFollowSinks, ReadRow, streaming, Processes, Definitive, Status
    <2>5. MarksTrue'
      BY <1>14, OwnFixed
      DEF IInv, TypeOK, MarksTrue, InFlight, ReadRow, streaming, Processes, Definitive, Status
    <2>6. FilesKnown'
      BY <1>14
      DEF IInv, TypeOK, FilesKnown, ReadRow, streaming, Processes, Definitive, Status
    <2>7. VerdictsGuarded'
      BY <1>14, OwnFixed, OwnProcess
      DEF IInv, TypeOK, VerdictsGuarded, InFlight, ReadRow, streaming, Processes, Definitive, Status
    <2>8. NoSilentGap'
      BY <1>14
      DEF IInv, TypeOK, NoSilentGap, ReadRow, streaming, Processes, Definitive, Status
    <2> QED BY <2>1, <2>2, <2>3, <2>4, <2>5, <2>6, <2>7, <2>8 DEF IInv
  <1>15. ASSUME NEW p \in Processes, Judge(p) PROVE IInv'
    <2>1. TypeOK'
      BY <1>15, FallbackStatusType
      DEF IInv, TypeOK, Judge, Store, StoreFails, streaming, Processes, Definitive, Status
    <2>2. ReportsKnown'
      BY <1>15, FallbackStatusType
      DEF IInv, TypeOK, ReportsKnown, InFlight, Judge, Store, StoreFails, streaming, Processes, Definitive, Status
    <2>3. RowsKnown'
      BY <1>15, FallbackStatusType
      DEF IInv, TypeOK, RowsKnown, Judge, Store, StoreFails, streaming, Processes, Definitive, Status
    <2>4. EventsFollowSinks'
      BY <1>15, FallbackStatusType
      DEF IInv, TypeOK, EventsFollowSinks, Judge, Store, StoreFails, streaming, Processes, Definitive, Status
    <2>5. MarksTrue'
      BY <1>15, FallbackStatusType, OwnFixed
      DEF IInv, TypeOK, MarksTrue, InFlight, Judge, Store, StoreFails, streaming, Processes, Definitive, Status
    <2>6. FilesKnown'
      BY <1>15, FallbackStatusType
      DEF IInv, TypeOK, FilesKnown, Judge, Store, StoreFails, streaming, Processes, Definitive, Status
    <2>7. VerdictsGuarded'
      BY <1>15, FallbackStatusType, OwnFixed, OwnProcess
      DEF IInv, TypeOK, VerdictsGuarded, InFlight, Judge, Store, StoreFails, streaming, Processes, Definitive, Status
    <2>8. NoSilentGap'
      BY <1>15, FallbackStatusType
      DEF IInv, TypeOK, NoSilentGap, Judge, Store, StoreFails, streaming, Processes, Definitive, Status
    <2> QED BY <2>1, <2>2, <2>3, <2>4, <2>5, <2>6, <2>7, <2>8 DEF IInv
  <1>16. ASSUME NEW s \in Sides, Restart(s) PROVE IInv'
    <2>1. TypeOK'
      BY <1>16
      DEF IInv, TypeOK, Restart, Processes, Definitive, Status, Sides
    <2>2. ReportsKnown'
      BY <1>16
      DEF IInv, TypeOK, ReportsKnown, InFlight, Restart, Processes, Definitive, Status, Sides
    <2>3. RowsKnown'
      BY <1>16
      DEF IInv, TypeOK, RowsKnown, Restart, Processes, Definitive, Status, Sides
    <2>4. EventsFollowSinks'
      BY <1>16
      DEF IInv, TypeOK, EventsFollowSinks, Restart, Processes, Definitive, Status, Sides
    <2>5. MarksTrue'
      BY <1>16, OwnFixed
      DEF IInv, TypeOK, MarksTrue, InFlight, Restart, Processes, Definitive, Status, Own, Sides
    <2>6. FilesKnown'
      BY <1>16
      DEF IInv, TypeOK, FilesKnown, Restart, Processes, Definitive, Status, Sides
    <2>7. VerdictsGuarded'
      BY <1>16, OwnFixed, OwnProcess
      DEF IInv, TypeOK, VerdictsGuarded, InFlight, Restart, Processes, Definitive, Status, Sides
    <2>8. NoSilentGap'
      BY <1>16
      DEF IInv, TypeOK, NoSilentGap, Restart, Processes, Definitive, Status, Sides
    <2> QED BY <2>1, <2>2, <2>3, <2>4, <2>5, <2>6, <2>7, <2>8 DEF IInv
  <1>17. ASSUME NEW p \in Processes, ReadRowThrows(p) \/ JudgeThrows(p) PROVE IInv'
    BY <1>17, SwallowIInv DEF ReadRowThrows, JudgeThrows
  <1>18. CASE UNCHANGED vars
    BY <1>18 DEF IInv, vars, TypeOK, ReportsKnown, RowsKnown, EventsFollowSinks, MarksTrue, FilesKnown,
         VerdictsGuarded, NoSilentGap, Own
  <1> QED BY <1>1, <1>2, <1>3, <1>4, <1>5, <1>6, <1>7, <1>8, <1>9, <1>10, <1>11, <1>12, <1>13, <1>14, <1>15, <1>16, <1>17, <1>18 DEF Next, StreamStep, MirrorStep, FallbackStep

-----------------------------------------------------------------------------
\* Theorem.  The invariant holds in every state the two runtimes can reach.
THEOREM Invariant == Spec => []IInv
  <1> QED BY InitIInv, NextIInv, PTL DEF Spec

\* Theorem.  Every variable keeps its type, for any transfers and flows.
THEOREM TypeCorrect == Spec => []TypeOK
  <1>1. IInv => TypeOK
    BY DEF IInv
  <1> QED BY <1>1, Invariant, PTL

LEMMA EarnedFromRows == IInv => SuccessIsEarned
  <1> SUFFICES ASSUME IInv, NEW p \in Processes, row[p] = "SUCCESS" PROVE Earned(p)
    BY DEF SuccessIsEarned
  <1>1. p[1] \in Sides /\ p[2] \in Transfers
    BY DEF Processes
  <1>2. flow[p[2]].parts \subseteq {"plain", "conforms", "violates", "throws"}
    BY <1>1 DEF IInv, TypeOK, Flow
  <1>3. \/ StreamStatus(flow[p[2]]) = "SUCCESS"
        \/ FallbackStatus(flow[p[2]].landing[p[1]]) = "SUCCESS"
    BY <1>1 DEF IInv, RowsKnown, ReportsKnown
  <1>4. CASE StreamStatus(flow[p[2]]) = "SUCCESS"
    BY <1>2, <1>4 DEF StreamStatus, Earned
  <1>5. CASE FallbackStatus(flow[p[2]].landing[p[1]]) = "SUCCESS"
    <2>1. flow[p[2]].landing[p[1]].outcome \in {"conforms", "violates", "throws"}
      BY <1>1 DEF IInv, TypeOK, Flow, Landing
    <2> QED BY <1>5, <2>1 DEF FallbackStatus, Earned
  <1> QED BY <1>3, <1>4, <1>5

\* Theorem.  No interleaving of sink, mirror and subscriber puts a SUCCESS into
\* a row that no validation earned.
THEOREM SuccessEarned == Spec => []SuccessIsEarned
  <1> QED BY EarnedFromRows, Invariant, PTL

\* Theorem.  Only a failed UPDATE, an unknown process or a swallowed exception of
\* the subscriber's look-ups leaves a completed transfer without a status.
THEOREM NoGap == Spec => []NoSilentGap
  <1>1. IInv => NoSilentGap
    BY DEF IInv
  <1> QED BY <1>1, Invariant, PTL

\* Theorem.  A sink that has sent its data keeps no temporary file.
THEOREM NoLeak == Spec => []NoLeakAfterSending
  <1>1. IInv => NoLeakAfterSending
    BY DEF IInv, FilesKnown, NoLeakAfterSending
  <1> QED BY <1>1, Invariant, PTL

\* Theorem.  A runtime's subscriber keeps out of the transfers it has marked.
THEOREM MarkedKeepsOut == Spec => []MarkedNeverReachesFallback
  <1>1. IInv => MarkedNeverReachesFallback
    BY DEF IInv, MarksTrue, MarkedNeverReachesFallback
  <1> QED BY <1>1, Invariant, PTL

LEMMA VerdictStep ==
    ASSUME IInv, [Next]_vars, NEW t \in Transfers,
           stream[t] = "done", report[t] \in Definitive, row[Own(t)] = report[t]
    PROVE  \/ row'[Own(t)] = row[Own(t)]
           \/ Own(t) \notin mark /\ Own(t) \in misread \cup lost
  <1>1. Own(t) \in Processes /\ Own(t)[2] = t
    BY OwnProcess DEF IInv
  <1>2. fallback[Own(t)] = "judging" => Own(t) \notin mark /\ Own(t) \in misread \cup lost
    BY DEF IInv, VerdictsGuarded, MarksTrue
  <1>3. ASSUME NEW u \in Transfers, PersistAfterTransfer(u) PROVE row'[Own(t)] = row[Own(t)]
    <2>1. u # t
      BY <1>3 DEF PersistAfterTransfer
    <2>2. Own(u) # Own(t)
      BY <1>1, <2>1, OwnProcess DEF IInv
    <2> QED BY <1>1, <1>3, <2>2 DEF IInv, TypeOK, PersistAfterTransfer, Store, StoreFails
  <1>4. ASSUME NEW u \in Transfers, MirrorStep(u) PROVE row'[Own(t)] = row[Own(t)]
    <2>1. row' = row \/ row' = [row EXCEPT ![Mirrored(u)] = report[u]]
      BY <1>4 DEF MirrorStep, MirrorById, MirrorByCorrelation, Store, StoreFails
    <2>2. Mirrored(u) = Own(t) => u = t
      BY <1>1, MirroredProcess
    <2> QED BY <1>1, <2>1, <2>2 DEF IInv, TypeOK
  <1>5. ASSUME NEW p \in Processes, FallbackStep(p)
        PROVE  row'[Own(t)] = row[Own(t)] \/ fallback[Own(t)] = "judging"
    <2>1. CASE Judge(p)
      <3>1. CASE p = Own(t)
        BY <2>1, <3>1 DEF Judge
      <3>2. CASE p # Own(t)
        BY <1>1, <2>1, <3>2 DEF IInv, TypeOK, Judge, Store, StoreFails
      <3> QED BY <3>1, <3>2
    <2>2. CASE OnCompleted(p) \/ ReadRow(p) \/ ReadRowThrows(p) \/ JudgeThrows(p)
      BY <2>2 DEF OnCompleted, ReadRow, ReadRowThrows, JudgeThrows, Swallow
    <2> QED BY <1>5, <2>1, <2>2 DEF FallbackStep
  <1>6. CASE UNCHANGED row
    BY <1>6
  <1>7. ASSUME NEW u \in Transfers, Start(u) \/ (StreamStep(u) /\ ~PersistAfterTransfer(u))
        PROVE  UNCHANGED row
    BY <1>7 DEF Start, StreamStep, BypassedTransfer, Spool, Validate, ValidateThrows, Mark,
           NotifyCallback, Send
  <1>8. ASSUME NEW p \in Processes, EndTransfer(p) PROVE UNCHANGED row
    BY <1>8 DEF EndTransfer
  <1>9. ASSUME NEW s \in Sides, Restart(s) PROVE UNCHANGED row
    BY <1>9 DEF Restart
  <1> QED BY <1>2, <1>3, <1>4, <1>5, <1>6, <1>7, <1>8, <1>9 DEF Next, vars

\* Theorem.  A stored in-stream verdict is overwritten only if the runtime has
\* forgotten its mark and a statement on that very row has failed.
THEOREM VerdictStays == Spec => InStreamVerdictStays
  <1>1. IInv /\ [Next]_vars =>
          [\A t \in Transfers :
             LET p == Own(t) IN
             /\ stream[t] = "done" /\ row[p] = report[t] /\ report[t] \in Definitive
             /\ row'[p] # row[p]
             => p \notin mark /\ p \in misread \cup lost]_vars
    BY VerdictStep
  <1> QED BY <1>1, Invariant, PTL DEF Spec, InStreamVerdictStays
=============================================================================
