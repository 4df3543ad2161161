------------------------------ MODULE RepeatProbe ------------------------------
(***************************************************************************)
(* The repeat probes of the determinism work.  Patches put recorders into  *)
(* the serving process: while a trigger file is there, each forward pass   *)
(* copies the tensors at its stages under the number that a request file   *)
(* holds, and prints to the container's log how repeated requests compare. *)
(* h20-nvfp4-moe.py arms a recorder, sends the same prompt several times,  *)
(* disarms it and takes the records of its own requests from the log.      *)
(* Recorder and tool share nothing but the two files and the log: the log  *)
(* and the files survive a restart of the container, the recorder's memory *)
(* survives a tool that is interrupted or killed, and users of the server  *)
(* have their own passes recorded when a dead tool has left the trigger.   *)
(***************************************************************************)
EXTENDS Integers, FiniteSets, Sequences

CONSTANTS
  Kinds,      \* the recorders of the instance
  Slow,       \* those whose pass may outlast the start of the next tool
  Repeats,    \* requests of a tool that numbers its requests from the log
  Kept,       \* how many requests a recorder keeps (16, modular 8)
  Shared,     \* users send requests while a tool runs
  MaxProbes, MaxFaults, MaxTraffic

\* The last two are of one patch.
AllKinds == {"marlin", "humming", "modular", "linear", "upstream", "qkvz", "single", "twin"}

ASSUME ProbeAssumption ==
  /\ Kinds \subseteq AllKinds /\ Slow \subseteq Kinds /\ Shared \in BOOLEAN
  /\ Repeats \in Nat \ {0} /\ Kept \in Nat \ {0}
  /\ MaxProbes \in Nat /\ MaxFaults \in Nat /\ MaxTraffic \in Nat

VARIABLES
  kind,       \* the recorder that is looked at
  files,      \* the trigger, and the number in the request file or None
  mem,        \* the recorder's memory in the serving process
  log,        \* the records in the container's log, each with the pass that printed
              \* it; no pass prints a record twice
  pass,       \* the forward pass that runs
  up,         \* the server answers
  probe,      \* the tool
  report,     \* what the last tool that came to its end left
  served, faults, probes, traffic   \* counts, for the bounds

vars == <<kind, files, mem, log, pass, up, probe, report, served, faults, probes, traffic>>

None == -1
Stages == <<"entry", "middle", "final">>
AllStages == {"entry", "middle", "final"}
Empty == [i \in {} |-> i]
NoMemory == [active |-> Empty, kept |-> Empty, done |-> {}]
NoPass == [request |-> 0, at |-> 0, id |-> None]
NoProbe == [phase |-> "off", start |-> 0, sent |-> <<>>, alone |-> TRUE]
NoReport == [status |-> "none", start |-> 0, sent |-> <<>>, alone |-> TRUE, records |-> {}]
Disarmed == [trigger |-> FALSE, id |-> None]

-------------------------------------------------------------------------------
(* The recorders: what a stage of a pass does to memory and log.  The tensors
   of a stage are named by the request whose pass it is. *)

RequestId == IF files.trigger THEN files.id ELSE None

With(table, key, value) ==
  [k \in DOMAIN table \cup {key} |-> IF k = key THEN value ELSE table[k]]
Without(table, key) == [k \in DOMAIN table \ {key} |-> table[k]]

Local(stages) == [s \in stages |-> pass.request]
Snapshot(store, id) == IF id \in DOMAIN store THEN store[id] ELSE Empty
Stored(store, id, stage) == With(store, id, With(Snapshot(store, id), stage, pass.request))

\* The least numbers go when there are too many.
Newer(store, i) == {j \in DOMAIN store : j > i}
Newest(store) ==
  [i \in {j \in DOMAIN store : Cardinality(Newer(store, j)) < Kept} |-> store[i]]

Record(ids, snapshots) == [ids |-> ids, snapshots |-> snapshots, pass |-> pass.request]
Pairs(store, ids, id, snapshot) == {Record(<<i, id>>, <<store[i], snapshot>>) : i \in ids}

Outcome(m, records) == [mem |-> m, records |-> records]
Nothing == Outcome(mem, {})

Committed(id, snapshot) ==
  [active |-> Without(mem.active, id), kept |-> Newest(With(mem.kept, id, snapshot)),
   done |-> mem.done]

\* MUTANT: the request that is being kept is compared too.
MarlinCommitSelf(id, snapshot) ==
  Outcome(Committed(id, snapshot), Pairs(mem.kept, DOMAIN mem.kept, id, snapshot))

MarlinCommit(id, snapshot) ==
  Outcome(Committed(id, snapshot), Pairs(mem.kept, DOMAIN mem.kept \ {id}, id, snapshot))

\* The entry begins a snapshot, the final output ends it.
Marlin(stage) ==
  LET id == RequestId
      active == IF stage = "entry" THEN With(mem.active, id, Local({stage}))
                ELSE Stored(mem.active, id, stage)
  IN IF id = None THEN Nothing
     ELSE IF stage = "final" THEN MarlinCommit(id, active[id])
     ELSE Outcome([mem EXCEPT !.active = active], {})

\* Kept and unfinished snapshots in one table, so a request meets itself.
Humming(stage) ==
  LET id == RequestId
      kept == Stored(mem.kept, id, stage)
  IN IF id = None THEN Nothing
     ELSE IF stage # "final" THEN Outcome([mem EXCEPT !.kept = kept], {})
     ELSE Outcome([mem EXCEPT !.kept = Newest(kept)], Pairs(kept, DOMAIN kept, id, kept[id]))

\* The number is read once, before the kernel; the rest is local to the call.
Modular(stage) ==
  LET snapshot == Local(AllStages)
  IN IF stage # "final" \/ pass.id = None THEN Nothing
     ELSE Outcome([mem EXCEPT !.kept = Newest(With(@, pass.id, snapshot))],
                  Pairs(mem.kept, DOMAIN mem.kept, pass.id, snapshot))

Single(stage) ==
  IF stage # "final" \/ pass.id = None THEN Nothing
  ELSE Outcome(mem, {Record(<<pass.id>>, <<Local({"entry", "final"})>>)})

\* Two runs of the kernel on copies of the inputs, in one record.
Twin(stage) == Single(stage)

Both(kept) == {Record(<<i>>, <<kept[i]>>) : i \in {0, 1}}

\* Requests 0 and 1; both are printed when the second has its output.
Linear(stage) ==
  LET id == RequestId
      kept == Stored(mem.kept, id, stage)
  IN IF id \notin {0, 1} THEN Nothing
     ELSE IF /\ id = 1 /\ stage = "final" /\ 0 \in DOMAIN kept
             /\ \A i \in {0, 1} : "final" \in DOMAIN kept[i]
     THEN Outcome([mem EXCEPT !.kept = Empty], Both(kept))
     ELSE Outcome([mem EXCEPT !.kept = kept], {})

\* The stages are layers; each has to be there for both requests.
Upstream(stage) ==
  LET id == RequestId
      kept == Stored(mem.kept, id, stage)
  IN IF id \notin {0, 1} THEN Nothing
     ELSE IF /\ id = 1 /\ stage = "final" /\ 0 \in DOMAIN kept
             /\ \A i \in {0, 1} : DOMAIN kept[i] = AllStages
     THEN Outcome([mem EXCEPT !.kept = Empty], Both(kept))
     ELSE Outcome([mem EXCEPT !.kept = kept], {})

\* The twin runs of the projection, printed at once.
Qkvz(stage) ==
  IF stage # "middle" \/ RequestId \notin {0, 1} THEN Nothing
  ELSE Outcome(mem, {Record(<<RequestId>>, <<Local({stage})>>)})

Captured(stage) ==
  CASE kind = "marlin" -> Marlin(stage)
    [] kind = "humming" -> Humming(stage)
    [] kind = "modular" -> Modular(stage)
    [] kind = "single" -> Single(stage)
    [] kind = "twin" -> Twin(stage)
    [] kind = "linear" -> Linear(stage)
    [] kind = "upstream" -> Upstream(stage)
    [] kind = "qkvz" -> Qkvz(stage)

-------------------------------------------------------------------------------
(* The tools: the number of the first request, and the records taken from
   the log as a report, or as a failure. *)

Numbered == {"marlin", "humming", "modular", "single", "twin"}
Requests == IF kind \in Numbered THEN Repeats ELSE 2

\* start_id of marlin_probe, expert_probe, boundary_probe, single_probe, twin_probe
Logged == UNION {{r.ids[i] : i \in DOMAIN r.ids} : r \in log}
StartId ==
  IF kind \in Numbered /\ Logged # {} THEN 1 + CHOOSE i \in Logged : \A j \in Logged : j <= i
  ELSE 0

Wanted == probe.start..(probe.start + Requests - 1)
Own == {r \in log : \A i \in DOMAIN r.ids : r.ids[i] \in Wanted}

Written(records) == [status |-> "written", records |-> records]
Refused == [status |-> "refused", records |-> {}]

AllPairs == Cardinality(Own) = (Requests * (Requests - 1)) \div 2
MarlinReport == IF AllPairs /\ \A r \in Own : r.ids[1] # r.ids[2] THEN Written(Own) ELSE Refused
ModularReport == IF AllPairs THEN Written(Own) ELSE Refused
HummingReport == IF AllPairs THEN Written(Own) ELSE Refused
SingleReport == IF Cardinality(Own) = Requests THEN Written(Own) ELSE Refused
TwinReport == SingleReport

Of(id) == {r \in log : r.ids = <<id>>}
Latest(records) == CHOOSE r \in records : \A q \in records : q.pass <= r.pass

\* MUTANT: the first record of a number counts, not the last one.
FirstOfBoth ==
  IF \E i \in {0, 1} : Of(i) = {} THEN Refused
  ELSE Written({CHOOSE r \in Of(i) : \A q \in Of(i) : r.pass <= q.pass : i \in {0, 1}})

LastOfBoth ==
  IF \E i \in {0, 1} : Of(i) = {} THEN Refused
  ELSE Written({Latest(Of(i)) : i \in {0, 1}})

LinearReport == LastOfBoth
UpstreamReport == LastOfBoth
QkvzReport == LastOfBoth

Report ==
  CASE kind = "marlin" -> MarlinReport
    [] kind = "humming" -> HummingReport
    [] kind = "modular" -> ModularReport
    [] kind = "single" -> SingleReport
    [] kind = "twin" -> TwinReport
    [] kind = "linear" -> LinearReport
    [] kind = "upstream" -> UpstreamReport
    [] kind = "qkvz" -> QkvzReport

-------------------------------------------------------------------------------
Init ==
  /\ kind \in Kinds
  /\ files = Disarmed /\ mem = NoMemory /\ log = {} /\ pass = NoPass /\ up = TRUE
  /\ probe = NoProbe /\ report = NoReport
  /\ served = 0 /\ faults = 0 /\ probes = 0 /\ traffic = 0

Tools == <<probe, report, probes>>
Server == <<mem, log, pass, up, served>>

Started ==
  /\ pass' = [request |-> served + 1, at |-> 1, id |-> None]
  /\ served' = served + 1

\* Three recorders read the number once, at the entry; two of them enter it in
\* a table of done requests and do not take it again.
ReadsNumber(stage) == kind \in {"modular", "single", "twin"} /\ stage = "entry"
KeepsTable == kind \in {"single", "twin"}
NumberRead == IF KeepsTable /\ RequestId \in mem.done THEN None ELSE RequestId

\* Stages follow one another.
Stage ==
  /\ pass # NoPass
  /\ LET stage == Stages[pass.at]
         reads == ReadsNumber(stage)
         captured == Captured(stage)
     IN /\ log' = log \cup captured.records
        /\ mem' = IF reads /\ KeepsTable /\ RequestId # None
                  THEN [mem EXCEPT !.done = @ \cup {RequestId}] ELSE captured.mem
        /\ pass' = IF stage = "final" THEN NoPass
                   ELSE [request |-> pass.request, at |-> pass.at + 1,
                         id |-> IF reads THEN NumberRead ELSE pass.id]
  /\ UNCHANGED <<kind, files, up, probe, report, served, faults, probes, traffic>>

\* Someone else's request.
Traffic ==
  /\ traffic < MaxTraffic /\ up /\ pass = NoPass
  /\ \/ probe.phase = "off" \/ Shared
     \/ probe.phase = "numbered" /\ kind \in Slow
  /\ Started /\ traffic' = traffic + 1
  /\ probe' = IF probe.phase = "off" THEN probe ELSE [probe EXCEPT !.alone = FALSE]
  /\ UNCHANGED <<kind, files, mem, log, up, report, faults, probes>>

\* The tool reads the log and numbers its requests ...
Number ==
  /\ probe.phase = "off" /\ probes < MaxProbes
  /\ kind \in Slow \/ pass = NoPass
  /\ probe' = [phase |-> "numbered", start |-> StartId, sent |-> <<>>, alone |-> (pass = NoPass)]
  /\ probes' = probes + 1 /\ report' = NoReport
  /\ UNCHANGED <<kind, files, faults, traffic>> /\ UNCHANGED Server

\* ... and puts the trigger there,
Arm ==
  /\ probe.phase = "numbered"
  /\ files' = [trigger |-> TRUE, id |-> None]
  /\ probe' = [probe EXCEPT !.phase = "armed"]
  /\ UNCHANGED <<kind, report, faults, probes, traffic>> /\ UNCHANGED Server

\* then for each request writes its number
WriteId ==
  /\ probe.phase = "armed" /\ Len(probe.sent) < Requests
  /\ files' = [files EXCEPT !.id = probe.start + Len(probe.sent)]
  /\ probe' = [probe EXCEPT !.phase = "written"]
  /\ UNCHANGED <<kind, report, faults, probes, traffic>> /\ UNCHANGED Server

\* and sends it.
Send ==
  /\ probe.phase = "written" /\ up /\ pass = NoPass
  /\ Started
  /\ probe' = [phase |-> "waiting", start |-> probe.start,
               sent |-> Append(probe.sent, served + 1), alone |-> probe.alone]
  /\ UNCHANGED <<kind, files, mem, log, up, report, faults, probes, traffic>>

Answer ==
  /\ probe.phase = "waiting" /\ pass.request # probe.sent[Len(probe.sent)]
  /\ probe' = [probe EXCEPT !.phase = "armed"]
  /\ UNCHANGED <<kind, files, report, faults, probes, traffic>> /\ UNCHANGED Server

\* finally: the files go, whether all requests were answered,
Disarm ==
  /\ probe.phase = "armed" /\ Len(probe.sent) = Requests
  /\ files' = Disarmed
  /\ probe' = [probe EXCEPT !.phase = "disarmed"]
  /\ UNCHANGED <<kind, report, faults, probes, traffic>> /\ UNCHANGED Server

\* or the server did not answer.
Unanswered ==
  /\ probe.phase = "written" /\ ~up
  /\ files' = Disarmed /\ probe' = NoProbe
  /\ UNCHANGED <<kind, report, faults, probes, traffic>> /\ UNCHANGED Server

Collect ==
  /\ probe.phase = "disarmed"
  /\ report' = [status |-> Report.status, start |-> probe.start, sent |-> probe.sent,
                alone |-> probe.alone, records |-> Report.records]
  /\ probe' = NoProbe
  /\ UNCHANGED <<kind, files, faults, probes, traffic>> /\ UNCHANGED Server

\* The tool is interrupted, and tidies up, or it is killed, and does not.
Cut ==
  /\ probe.phase # "off" /\ faults < MaxFaults
  /\ \/ probe.phase \in {"armed", "written", "waiting"} /\ files' = Disarmed
     \/ files' = files
  /\ probe' = NoProbe /\ faults' = faults + 1
  /\ UNCHANGED <<kind, report, probes, traffic>> /\ UNCHANGED Server

\* The container restarts; a tool that waits for an answer fails.
Restart ==
  /\ up /\ faults < MaxFaults
  /\ up' = FALSE /\ mem' = NoMemory /\ pass' = NoPass /\ faults' = faults + 1
  /\ IF probe.phase = "waiting" THEN probe' = NoProbe /\ files' = Disarmed
     ELSE UNCHANGED <<probe, files>>
  /\ UNCHANGED <<kind, log, report, served, probes, traffic>>

\* It loads the model for minutes: no tool is still sending when it is ready.
Ready ==
  /\ ~up /\ up' = TRUE
  /\ probe.phase \in {"off", "disarmed"}
  /\ UNCHANGED <<kind, files, mem, log, pass, served, faults, traffic>> /\ UNCHANGED Tools

Next ==
  \/ Stage \/ Traffic \/ Number \/ Arm \/ WriteId \/ Send \/ Answer
  \/ Disarm \/ Unanswered \/ Collect \/ Cut \/ Restart \/ Ready

Spec == Init /\ [][Next]_vars
-------------------------------------------------------------------------------
StagesOf ==
  CASE kind \in {"single", "twin"} -> {"entry", "final"}
    [] kind = "qkvz" -> {"middle"}
    [] OTHER -> AllStages

(* A report compares the requests of the tool that wrote it and nothing else:
   every snapshot in it has all the stages, each from the pass of the request
   that this tool sent under that number, whatever earlier tools, killed or
   interrupted at any point, restarts and users left in the files, in the
   recorder's memory and in the log (the captures of the patches and the
   probes of h20-nvfp4-moe.py). *)
ReportIsOwn ==
  report.status = "written" =>
    \A r \in report.records : \A i \in DOMAIN r.ids :
      /\ r.ids[i] - report.start + 1 \in DOMAIN report.sent
      /\ r.snapshots[i] = [s \in StagesOf |-> report.sent[r.ids[i] - report.start + 1]]

(* A tool that had all its requests answered, with no pass but its own since
   it read the log, reports: what cut tools, restarts and users left behind
   never makes it refuse.  Humming's recorder is excepted, which pairs each
   request with itself so that its tool always refuses.  The other two of
   which the tool counts the pairs refuse when the recorder holds a number
   that the log does not: modular's after any cut, marlin's only if the killed
   tool's trigger outlived a restart and a user's pass was the first then. *)
QuietProbeReports ==
  report.status = "refused" =>
    \/ ~report.alone
    \/ kind = "humming"
    \/ kind = "modular" /\ faults > 0
    \/ kind = "marlin" /\ faults > 1 /\ traffic > 0
===============================================================================
