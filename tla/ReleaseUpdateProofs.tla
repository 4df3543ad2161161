------------------------- MODULE ReleaseUpdateProofs -------------------------
(***************************************************************************)
(* Proofs about ReleaseUpdate, for any set of releases.                    *)
(*                                                                         *)
(* A command looks at the store once and then writes, and may be cut short *)
(* or orphaned in between, so none of the properties is inductive.  What   *)
(* is: that each write still to come finds what it needs (Established),    *)
(* and that the links go back before the state file does (InOrder).  Both  *)
(* are about `todo`, so the lemmas on sequences of writes come first.      *)
(***************************************************************************)
EXTENDS ReleaseUpdate, SequenceTheorems, TLAPS

\* A sequence of writes of one kind is a sequence of writes.
LEMMA Kinds ==
  /\ Seq(Later) \subseteq Seq(Writes)
  /\ Seq(Linking) \subseteq Seq(Writes)
  /\ Seq(Undoing) \subseteq Seq(Writes)
  /\ Seq(Removing) \subseteq Seq(Writes)
  /\ Seq(Linking \ {"staged"}) \subseteq Seq(Linking)
  BY SeqMonotonic DEF Later, Linking, Undoing, Removing, Writes

\* The head and the tail of two sequences joined, the first of them not empty.
LEMMA HeadTailJoin ==
  ASSUME NEW S, NEW s \in Seq(S), NEW t \in Seq(S), s # <<>>
  PROVE  /\ s \o t \in Seq(S) /\ s \o t # <<>>
         /\ Head(s \o t) = Head(s) /\ Tail(s \o t) = Tail(s) \o t
  OBVIOUS

\* An activation makes one of the two links or both.
LEMMA ActivationLinks == ASSUME NEW r PROVE Activation(r) \in Seq({"previous", "current"})
  <1>1. /\ <<>> \in Seq({"previous", "current"})
        /\ <<"current">> \in Seq({"previous", "current"})
        /\ <<"previous", "current">> \in Seq({"previous", "current"})
    OBVIOUS
  <1>2. QED BY <1>1 DEF Activation

\* prepare records the update before it activates the release.
LEMMA PreparationRecords ==
  ASSUME NEW r
  PROVE  /\ Preparation(r) \in Seq(Linking) /\ Preparation(r) # <<>>
         /\ Head(Preparation(r)) = "preparing"
         /\ Tail(Preparation(r)) \in Seq(Later)
  <1>1. {"previous", "current"} \subseteq Linking /\ {"previous", "current"} \subseteq Later
    BY DEF Linking, Later, Writes
  <1>2. Activation(r) \in Seq(Linking) /\ Activation(r) \in Seq(Later)
    BY <1>1, ActivationLinks, SeqMonotonic
  <1>3. <<"staged">> \in Seq(Linking) /\ <<"staged">> \in Seq(Later)
    BY DEF Linking, Later, Writes
  <1>4. /\ <<"preparing">> \in Seq(Linking) /\ <<"preparing">> # <<>>
        /\ Head(<<"preparing">>) = "preparing"
    BY DEF Linking
  <1> DEFINE start == <<"preparing">> \o Activation(r)
  <1>5. /\ start \in Seq(Linking) /\ start # <<>>
        /\ Head(start) = "preparing" /\ Tail(start) = Activation(r)
    <2>1. Tail(<<"preparing">> \o Activation(r)) = Activation(r)
      BY <1>2
    <2>2. QED BY <1>2, <1>4, <2>1, HeadTailJoin
  <1>6. Preparation(r) = start \o <<"staged">>
    BY DEF Preparation
  <1> HIDE DEF start
  <1> DEFINE end == <<"staged">>
  <1> HIDE DEF end
  <1>7. /\ start \o end \in Seq(Linking) /\ start \o end # <<>>
        /\ Head(start \o end) = "preparing"
        /\ Tail(start \o end) = Activation(r) \o end
    <2>1. start \in Seq(Linking) /\ end \in Seq(Linking) /\ start # <<>>
      BY <1>3, <1>5 DEF end
    <2>2. /\ start \o end \in Seq(Linking) /\ start \o end # <<>>
          /\ Head(start \o end) = Head(start)
          /\ Tail(start \o end) = Tail(start) \o end
      BY <2>1, HeadTailJoin, Zenon
    <2>3. QED BY <1>5, <2>2
  <1>8. Activation(r) \o <<"staged">> \in Seq(Later)
    BY <1>2, <1>3
  <1>9. QED BY <1>6, <1>7, <1>8 DEF end

\* A fresh installation stages and qualifies a release before it activates it.
LEMMA AdvanceStages ==
  ASSUME NEW r
  PROVE  LET p == <<"stage", "qualify">> \o Activation(r) IN
         /\ p \in Seq(Linking \ {"staged"}) /\ p # <<>>
         /\ Head(p) = "stage" /\ Tail(p) \in Seq(Later)
  <1> DEFINE S == Linking \ {"staged"}
  <1>1. {"previous", "current"} \subseteq S /\ {"previous", "current"} \subseteq Later
    BY DEF Linking, Later, Writes
  <1>2. Activation(r) \in Seq(S) /\ Activation(r) \in Seq(Later)
    BY <1>1, ActivationLinks, SeqMonotonic
  <1>3. <<"stage", "qualify">> \in Seq(S) /\ <<"qualify">> \in Seq(Later)
    BY DEF Linking, Later, Writes
  <1>4. /\ Head(<<"stage", "qualify">>) = "stage"
        /\ Tail(<<"stage", "qualify">>) = <<"qualify">>
        /\ <<"stage", "qualify">> # <<>>
    OBVIOUS
  <1>5. <<"qualify">> \o Activation(r) \in Seq(Later)
    BY <1>2, <1>3
  <1> DEFINE start == <<"stage", "qualify">>
  <1> HIDE DEF start
  <1>6. start \in Seq(S) /\ start # <<>> /\ Head(start) = "stage"
        /\ Tail(start) = <<"qualify">>
    BY <1>3, <1>4 DEF start
  <1>7. /\ start \o Activation(r) \in Seq(S) /\ start \o Activation(r) # <<>>
        /\ Head(start \o Activation(r)) = "stage"
        /\ Tail(start \o Activation(r)) = <<"qualify">> \o Activation(r)
    <2>1. /\ start \o Activation(r) \in Seq(S) /\ start \o Activation(r) # <<>>
          /\ Head(start \o Activation(r)) = Head(start)
          /\ Tail(start \o Activation(r)) = Tail(start) \o Activation(r)
      BY <1>2, <1>6, HeadTailJoin
    <2>2. QED BY <1>6, <2>1
  <1>8. QED BY <1>5, <1>7 DEF start

\* rollback and recover make three writes.
LEMMA UndoRestores ==
  /\ Undo \in Seq(Undoing) /\ Undo # <<>>
  /\ Head(Undo) = "restore_current" /\ Tail(Undo) \in Seq(Later)
  BY DEF Undo, Undoing, Later, Writes
-----------------------------------------------------------------------------
(* Established, after a step of each sort.                                 *)

\* A write belongs to one kind of command.
LEMMA KindsDisjoint ==
  /\ Linking \cap Undoing = {} /\ Linking \cap Removing = {} /\ Undoing \cap Removing = {}
  /\ "stage" \in Linking /\ "preparing" \in Linking /\ "remove_some" \in Removing
  BY DEF Linking, Undoing, Removing

\* The first of several writes of a kind is of that kind, and so are the others.
LEMMA OfKind ==
  ASSUME NEW K, NEW s \in Seq(K), s # <<>>
  PROVE  Head(s) \in K /\ Tail(s) \in Seq(K)
  OBVIOUS

\* Nothing is left to be established.
LEMMA NothingLeft == ASSUME todo' = <<>> PROVE Established'
  BY DEF Established, Pending, Upcoming

\* A command that makes links begins.
LEMMA LinkingBegins ==
  ASSUME todo' \in Seq(Linking), todo' # <<>>, Tail(todo') \in Seq(Later),
         saved' \in intact' \cup {NoRelease},
         subject' \in intact' \/ (Head(todo') = "stage" /\ subject' \in Release),
         intact' \subseteq Release,
         \/ Head(todo') = "preparing" /\ ~Updating' /\ Eligible(subject)'
         \/ Head(todo') # "preparing" /\ todo' \in Seq(Linking \ {"staged"})
  PROVE  Established'
  <1>1. Head(todo') \in Linking
    BY OfKind
  <1>2. todo' \notin Seq(Undoing) /\ todo' \notin Seq(Removing)
    BY <1>1, OfKind, KindsDisjoint
  <1>3. Head(todo') # "remove_some"
    BY <1>1, KindsDisjoint
  <1>4. QED BY <1>2, <1>3 DEF Established, Pending, Upcoming

\* A command that takes an update back begins, or one that ends it.
LEMMA UndoingBegins ==
  ASSUME todo' \in Seq(Undoing), todo' # <<>>, Tail(todo') \in Seq(Later)
  PROVE  Established'
  <1>1. Head(todo') \in Undoing
    BY OfKind
  <1>2. todo' \notin Seq(Linking) /\ todo' \notin Seq(Removing)
    BY <1>1, OfKind, KindsDisjoint
  <1>3. Head(todo') \notin {"stage", "preparing", "remove_some"}
    BY <1>1, KindsDisjoint
  <1>4. QED BY <1>2, <1>3 DEF Established, Pending, Upcoming

\* A command that discards a release begins.
LEMMA RemovingBegins ==
  ASSUME todo' \in Seq(Removing), todo' # <<>>, Tail(todo') \in Seq(Later),
         ~Updating', subject' \in Release \ {current', previous'}
  PROVE  Established'
  <1>1. Head(todo') \in Removing
    BY OfKind
  <1>2. todo' \notin Seq(Linking) /\ todo' \notin Seq(Undoing)
    BY <1>1, OfKind, KindsDisjoint
  <1>3. Head(todo') \notin {"stage", "preparing"}
    BY <1>1, KindsDisjoint
  <1>4. QED BY <1>2, <1>3 DEF Established, Pending, Upcoming

\* One write is made, and leaves what the command has established for the others.
LEMMA WriteMade ==
  ASSUME Established, todo # <<>>, todo' = Tail(todo),
         Pending(Linking) =>
           /\ saved' \in intact' \cup {NoRelease} /\ subject' \in intact'
           /\ Updating' \/ todo \in Seq(Linking \ {"staged"}),
         Pending(Removing) => ~Updating'
  PROVE  Established'
  <1>1. CASE todo' = <<>>
    BY <1>1, NothingLeft
  <1>2. CASE todo' # <<>>
    <2>1. todo' \in Seq(Later)
      BY DEF Established
    <2>2. Head(todo') \in Later /\ Tail(todo') \in Seq(Later)
      BY <1>2, <2>1, OfKind
    <2>3. Head(todo') \notin {"stage", "preparing", "remove_some"}
      BY <2>2 DEF Later
    <2>4. \A K : todo \in Seq(K) => todo' \in Seq(K) /\ Head(todo') \in K
      BY <1>2, OfKind
    <2>5. Pending(Linking)' \/ Pending(Undoing)' \/ Pending(Removing)'
      BY <1>2, <2>4 DEF Established, Pending
    <2>6. /\ Pending(Linking)' => Pending(Linking)
          /\ Pending(Removing)' => Pending(Removing)
      <3>1. ASSUME NEW K, todo' \in Seq(K) PROVE Head(todo') \in K
        BY <1>2, <3>1, OfKind
      <3>2. QED BY <2>4, <3>1, KindsDisjoint DEF Established, Pending
    <2>7. QED BY <1>2, <2>2, <2>3, <2>4, <2>5, <2>6 DEF Established, Upcoming
  <1>3. QED BY <1>1, <1>2
-----------------------------------------------------------------------------
(* Programs, each of which is a sequence of writes.                        *)

\* The programs of the commands are written in Writes.
LEMMA ProgramTypes ==
  ASSUME NEW r
  PROVE  /\ Activation(r) \in Seq(Writes) /\ Preparation(r) \in Seq(Writes)
         /\ <<"stage", "qualify">> \o Activation(r) \in Seq(Writes)
         /\ Undo \in Seq(Writes)
         /\ <<>> \in Seq(Writes) /\ <<"clear">> \in Seq(Writes)
         /\ <<"stage">> \in Seq(Writes) /\ <<"qualify">> \in Seq(Writes)
         /\ <<"current", "previous">> \in Seq(Writes)
         /\ <<"unqualify">> \in Seq(Writes)
         /\ <<"remove_some", "remove_rest", "unqualify">> \in Seq(Writes)
  <1>1. Activation(r) \in Seq(Writes)
    <2>1. {"previous", "current"} \subseteq Writes
      BY DEF Writes
    <2>2. QED BY <2>1, ActivationLinks, SeqMonotonic
  <1>2. Preparation(r) \in Seq(Writes) /\ Undo \in Seq(Writes)
    BY PreparationRecords, UndoRestores, Kinds
  <1>3. <<"stage", "qualify">> \o Activation(r) \in Seq(Writes)
    BY AdvanceStages, Kinds
  <1>4. /\ <<>> \in Seq(Writes) /\ <<"clear">> \in Seq(Writes)
        /\ <<"stage">> \in Seq(Writes) /\ <<"qualify">> \in Seq(Writes)
        /\ <<"current", "previous">> \in Seq(Writes)
        /\ <<"unqualify">> \in Seq(Writes)
        /\ <<"remove_some", "remove_rest", "unqualify">> \in Seq(Writes)
    BY DEF Writes
  <1>5. QED BY <1>1, <1>2, <1>3, <1>4
-----------------------------------------------------------------------------
(* The types.                                                              *)

\* Nothing is installed at first.
LEMMA SafeInit == Init => ReleasesSafe
  <1> SUFFICES ASSUME Init PROVE ReleasesSafe
    OBVIOUS
  <1>1. <<>> \in Seq(Writes)
    BY ProgramTypes
  <1>2. TypeOK
    BY <1>1 DEF Init, TypeOK, Link, Idle, Places, CutoverActive
  <1>3. LinksResolve /\ UpdateReleasesKept
    BY DEF Init, LinksResolve, UpdateReleasesKept, Updating, Idle
  <1>4. Established
    BY DEF Init, Established, Pending, Upcoming
  <1>5. QED BY <1>2, <1>3, <1>4 DEF ReleasesSafe

\* A command that begins has an argument and a program.
LEMMA CommandTypes ==
  ASSUME TypeOK, NEW program \in Seq(Writes), NEW r \in Link, Command(program, r)
  PROVE  TypeOK'
  BY DEF TypeOK, Command, Run, Places, store, links, Link

\* No step leaves the types: a release is staged, or begun to be removed, only if
\* it is one.
LEMMA TypeStep == ReleasesSafe /\ [Next]_vars => TypeOK'
  <1> SUFFICES ASSUME ReleasesSafe, [Next]_vars PROVE TypeOK'
    OBVIOUS
  <1>t. TypeOK /\ UpdateReleasesKept /\ Established
    BY DEF ReleasesSafe
  <1>1. ASSUME NEW r \in Release,
               Stage(r) \/ Qualify(r) \/ Activate(r) \/ Discard(r) \/ Advance(r)
                 \/ Prepare(r)
        PROVE  TypeOK'
    <2>1. r \in Link
      BY DEF Link
    <2>2. QED BY <1>t, <1>1, <2>1, ProgramTypes, CommandTypes
      DEF Stage, Qualify, Activate, Discard, Advance, Prepare
  <1>2. CASE RollBackLinks \/ Commit \/ UndoUpdate
    <2>1. previous \in Link /\ update.target \in Link
      BY <1>t DEF TypeOK
    <2>2. QED BY <1>t, <1>2, <2>1, ProgramTypes, CommandTypes
      DEF RollBackLinks, Commit, UndoUpdate
  <1>3. CASE WriteStep
    <2>1. todo # <<>> /\ Head(todo) \in Writes /\ Tail(todo) \in Seq(Writes)
      BY <1>t, <1>3, OfKind DEF WriteStep, Write, StageRelease, QualifyRelease,
        LinkPrevious, LinkCurrent, RecordPreparing, RecordStaged, RestoreCurrent,
        RestorePrevious, ClearUpdate, RemoveSome, RemoveRest, Unqualify, TypeOK
    <2>2. <<>> \in Seq(Writes)
      BY ProgramTypes
    <2> USE <1>t, <2>1, <2>2 DEF TypeOK, Write, Done, Die, store, links, Link
    <2>3. CASE StageRelease BY <2>3 DEF StageRelease, Established, Upcoming
    <2>4. CASE QualifyRelease
      <3>1. subject \in Release
        <4>1. Pending(Linking)
          BY <2>4, OfKind, KindsDisjoint DEF QualifyRelease, Established, Pending,
            Undoing, Removing
        <4>2. QED BY <2>4, <4>1 DEF QualifyRelease, Established, Upcoming
      <3>2. QED BY <2>4, <3>1 DEF QualifyRelease
    <2>5. CASE LinkPrevious BY <2>5 DEF LinkPrevious
    <2>6. CASE LinkCurrent BY <2>6 DEF LinkCurrent
    <2>7. CASE RecordPreparing BY <2>7 DEF RecordPreparing
    <2>8. CASE RecordStaged BY <2>8 DEF RecordStaged
    <2>9. CASE RestoreCurrent BY <2>9 DEF RestoreCurrent
    <2>10. CASE RestorePrevious BY <2>10 DEF RestorePrevious
    <2>11. CASE ClearUpdate BY <2>11 DEF ClearUpdate, Idle
    <2>12. CASE RemoveSome BY <2>12 DEF RemoveSome, Established, Upcoming
    <2>13. CASE RemoveRest BY <2>13 DEF RemoveRest
    <2>14. CASE Unqualify BY <2>14 DEF Unqualify
    <2>15. QED BY <1>3, <2>3, <2>4, <2>5, <2>6, <2>7, <2>8, <2>9, <2>10, <2>11,
      <2>12, <2>13, <2>14 DEF WriteStep
  <1>4. CASE ScriptStep \/ (\E r \in Release : UpdateBegins(r))
    <2> USE <1>t, ProgramTypes DEF TypeOK, Goto, Exits, Run, command, store, links,
      Link, Places, CutoverActive
    <2>1. ASSUME NEW r \in Release, UpdateBegins(r) PROVE TypeOK'
      BY <2>1 DEF UpdateBegins
    <2>2. CASE Prepared BY <2>2 DEF Prepared
    <2>3. CASE RestartService BY <2>3 DEF RestartService
    <2>4. CASE ServiceReady BY <2>4 DEF ServiceReady
    <2>5. CASE Committed BY <2>5 DEF Committed
    <2>6. CASE UpdateFails BY <2>6 DEF UpdateFails
    <2>7. CASE Undone BY <2>7 DEF Undone
    <2>8. CASE RestartFails BY <2>8 DEF RestartFails
    <2>9. CASE CommandEnds BY <2>9 DEF CommandEnds
    <2>10. QED BY <1>4, <2>1, <2>2, <2>3, <2>4, <2>5, <2>6, <2>7, <2>8, <2>9
      DEF ScriptStep
  <1>5. CASE HelperFails
    BY <1>t, <1>5, ProgramTypes DEF HelperFails, Die, TypeOK, store, links
  <1>6. CASE ScriptKilled
    <2>1. todo # <<>> => Own \in Seq(Writes)
      BY <1>t DEF Own, TypeOK
    <2>2. QED BY <1>t, <1>6, <2>1, ProgramTypes
      DEF ScriptKilled, Exits, TypeOK, command, store, links, Link, Places
  <1>7. CASE ServiceStarts \/ ServiceStops
    BY <1>t, <1>7 DEF ServiceStarts, ServiceStops, TypeOK, command, store, links, Link
  <1>8. CASE UNCHANGED vars
    BY <1>t, <1>8 DEF vars, TypeOK
  <1>9. QED BY <1>1, <1>2, <1>3, <1>4, <1>5, <1>6, <1>7, <1>8 DEF Next
-----------------------------------------------------------------------------
(* The links, and the releases of an update in progress.                   *)

\* Of two kinds of commands only one is in progress.
LEMMA OneKind ==
  ASSUME Established, todo # <<>>
  PROVE  /\ Head(todo) \in Linking => Pending(Linking)
         /\ Head(todo) \in Removing => Pending(Removing)
  BY OfKind, KindsDisjoint DEF Established, Pending

\* What the steps that write neither the store nor the links nor the state file
\* leave alone.
LEMMA LinksKept ==
  ASSUME LinksResolve, UpdateReleasesKept, UNCHANGED <<store, links, update>>
  PROVE  LinksResolve' /\ UpdateReleasesKept'
  BY DEF LinksResolve, UpdateReleasesKept, Updating, Eligible, store, links

\* The store, the links and the state file change by writes only.
LEMMA LinksOrWrites ==
  ASSUME [Next]_vars, ~WriteStep
  PROVE  UNCHANGED <<store, links, update>>
  <1>1. ASSUME NEW r \in Release,
               Stage(r) \/ Qualify(r) \/ Activate(r) \/ Discard(r) \/ Advance(r)
                 \/ Prepare(r) \/ UpdateBegins(r)
        PROVE  UNCHANGED <<store, links, update>>
    BY <1>1 DEF Stage, Qualify, Activate, Discard, Advance, Prepare, UpdateBegins,
      Command
  <1>2. CASE RollBackLinks \/ Commit \/ UndoUpdate
    BY <1>2 DEF RollBackLinks, Commit, UndoUpdate, Command
  <1>3. CASE ScriptStep
    BY <1>3 DEF ScriptStep, Prepared, RestartService, ServiceReady, Committed,
      UpdateFails, Undone, RestartFails, CommandEnds
  <1>4. CASE HelperFails \/ ScriptKilled \/ ServiceStarts \/ ServiceStops
    BY <1>4 DEF HelperFails, ScriptKilled, ServiceStarts, ServiceStops
  <1>5. CASE UNCHANGED vars
    BY <1>5 DEF vars, store, links
  <1>6. QED BY <1>1, <1>2, <1>3, <1>4, <1>5 DEF Next

\* No write makes a link dangle, or removes what an update in progress needs.
LEMMA LinksStep == ReleasesSafe /\ [Next]_vars => LinksResolve' /\ UpdateReleasesKept'
  <1> SUFFICES ASSUME ReleasesSafe, [Next]_vars
               PROVE  LinksResolve' /\ UpdateReleasesKept'
    OBVIOUS
  <1>t. TypeOK /\ LinksResolve /\ UpdateReleasesKept /\ Established
    BY DEF ReleasesSafe
  <1>1. CASE UNCHANGED <<store, links, update>>
    BY <1>t, <1>1, LinksKept
  <1>2. CASE WriteStep
    <2> USE <1>t DEF Write, Done, Die, store, links, LinksResolve, UpdateReleasesKept,
      Updating, Eligible
    <2>1. CASE StageRelease BY <2>1 DEF StageRelease
    <2>2. CASE QualifyRelease BY <2>2 DEF QualifyRelease
    <2>3. CASE LinkPrevious
      <3>1. Pending(Linking) BY <2>3, OneKind DEF LinkPrevious, Linking
      <3>2. QED BY <2>3, <3>1 DEF LinkPrevious, Established
    <2>4. CASE LinkCurrent
      <3>1. Pending(Linking) BY <2>4, OneKind DEF LinkCurrent, Linking
      <3>2. QED BY <2>4, <3>1 DEF LinkCurrent, Established, Upcoming
    <2>5. CASE RecordPreparing BY <2>5 DEF RecordPreparing, Established, Upcoming
    <2>6. CASE RecordStaged
      <3>1. Pending(Linking) BY <2>6, OneKind DEF RecordStaged, Linking
      <3>2. todo \notin Seq(Linking \ {"staged"})
        BY <2>6, OfKind DEF RecordStaged
      <3>3. Updating BY <2>6, <3>1, <3>2 DEF RecordStaged, Established, Upcoming
      <3>4. QED BY <2>6, <3>3 DEF RecordStaged, TypeOK
    <2>7. CASE RestoreCurrent BY <2>7 DEF RestoreCurrent, Restorable
    <2>8. CASE RestorePrevious BY <2>8 DEF RestorePrevious, Restorable
    <2>9. CASE ClearUpdate BY <2>9 DEF ClearUpdate, Idle
    <2>10. CASE RemoveSome
      <3>1. Pending(Removing) BY <2>10, OneKind DEF RemoveSome, Removing
      <3>2. ~Updating /\ subject \in Release \ {current, previous}
        BY <2>10, <3>1 DEF RemoveSome, Established, Upcoming
      <3>3. QED BY <2>10, <3>2, NoReleaseAssumption DEF RemoveSome
    <2>11. CASE RemoveRest BY <2>11 DEF RemoveRest
    <2>12. CASE Unqualify
      <3>1. Pending(Removing) BY <2>12, OneKind DEF Unqualify, Removing
      <3>2. ~Updating BY <2>12, <3>1 DEF Unqualify, Established
      <3>3. QED BY <2>12, <3>2 DEF Unqualify
    <2>13. QED BY <1>2, <2>1, <2>2, <2>3, <2>4, <2>5, <2>6, <2>7, <2>8, <2>9, <2>10,
      <2>11, <2>12 DEF WriteStep
  <1>3. CASE ~WriteStep
    <2>1. UNCHANGED <<store, links, update>>
      BY <1>3, LinksOrWrites
    <2>2. QED BY <1>1, <2>1
  <1>4. QED BY <1>2, <1>3
-----------------------------------------------------------------------------
(* What a command has established.                                         *)

\* A step that changes neither the program nor what Established says of the rest.
LEMMA EstablishedKept ==
  ASSUME Established, UNCHANGED <<store, links, update, todo, subject, saved>>
  PROVE  Established'
  BY DEF Established, Pending, Upcoming, Updating, Eligible, store, links

\* The command that begins knows enough of the store for all its writes.
LEMMA CommandEstablishes ==
  ASSUME ReleasesSafe, TypeOK', NEW r \in Release,
         Stage(r) \/ Qualify(r) \/ Activate(r) \/ Discard(r) \/ Advance(r)
           \/ Prepare(r) \/ UpdateBegins(r)
  PROVE  Established'
  <1> DEFINE Unlinked == Linking \ {"staged"}
  <1>t. /\ intact' = intact /\ intact \subseteq Release
        /\ saved' = current /\ current \in intact \cup {NoRelease} /\ subject' = r
        /\ UNCHANGED <<qualified, current, previous, update>>
    BY DEF ReleasesSafe, TypeOK, LinksResolve, Stage, Qualify, Activate, Discard,
      Advance, Prepare, UpdateBegins, Command, Run, store, links
  <1>u. Seq(Unlinked) \subseteq Seq(Linking)
    BY Kinds
  <1>1. CASE Stage(r)
    <2>1. /\ <<"stage">> \in Seq(Unlinked) /\ <<"stage">> # <<>>
          /\ Head(<<"stage">>) = "stage" /\ Tail(<<"stage">>) \in Seq(Later)
      BY DEF Linking
    <2>2. todo' = <<"stage">> BY <1>1 DEF Stage, Command, Run
    <2>3. QED BY <1>t, <1>u, <2>1, <2>2, LinkingBegins
  <1>2. CASE Qualify(r)
    <2>1. /\ <<"qualify">> \in Seq(Unlinked) /\ <<"qualify">> # <<>>
          /\ Head(<<"qualify">>) = "qualify" /\ Tail(<<"qualify">>) \in Seq(Later)
      BY DEF Linking
    <2>2. todo' = <<"qualify">> /\ r \in intact BY <1>2 DEF Qualify, Command, Run
    <2>3. QED BY <1>t, <1>u, <2>1, <2>2, LinkingBegins
  <1>3. CASE Activate(r)
    <2>1. {"previous", "current"} \subseteq Unlinked /\ {"previous", "current"} \subseteq Later
      BY DEF Linking, Later, Writes
    <2>2. Activation(r) \in Seq(Unlinked) /\ Activation(r) \in Seq(Later)
      BY <2>1, ActivationLinks, SeqMonotonic
    <2>3. todo' = Activation(r) /\ todo' # <<>> /\ r \in intact
      BY <1>3 DEF Activate, Command, Run
    <2>4. Head(todo') \in Later /\ Tail(todo') \in Seq(Later)
      BY <2>2, <2>3, OfKind
    <2>5. Head(todo') # "preparing"
      BY <2>4 DEF Later
    <2>6. QED BY <1>t, <1>u, <2>2, <2>3, <2>4, <2>5, LinkingBegins
  <1>4. CASE Discard(r)
    <2> DEFINE all == <<"remove_some", "remove_rest", "unqualify">>
    <2>1. /\ <<"unqualify">> \in Seq(Removing) /\ <<"unqualify">> # <<>>
          /\ Tail(<<"unqualify">>) \in Seq(Later)
      BY DEF Removing
    <2>2. all \in Seq(Removing) /\ all # <<>> /\ Tail(all) \in Seq(Later)
      BY DEF Removing, Later, Writes
    <2>3. /\ todo' = all \/ todo' = <<"unqualify">>
          /\ ~Updating' /\ subject' \in Release \ {current', previous'}
      BY <1>t, <1>4 DEF Discard, Command, Run, Updating
    <2> HIDE DEF all
    <2>4. QED BY <2>1, <2>2, <2>3, RemovingBegins
  <1>5. CASE Advance(r)
    <2> DEFINE program == <<"stage", "qualify">> \o Activation(r)
    <2>1. /\ program \in Seq(Unlinked) /\ program # <<>>
          /\ Head(program) = "stage" /\ Tail(program) \in Seq(Later)
      BY AdvanceStages
    <2>2. todo' = program BY <1>5 DEF Advance, Command, Run
    <2> HIDE DEF program
    <2>3. QED BY <1>t, <1>u, <2>1, <2>2, LinkingBegins
  <1>6. CASE Prepare(r) \/ UpdateBegins(r)
    <2>1. todo' = Preparation(r) /\ ~Updating /\ Eligible(r)
      BY <1>6 DEF Prepare, UpdateBegins, Command, Run
    <2>2. ~Updating' /\ Eligible(subject)' /\ subject' \in intact'
      BY <1>t, <2>1 DEF Updating, Eligible
    <2>3. QED BY <1>t, <2>1, <2>2, PreparationRecords, LinkingBegins
  <1>7. QED BY <1>1, <1>2, <1>3, <1>4, <1>5, <1>6

\* So do rolling the links back, and ending or undoing an update.
LEMMA OtherCommandEstablishes ==
  ASSUME ReleasesSafe, RollBackLinks \/ Commit \/ UndoUpdate
  PROVE  Established'
  <1>1. CASE RollBackLinks
    <2> DEFINE program == <<"current", "previous">>
    <2>1. /\ program \in Seq(Linking) /\ program \in Seq(Linking \ {"staged"})
          /\ program # <<>> /\ Head(program) = "current" /\ Tail(program) \in Seq(Later)
      BY DEF Linking, Later, Writes
    <2>2. todo' = program /\ saved' = current /\ subject' = previous
      BY <1>1 DEF RollBackLinks, Command, Run
    <2>3. /\ intact' = intact /\ intact \subseteq Release
          /\ current \in intact /\ previous \in intact
      BY <1>1 DEF RollBackLinks, Command, store, ReleasesSafe, TypeOK
    <2> HIDE DEF program
    <2>4. QED BY <2>1, <2>2, <2>3, LinkingBegins
  <1>2. CASE Commit
    <2>1. /\ <<"clear">> \in Seq(Undoing) /\ <<"clear">> # <<>>
          /\ Tail(<<"clear">>) \in Seq(Later)
      BY DEF Undoing
    <2>2. todo' = <<"clear">> BY <1>2 DEF Commit, Command, Run
    <2>3. QED BY <2>1, <2>2, UndoingBegins
  <1>3. CASE UndoUpdate
    <2>1. todo' = Undo BY <1>3 DEF UndoUpdate, Command, Run
    <2>2. QED BY <2>1, UndoRestores, UndoingBegins
  <1>4. QED BY <1>1, <1>2, <1>3

\* Every write leaves it for the next one.
LEMMA WriteEstablishes == ASSUME ReleasesSafe, WriteStep PROVE Established'
  <1>t. TypeOK /\ LinksResolve /\ UpdateReleasesKept /\ Established
    BY DEF ReleasesSafe
  <1>1. todo # <<>> /\ UNCHANGED <<saved, subject>>
    BY DEF WriteStep, Write, StageRelease, QualifyRelease, LinkPrevious, LinkCurrent,
      RecordPreparing, RecordStaged, RestoreCurrent, RestorePrevious, ClearUpdate,
      RemoveSome, RemoveRest, Unqualify
  <1>2. CASE todo' = <<>>
    BY <1>2, NothingLeft
  <1>3. CASE todo' # <<>>
    <2>1. Done
      BY <1>3 DEF WriteStep, StageRelease, QualifyRelease, LinkPrevious, LinkCurrent,
        RecordPreparing, RecordStaged, RestoreCurrent, RestorePrevious, ClearUpdate,
        RemoveSome, RemoveRest, Unqualify, Die
    <2>2. ASSUME Pending(Linking)
          PROVE  /\ saved' \in intact' \cup {NoRelease} /\ subject' \in intact'
                 /\ Updating' \/ todo \in Seq(Linking \ {"staged"})
      <3>1. Head(todo) \in Linking /\ saved \in intact \cup {NoRelease}
        BY <1>t, <2>2, OfKind DEF Pending, Established
      <3>2. subject \in intact \/ Head(todo) = "stage"
        BY <1>t, <2>2 DEF Established, Upcoming
      <3>3. Updating \/ Head(todo) = "preparing" \/ todo \in Seq(Linking \ {"staged"})
        BY <1>t, <2>2 DEF Established, Upcoming
      <3> USE <1>1, <3>1, <3>2, <3>3 DEF Write, Updating, store, links, Linking
      <3>4. CASE StageRelease BY <2>1, <3>4, <1>3 DEF StageRelease, Die
      <3>5. CASE QualifyRelease BY <3>5 DEF QualifyRelease
      <3>6. CASE LinkPrevious BY <3>6 DEF LinkPrevious
      <3>7. CASE LinkCurrent BY <3>7 DEF LinkCurrent
      <3>8. CASE RecordPreparing BY <3>8 DEF RecordPreparing
      <3>9. CASE RecordStaged BY <1>t, <3>9 DEF RecordStaged, TypeOK
      <3>10. QED BY <3>4, <3>5, <3>6, <3>7, <3>8, <3>9
        DEF WriteStep, RestoreCurrent, RestorePrevious, ClearUpdate, RemoveSome,
          RemoveRest, Unqualify
    <2>3. ASSUME Pending(Removing) PROVE ~Updating'
      <3>1. Head(todo) \in Removing /\ ~Updating
        BY <1>t, <2>3, OfKind DEF Pending, Established
      <3>2. QED BY <3>1 DEF WriteStep, Write, StageRelease, QualifyRelease, LinkPrevious,
        LinkCurrent, RecordPreparing, RecordStaged, RestoreCurrent, RestorePrevious,
        ClearUpdate, RemoveSome, RemoveRest, Unqualify, Updating, Removing
    <2>4. QED BY <1>t, <1>1, <2>1, <2>2, <2>3, WriteMade DEF Done
  <1>4. QED BY <1>2, <1>3

\* And so does what interrupts the commands, or happens in between.
LEMMA EstablishedStep == ReleasesSafe /\ [Next]_vars => Established'
  <1> SUFFICES ASSUME ReleasesSafe, [Next]_vars PROVE Established'
    OBVIOUS
  <1>t. TypeOK' /\ TypeOK /\ Established
    BY TypeStep DEF ReleasesSafe
  <1>1. ASSUME NEW r \in Release,
               Stage(r) \/ Qualify(r) \/ Activate(r) \/ Discard(r) \/ Advance(r)
                 \/ Prepare(r) \/ UpdateBegins(r)
        PROVE  Established'
    BY <1>t, <1>1, CommandEstablishes
  <1>2. CASE RollBackLinks \/ Commit \/ UndoUpdate
    BY <1>2, OtherCommandEstablishes
  <1>3. CASE WriteStep
    BY <1>3, WriteEstablishes
  <1>4. CASE ScriptStep
    <2>1. /\ <<"clear">> \in Seq(Undoing) /\ <<"clear">> # <<>>
          /\ Tail(<<"clear">>) \in Seq(Later)
      BY DEF Undoing
    <2>2. CASE todo' = <<>> BY <2>2, NothingLeft
    <2>3. CASE todo' = <<"clear">> BY <2>1, <2>3, UndoingBegins
    <2>4. CASE todo' = Undo BY <2>4, UndoRestores, UndoingBegins
    <2>5. CASE UNCHANGED <<store, links, update, todo, subject, saved>>
      BY <1>t, <2>5, EstablishedKept
    <2>6. \/ todo' \in {<<>>, <<"clear">>, Undo}
          \/ UNCHANGED <<store, links, update, todo, subject, saved>>
      <3> USE DEF Goto, Exits, Run, command
      <3>1. CASE Prepared BY <3>1 DEF Prepared
      <3>2. CASE RestartService BY <3>2 DEF RestartService
      <3>3. CASE ServiceReady BY <3>3 DEF ServiceReady
      <3>4. CASE Committed \/ RestartFails \/ CommandEnds
        BY <3>4 DEF Committed, RestartFails, CommandEnds
      <3>5. CASE UpdateFails BY <3>5 DEF UpdateFails
      <3>6. CASE Undone BY <3>6 DEF Undone
      <3>7. QED BY <1>4, <3>1, <3>2, <3>3, <3>4, <3>5, <3>6 DEF ScriptStep
    <2>7. QED BY <2>2, <2>3, <2>4, <2>5, <2>6
  <1>5. CASE HelperFails
    BY <1>5, NothingLeft DEF HelperFails, Die
  <1>6. CASE ScriptKilled
    <2>1. CASE todo' = <<>> BY <2>1, NothingLeft
    <2>2. CASE UNCHANGED <<todo, command>>
      BY <1>t, <1>6, <2>2, EstablishedKept DEF ScriptKilled, command
    <2>3. CASE /\ Head(todo) \in {"stage", "qualify", "preparing"} /\ todo # <<>>
               /\ todo' = <<Head(todo)>>
      <3>1. /\ <<Head(todo)>> \in Seq(Linking \ {"staged"}) /\ <<Head(todo)>> # <<>>
            /\ Head(<<Head(todo)>>) = Head(todo) /\ Tail(<<Head(todo)>>) \in Seq(Later)
        BY <2>3 DEF Linking
      <3>2. Pending(Linking)
        <4>1. Head(todo) \in Linking
          BY <2>3 DEF Linking
        <4>2. QED BY <1>t, <2>3, <4>1, OneKind
      <3>3. /\ UNCHANGED <<intact, qualified, update, saved, subject>>
            /\ intact \subseteq Release
        BY <1>t, <1>6, <2>3, <3>1 DEF ScriptKilled, Exits, command, store, TypeOK
      <3>4. /\ saved \in intact \cup {NoRelease}
            /\ subject \in intact \/ (Head(todo) = "stage" /\ subject \in Release)
            /\ Head(todo) = "preparing" => ~Updating /\ Eligible(subject)
        BY <1>t, <2>3, <3>2 DEF Established, Upcoming
      <3>5. QED BY <2>3, <3>1, <3>3, <3>4, Kinds, LinkingBegins DEF Updating, Eligible
    <2>4. QED BY <1>6, <2>1, <2>2, <2>3 DEF ScriptKilled, Exits, Own
  <1>7. CASE ServiceStarts \/ ServiceStops
    BY <1>t, <1>7, EstablishedKept DEF ServiceStarts, ServiceStops, command
  <1>8. CASE UNCHANGED vars
    BY <1>t, <1>8, EstablishedKept DEF vars, store, links
  <1>9. QED BY <1>1, <1>2, <1>3, <1>4, <1>5, <1>6, <1>7, <1>8 DEF Next
-----------------------------------------------------------------------------
(* How an update ends.                                                     *)

\* Only rolling back, recovering and committing begin with a write that undoes.
LEMMA CommandKinds ==
  ASSUME NEW r \in Release,
         Stage(r) \/ Qualify(r) \/ Activate(r) \/ Discard(r) \/ Advance(r)
           \/ Prepare(r) \/ UpdateBegins(r) \/ RollBackLinks
  PROVE  ~Pending(Undoing)'
  <1>1. ASSUME todo' # <<>>, Head(todo') \notin Undoing PROVE ~Pending(Undoing)'
    BY <1>1, OfKind DEF Pending
  <1>2. CASE Activate(r)
    <2>1. todo' = Activation(r) BY <1>2 DEF Activate, Command, Run
    <2>2. todo' # <<>> => Head(todo') \in {"previous", "current"}
      BY <2>1, ActivationLinks, OfKind
    <2>3. QED BY <1>1, <2>2 DEF Undoing, Pending
  <1>3. CASE Advance(r)
    <2>1. todo' = <<"stage", "qualify">> \o Activation(r)
      BY <1>3 DEF Advance, Command, Run
    <2>2. QED BY <1>1, <2>1, AdvanceStages DEF Undoing
  <1>4. CASE Prepare(r) \/ UpdateBegins(r)
    <2>1. todo' = Preparation(r) BY <1>4 DEF Prepare, UpdateBegins, Command, Run
    <2>2. QED BY <1>1, <2>1, PreparationRecords DEF Undoing
  <1>5. CASE Stage(r) \/ Qualify(r) \/ Discard(r) \/ RollBackLinks
    <2>1. todo' \in {<<"stage">>, <<"qualify">>, <<"current", "previous">>, <<"unqualify">>,
                     <<"remove_some", "remove_rest", "unqualify">>}
      BY <1>5 DEF Stage, Qualify, Discard, RollBackLinks, Command, Run
    <2>2. QED BY <1>1, <2>1 DEF Undoing
  <1>6. QED BY <1>2, <1>3, <1>4, <1>5

\* The links go back before the state file does, and the file alone goes only for
\* a target that is in force.
LEMMA InOrderStep == EndingSafe /\ [Next]_vars => InOrder'
  <1> SUFFICES ASSUME EndingSafe, [Next]_vars PROVE InOrder'
    OBVIOUS
  <1>t. InOrder /\ Established /\ TypeOK
    BY DEF EndingSafe, ReleasesSafe
  <1>u. ASSUME todo' = <<>> PROVE InOrder'
    BY <1>u DEF InOrder, Pending
  <1>v. ASSUME UNCHANGED <<links, update, todo>> PROVE InOrder'
    BY <1>t, <1>v DEF InOrder, Pending, links
  <1>w. ASSUME todo' = Undo PROVE InOrder'
    BY <1>w DEF InOrder
  <1>x. ASSUME todo' = <<"clear">>, CommitAllowed, UNCHANGED <<links, update>> PROVE InOrder'
    BY <1>x DEF InOrder, CommitAllowed, links
  <1>1. ASSUME NEW r \in Release,
               Stage(r) \/ Qualify(r) \/ Activate(r) \/ Discard(r) \/ Advance(r)
                 \/ Prepare(r) \/ UpdateBegins(r)
        PROVE  InOrder'
    BY <1>1, CommandKinds DEF InOrder
  <1>2. CASE RollBackLinks
    <2>1. ~Pending(Undoing)'
      <3>1. todo' = <<"current", "previous">>
        BY <1>2 DEF RollBackLinks, Command, Run
      <3>2. todo' # <<>> /\ Head(todo') \notin Undoing
        BY <3>1 DEF Undoing
      <3>3. QED BY <3>2, OfKind DEF Pending
    <2>2. QED BY <2>1 DEF InOrder
  <1>3. CASE Commit
    BY <1>3, <1>x DEF Commit, Command, Run
  <1>4. CASE UndoUpdate
    BY <1>4, <1>w DEF UndoUpdate, Command, Run
  <1>5. CASE WriteStep
    <2>1. CASE todo' = <<>> BY <2>1, <1>u
    <2>2. CASE todo' # <<>>
      <3>1. todo # <<>> /\ todo' = Tail(todo)
        BY <1>5, <2>2 DEF WriteStep, Write, StageRelease, QualifyRelease, LinkPrevious,
          LinkCurrent, RecordPreparing, RecordStaged, RestoreCurrent, RestorePrevious,
          ClearUpdate, RemoveSome, RemoveRest, Unqualify, Done, Die
      <3>2. Pending(Undoing)' => Pending(Undoing)
        <4>1. ASSUME NEW K, todo' \in Seq(K) PROVE Head(todo') \in K
          BY <2>2, <4>1, OfKind
        <4>2. \A K : todo \in Seq(K) => todo' \in Seq(K)
          BY <3>1, OfKind
        <4>3. QED BY <1>t, <3>1, <4>1, <4>2, KindsDisjoint DEF Established, Pending
      <3>3. Undo = <<"restore_current", "restore_previous", "clear">>
        BY DEF Undo
      <3>4. Tail(Undo) = <<"restore_previous", "clear">> /\ Tail(Tail(Undo)) = <<"clear">>
        BY <3>3
      <3>5. ASSUME Pending(Undoing) PROVE InOrder'
        <4>1. Head(todo) \in Undoing
          BY <3>1, <3>5, OfKind DEF Pending
        <4>2. CASE Head(todo) = "restore_current"
          <5>1. RestoreCurrent
            BY <1>5, <4>2 DEF WriteStep, Write, StageRelease, QualifyRelease,
              LinkPrevious, LinkCurrent, RecordPreparing, RecordStaged, RestorePrevious,
              ClearUpdate, RemoveSome, RemoveRest, Unqualify
          <5>2. todo = Undo
            <6>1. Head(<<"restore_previous", "clear">>) # "restore_current"
              OBVIOUS
            <6>2. Head(<<"clear">>) # "restore_current"
              OBVIOUS
            <6>3. todo # Tail(Undo) /\ todo # <<"clear">>
              BY <3>4, <4>2, <6>1, <6>2, Zenon
            <6>4. QED BY <1>t, <3>5, <6>3 DEF InOrder
          <5>3. current' = update.oldCurrent /\ update' = update
            BY <2>2, <5>1 DEF RestoreCurrent, Die
          <5>4. todo' = Tail(Undo)
            BY <3>1, <5>2
          <5>5. QED BY <5>3, <5>4 DEF InOrder, Undo
        <4>3. CASE Head(todo) = "restore_previous"
          <5>1. RestorePrevious
            BY <1>5, <4>3 DEF WriteStep, Write, StageRelease, QualifyRelease,
              LinkPrevious, LinkCurrent, RecordPreparing, RecordStaged, RestoreCurrent,
              ClearUpdate, RemoveSome, RemoveRest, Unqualify
          <5>2. todo = Tail(Undo) /\ current = update.oldCurrent
            BY <1>t, <3>3, <3>5, <4>3 DEF InOrder
          <5>3. /\ previous' = update.oldPrevious
                /\ UNCHANGED <<current, update>>
            BY <2>2, <5>1 DEF RestorePrevious, Die
          <5>4. todo' = <<"clear">>
            BY <3>1, <3>4, <5>2
          <5>5. QED BY <5>2, <5>3, <5>4 DEF InOrder, links
        <4>4. CASE Head(todo) = "clear"
          <5>1. todo = <<"clear">>
            BY <1>t, <3>3, <3>4, <3>5, <4>4 DEF InOrder
          <5>2. QED BY <2>2, <3>1, <5>1
        <4>5. QED BY <4>1, <4>2, <4>3, <4>4 DEF Undoing
      <3>6. QED BY <3>2, <3>5 DEF InOrder
    <2>3. QED BY <2>1, <2>2
  <1>6. CASE ScriptStep
    <2> USE DEF Goto, Exits, Run, command
    <2>1. CASE Prepared BY <2>1, <1>u, <1>v DEF Prepared
    <2>2. CASE RestartService BY <2>2, <1>v DEF RestartService
    <2>3. CASE ServiceReady BY <2>3, <1>u, <1>w, <1>x DEF ServiceReady
    <2>4. CASE Committed \/ RestartFails \/ CommandEnds
      BY <2>4, <1>u DEF Committed, RestartFails, CommandEnds
    <2>5. CASE UpdateFails BY <2>5, <1>w DEF UpdateFails
    <2>6. CASE Undone BY <2>6, <1>u, <1>v DEF Undone
    <2>7. QED BY <1>6, <2>1, <2>2, <2>3, <2>4, <2>5, <2>6 DEF ScriptStep
  <1>7. CASE HelperFails
    BY <1>7, <1>u DEF HelperFails, Die
  <1>8. CASE ScriptKilled
    <2>1. CASE Head(todo) \in {"stage", "qualify", "preparing"} /\ todo' = <<Head(todo)>>
      <3>1. todo' # <<>> /\ Head(todo') \notin Undoing
        BY <2>1 DEF Undoing
      <3>2. QED BY <3>1, OfKind DEF InOrder, Pending
    <2>2. QED BY <1>8, <1>u, <1>v, <2>1 DEF ScriptKilled, Exits, Own
  <1>9. CASE ServiceStarts \/ ServiceStops
    BY <1>9, <1>v DEF ServiceStarts, ServiceStops
  <1>10. CASE UNCHANGED vars
    BY <1>10, <1>v DEF vars, links
  <1>11. QED BY <1>1, <1>2, <1>3, <1>4, <1>5, <1>6, <1>7, <1>8, <1>9, <1>10 DEF Next
-----------------------------------------------------------------------------
(* Theorems.                                                               *)

\* Before every write, what makes it harmless still holds, whatever was killed in
\* between and whatever an operator has run since.
THEOREM ReleasesAlwaysSafe == Spec => []ReleasesSafe
  <1>1. ReleasesSafe /\ [Next]_vars => ReleasesSafe'
    BY TypeStep, LinksStep, EstablishedStep DEF ReleasesSafe
  <1>2. QED BY SafeInit, <1>1, PTL DEF Spec

\* The variables keep their types.
THEOREM TypeCorrect == Spec => []TypeOK
  <1>1. ReleasesSafe => TypeOK
    BY DEF ReleasesSafe
  <1>2. QED BY <1>1, ReleasesAlwaysSafe, PTL

\* However many releases there are, and however commands are interrupted,
\* `current` and `previous` name releases that are there and verify.
THEOREM LinksAlwaysResolve == Spec => []LinksResolve
  <1>1. ReleasesSafe => LinksResolve
    BY DEF ReleasesSafe
  <1>2. QED BY <1>1, ReleasesAlwaysSafe, PTL

\* An update in progress can be taken back, and its target stays eligible.
THEOREM UpdateAlwaysReversible == Spec => []UpdateReleasesKept
  <1>1. ReleasesSafe => UpdateReleasesKept
    BY DEF ReleasesSafe
  <1>2. QED BY <1>1, ReleasesAlwaysSafe, PTL

\* And the order of the writes of a rollback is kept by whatever interrupts it.
THEOREM EndingAlwaysSafe == Spec => []EndingSafe
  <1>1. Init => EndingSafe
    <2>1. Init => InOrder
      BY DEF Init, InOrder, Pending
    <2>2. QED BY <2>1, SafeInit DEF EndingSafe
  <1>2. EndingSafe /\ [Next]_vars => EndingSafe'
    BY TypeStep, LinksStep, EstablishedStep, InOrderStep DEF EndingSafe, ReleasesSafe
  <1>3. QED BY <1>1, <1>2, PTL DEF Spec

\* The state file goes only when both links are back, or when the target is
\* current: an update is never half taken back.
LEMMA EndingStep ==
  ASSUME EndingSafe, [Next]_vars, Updating, update' = Idle
  PROVE  \/ links = <<update.oldCurrent, update.oldPrevious>>
         \/ update.state = "staged" /\ current = update.target
  <1>t. InOrder /\ Established /\ TypeOK
    BY DEF EndingSafe, ReleasesSafe
  <1>1. update' # update
    BY DEF Updating, Idle
  <1>2. WriteStep
    BY <1>1, LinksOrWrites
  <1>3. ClearUpdate
    <2>1. ~RecordPreparing
      BY DEF RecordPreparing, Idle
    <2>2. ~RecordStaged
      BY <1>t DEF RecordStaged, Idle, TypeOK
    <2>3. QED BY <1>1, <1>2, <2>1, <2>2 DEF WriteStep, StageRelease, QualifyRelease,
      LinkPrevious, LinkCurrent, RestoreCurrent, RestorePrevious, RemoveSome, RemoveRest,
      Unqualify
  <1>4. todo # <<>> /\ Head(todo) = "clear"
    BY <1>3 DEF ClearUpdate, Write
  <1>5. Pending(Undoing)
    BY <1>t, <1>4, OfKind DEF Established, Pending, Linking, Removing
  <1>6. Tail(Undo) = <<"restore_previous", "clear">>
    BY DEF Undo
  <1>7. QED BY <1>t, <1>4, <1>5, <1>6 DEF InOrder, Undo

\* However often an update and its rollback are interrupted, the state file goes only
\* with the links as they were, or with the target in force.
THEOREM UpdateEndsEitherWay == Spec => EndsEitherWay
  <1>1. EndingSafe /\ [Next]_vars =>
          [Updating /\ update' = Idle =>
             \/ links = <<update.oldCurrent, update.oldPrevious>>
             \/ update.state = "staged" /\ current = update.target]_vars
    BY EndingStep
  <1>2. QED BY <1>1, EndingAlwaysSafe, PTL DEF Spec, EndsEitherWay
-----------------------------------------------------------------------------
(* The refinement: an update, its scripts killed anywhere, implements the  *)
(* atomic choice of a release in ReleaseChoice.  Beyond EndingSafe this    *)
(* needs Recorded: that a script undoes or commits only what is recorded.  *)

\* Preparing an update is making links.
LEMMA PreparationPends ==
  ASSUME NEW r, todo' = Preparation(r)
  PROVE  Pending(Linking)' /\ Upcoming("preparing")'
  BY PreparationRecords DEF Pending, Upcoming

\* A write of one kind is followed by writes of that kind.
LEMMA RestOfKind ==
  ASSUME Established, todo # <<>>, todo' = Tail(todo)
  PROVE  /\ Pending(Undoing)' => Pending(Undoing)
         /\ Pending(Linking) => todo' = <<>> \/ Pending(Linking)'
  <1>1. ASSUME todo' # <<>>, NEW K, todo' \in Seq(K) PROVE Head(todo') \in K
    BY <1>1, OfKind
  <1>2. \A K : todo \in Seq(K) => todo' \in Seq(K)
    BY OfKind
  <1>3. QED BY <1>1, <1>2, KindsDisjoint DEF Established, Pending

\* What a step can do to the state file, and with it.
LEMMA StateFileSteps ==
  ASSUME RecordSafe, WriteStep
  PROVE  /\ todo # <<>> /\ UNCHANGED <<at, subject>>
         /\ \/ todo' = Tail(todo) /\ outcome' = outcome
            \/ todo' = <<>> /\ outcome' = "failed"
         /\ Updating' \/ update' = Idle
         /\ Updating => Updating' \/ Head(todo) = "clear"
         /\ Head(todo) = "preparing" => Updating' /\ update'.target = subject
         /\ Head(todo) # "preparing" /\ Updating' => update'.target = update.target
  <1>t. TypeOK /\ Established /\ Recorded
    BY DEF RecordSafe, EndingSafe, ReleasesSafe
  <1>1. todo # <<>> /\ UNCHANGED <<at, subject>>
    BY DEF WriteStep, Write, StageRelease, QualifyRelease, LinkPrevious, LinkCurrent,
      RecordPreparing, RecordStaged, RestoreCurrent, RestorePrevious, ClearUpdate,
      RemoveSome, RemoveRest, Unqualify
  <1>2. \/ todo' = Tail(todo) /\ outcome' = outcome
        \/ todo' = <<>> /\ outcome' = "failed"
    BY DEF WriteStep, StageRelease, QualifyRelease, LinkPrevious, LinkCurrent,
      RecordPreparing, RecordStaged, RestoreCurrent, RestorePrevious, ClearUpdate,
      RemoveSome, RemoveRest, Unqualify, Done, Die
  <1>3. CASE RecordPreparing \/ RecordStaged
    <2>1. /\ Updating' /\ Head(todo) # "clear"
          /\ Head(todo) = "preparing" => update'.target = subject
          /\ Head(todo) # "preparing" => update'.target = update.target
      BY <1>t, <1>3 DEF RecordPreparing, RecordStaged, Write, Updating, TypeOK
    <2>2. QED BY <1>1, <1>2, <2>1
  <1>4. CASE ClearUpdate
    BY <1>1, <1>2, <1>4 DEF ClearUpdate, Write, Updating, Idle
  <1>5. CASE ~RecordPreparing /\ ~RecordStaged /\ ~ClearUpdate
    <2>1. update' = update /\ Head(todo) # "preparing"
      BY <1>5 DEF WriteStep, Write, StageRelease, QualifyRelease, LinkPrevious,
        LinkCurrent, RestoreCurrent, RestorePrevious, RemoveSome, RemoveRest, Unqualify
    <2>2. QED BY <1>t, <1>1, <1>2, <2>1 DEF Recorded, Updating
  <1>6. QED BY <1>3, <1>4, <1>5

\* Every step keeps the record: one step for each group of actions.
LEMMA RecordedStep == RecordSafe /\ [Next]_vars => Recorded'
  <1> SUFFICES ASSUME RecordSafe, [Next]_vars PROVE Recorded'
    OBVIOUS
  <1>t. TypeOK /\ Established /\ InOrder /\ Recorded /\ UpdateReleasesKept
    BY DEF RecordSafe, EndingSafe, ReleasesSafe
  <1>u. Updating \/ update = Idle
    BY <1>t DEF Recorded
  <1>v. Undo \in Seq(Undoing) /\ <<"clear">> \in Seq(Undoing) /\ <<"clear">> # <<>>
    BY UndoRestores DEF Undoing
  <1>1. ASSUME NEW r \in Release,
               Stage(r) \/ Qualify(r) \/ Activate(r) \/ Discard(r) \/ Advance(r)
                 \/ Prepare(r)
        PROVE  Recorded'
    <2>1. ~Pending(Undoing)'
      BY <1>1, CommandKinds
    <2>2. at' = "operator" /\ update' = update
      BY <1>1 DEF Stage, Qualify, Activate, Discard, Advance, Prepare, Command, Run
    <2>3. QED BY <1>u, <2>1, <2>2 DEF Recorded, Updating
  <1>2. ASSUME NEW r \in Release, UpdateBegins(r) PROVE Recorded'
    <2>1. ~Pending(Undoing)'
      BY <1>2, CommandKinds
    <2>2. /\ ~Updating /\ at' = "preparing" /\ update' = update
          /\ todo' = Preparation(r)
      BY <1>2 DEF UpdateBegins, Run
    <2>3. QED BY <1>u, <2>1, <2>2, PreparationPends DEF Recorded, Updating
  <1>3. CASE Commit \/ UndoUpdate
    <2>1. Updating /\ update' = update /\ at' = "operator"
      BY <1>3 DEF Commit, UndoUpdate, CommitAllowed, Command, Run, Updating
    <2>2. QED BY <2>1 DEF Recorded, Updating
  <1>4. CASE RollBackLinks
    <2>1. ~Pending(Undoing)'
      <3>1. todo' = <<"current", "previous">>
        BY <1>4 DEF RollBackLinks, Command, Run
      <3>2. todo' # <<>> /\ Head(todo') \notin Undoing
        BY <3>1 DEF Undoing
      <3>3. QED BY <3>2, OfKind DEF Pending
    <2>2. at' = "operator" /\ update' = update
      BY <1>4 DEF RollBackLinks, Command, Run
    <2>3. QED BY <1>u, <2>1, <2>2 DEF Recorded, Updating
  <1>5. CASE WriteStep
    <2>1. /\ todo # <<>> /\ UNCHANGED <<at, subject>>
          /\ \/ todo' = Tail(todo) /\ outcome' = outcome
             \/ todo' = <<>> /\ outcome' = "failed"
          /\ Updating' \/ update' = Idle
          /\ Updating => Updating' \/ Head(todo) = "clear"
          /\ Head(todo) = "preparing" => Updating' /\ update'.target = subject
          /\ Head(todo) # "preparing" /\ Updating' => update'.target = update.target
      BY <1>5, StateFileSteps
    <2>2. todo' = Tail(todo) =>
            /\ Pending(Undoing)' => Pending(Undoing)
            /\ Pending(Linking) => todo' = <<>> \/ Pending(Linking)'
      BY <1>t, <2>1, RestOfKind
    <2>3. Pending(Undoing)' => Updating'
      <3> SUFFICES ASSUME Pending(Undoing)' PROVE Updating'
        OBVIOUS
      <3>1. todo' = Tail(todo) /\ todo' # <<>> /\ Pending(Undoing) /\ Updating
        BY <1>t, <2>1, <2>2 DEF Pending, Recorded
      <3>2. Head(todo) # "clear"
        <4>1. todo # <<"clear">>
          BY <3>1
        <4>2. /\ Undo # <<>> /\ Head(Undo) = "restore_current"
              /\ Head(Tail(Undo)) = "restore_previous"
          <5>1. Undo = <<"restore_current", "restore_previous", "clear">>
            BY DEF Undo
          <5>2. Tail(<<"restore_current", "restore_previous", "clear">>)
                  = <<"restore_previous", "clear">>
            OBVIOUS
          <5>3. Head(<<"restore_previous", "clear">>) = "restore_previous"
            OBVIOUS
          <5>4. QED BY <5>1, <5>2, <5>3, UndoRestores
        <4>3. QED BY <1>t, <3>1, <4>1, <4>2 DEF InOrder
      <3>3. QED BY <2>1, <3>1, <3>2
    <2>4. ASSUME at = "preparing"
          PROVE  /\ todo' = <<>> \/ Pending(Linking)'
                 /\ outcome' = "ok" => Updating'
                 /\ Updating' => update'.target = subject'
      <3>1. /\ Pending(Linking)
            /\ outcome = "ok" => Updating \/ Head(todo) = "preparing"
            /\ Updating => update.target = subject
        BY <1>t, <2>1, <2>4 DEF Recorded, Upcoming
      <3>2. Head(todo) # "clear"
        BY <3>1, OfKind DEF Pending, Linking
      <3>3. Updating' => update'.target = subject'
        <4>1. CASE Head(todo) = "preparing" BY <2>1, <4>1
        <4>2. CASE Head(todo) # "preparing" /\ Updating BY <2>1, <3>1, <4>2
        <4>3. CASE Head(todo) # "preparing" /\ ~Updating
          <5>1. todo \in Seq(Linking \ {"staged"})
            BY <1>t, <3>1, <4>3 DEF Established, Upcoming
          <5>2. Head(todo) # "staged"
            BY <2>1, <5>1, OfKind
          <5>3. ~Updating'
            BY <1>5, <4>3, <5>2 DEF WriteStep, Write, StageRelease, QualifyRelease,
              LinkPrevious, LinkCurrent, RecordPreparing, RecordStaged, RestoreCurrent,
              RestorePrevious, ClearUpdate, RemoveSome, RemoveRest, Unqualify, Updating,
              Idle
          <5>4. QED BY <5>3
        <4>4. QED BY <4>1, <4>2, <4>3
      <3>4. QED BY <2>1, <2>2, <3>1, <3>2, <3>3
    <2>5. at \notin {"restart", "waiting", "restart_old", "waiting_old"}
      BY <1>t, <2>1 DEF Recorded
    <2>6. ASSUME at = "committing"
          PROVE  todo' = <<>> /\ (outcome' = "ok" \/ Updating')
      <3>1. todo = <<"clear">> /\ outcome = "ok"
        BY <1>t, <2>1, <2>6 DEF Recorded
      <3>2. todo' = <<>>
        BY <2>1, <3>1
      <3>3. ~ClearUpdate => Updating'
        <4>1. Head(todo) = "clear"
          BY <3>1
        <4>2. QED BY <1>5, <4>1 DEF WriteStep, Write, StageRelease, QualifyRelease,
          LinkPrevious, LinkCurrent, RecordPreparing, RecordStaged, RestoreCurrent,
          RestorePrevious, RemoveSome, RemoveRest, Unqualify
      <3>4. ClearUpdate => outcome' = "ok"
        BY <3>1 DEF ClearUpdate, Done
      <3>5. QED BY <3>2, <3>3, <3>4
    <2>7. QED BY <2>1, <2>3, <2>4, <2>5, <2>6 DEF Recorded
  <1>6. CASE ScriptStep
    <2>1. update' = update
      BY <1>6 DEF ScriptStep, Prepared, RestartService, ServiceReady, Committed,
        UpdateFails, Undone, RestartFails, CommandEnds
    <2>2. CASE at' = "free" /\ todo' = <<>>
      BY <1>u, <2>1, <2>2 DEF Recorded, Pending, Updating
    <2>3. CASE at' = "undoing" /\ Updating
      BY <2>1, <2>3 DEF Recorded, Updating
    <2>4. CASE Prepared
      BY <1>t, <1>u, <2>1, <2>2, <2>4 DEF Prepared, Goto, Exits, Returned, Recorded,
        Pending, Upcoming, Updating
    <2>5. CASE RestartService
      BY <1>t, <1>u, <2>1, <2>5 DEF RestartService, Goto, Recorded, Pending, Updating
    <2>6. CASE ServiceReady
      BY <1>t, <1>u, <2>1, <2>2, <2>3, <2>6 DEF ServiceReady, Exits, Run, Recorded,
        Pending, Updating, command
    <2>7. CASE Committed \/ RestartFails \/ CommandEnds
      BY <2>2, <2>7 DEF Committed, RestartFails, CommandEnds, Exits
    <2>8. CASE UpdateFails
      BY <1>t, <2>3, <2>8 DEF UpdateFails, Run, CutoverActive, Recorded
    <2>9. CASE Undone
      BY <1>u, <2>1, <2>2, <2>9 DEF Undone, Goto, Exits, Returned, Recorded, Pending,
        Updating
    <2>10. QED BY <1>6, <2>4, <2>5, <2>6, <2>7, <2>8, <2>9 DEF ScriptStep
  <1>7. CASE HelperFails
    <2>1. /\ todo # <<>> /\ todo' = <<>> /\ outcome' = "failed"
          /\ UNCHANGED <<at, subject, update>>
      BY <1>7 DEF HelperFails, Die
    <2>2. at = "committing" => Updating
      BY <1>t, <1>v, <2>1 DEF Recorded, Pending
    <2>3. QED BY <1>t, <1>u, <2>1, <2>2 DEF Recorded, Pending, Updating
  <1>8. CASE ScriptKilled
    <2>1. CASE todo' = <<>> /\ at' = "free" /\ update' = update
      BY <1>u, <2>1 DEF Recorded, Pending, Updating
    <2>2. CASE todo' = todo /\ at' = "orphan" /\ update' = update
      BY <1>t, <2>2 DEF Recorded, Pending, Updating
    <2>3. CASE /\ Head(todo) \in {"stage", "qualify", "preparing"}
               /\ todo' = <<Head(todo)>> /\ at' = "orphan" /\ update' = update
      <3>1. todo' # <<>> /\ Head(todo') \notin Undoing
        BY <2>3 DEF Undoing
      <3>2. ~Pending(Undoing)'
        BY <3>1, OfKind DEF Pending
      <3>3. QED BY <1>u, <2>3, <3>2 DEF Recorded, Updating
    <2>4. QED BY <1>8, <2>1, <2>2, <2>3 DEF ScriptKilled, Exits, Own
  <1>9. CASE ServiceStarts \/ ServiceStops
    BY <1>t, <1>9 DEF ServiceStarts, ServiceStops, Recorded, Pending, Upcoming, Updating,
      command
  <1>10. CASE UNCHANGED vars
    BY <1>t, <1>10 DEF vars, Recorded, Pending, Upcoming, Updating
  <1>11. QED BY <1>1, <1>2, <1>3, <1>4, <1>5, <1>6, <1>7, <1>8, <1>9, <1>10 DEF Next

\* The invariant of the refinement, for any set of releases.
THEOREM RecordAlwaysSafe == Spec => []RecordSafe
  <1>1. Init => Recorded
    BY DEF Init, Recorded, Pending, Updating
  <1>2. RecordSafe /\ [Next]_vars => Recorded'
    BY RecordedStep
  <1>3. QED BY <1>1, <1>2, EndingAlwaysSafe, PTL DEF Spec, RecordSafe

\* The link does not move while update-release.sh waits for the service.
LEMMA FollowsStep ==
  RecordSafe /\ ServiceFollowsLink /\ [Next]_vars => ServiceFollowsLink'
  <1> SUFFICES ASSUME RecordSafe, ServiceFollowsLink, [Next]_vars
               PROVE  ServiceFollowsLink'
    OBVIOUS
  <1>t. TypeOK /\ Recorded
    BY DEF RecordSafe, EndingSafe, ReleasesSafe
  <1>1. ASSUME NEW r \in Release,
               Stage(r) \/ Qualify(r) \/ Activate(r) \/ Discard(r) \/ Advance(r)
                 \/ Prepare(r) \/ UpdateBegins(r)
        PROVE  ServiceFollowsLink'
    BY <1>1 DEF Stage, Qualify, Activate, Discard, Advance, Prepare, UpdateBegins,
      Command, Run, ServiceFollowsLink
  <1>2. CASE RollBackLinks \/ Commit \/ UndoUpdate
    BY <1>2 DEF RollBackLinks, Commit, UndoUpdate, Command, Run, ServiceFollowsLink
  <1>3. CASE WriteStep
    <2>1. todo # <<>> /\ UNCHANGED <<at, subject, serving>>
      BY <1>3 DEF WriteStep, Write, StageRelease, QualifyRelease, LinkPrevious,
        LinkCurrent, RecordPreparing, RecordStaged, RestoreCurrent, RestorePrevious,
        ClearUpdate, RemoveSome, RemoveRest, Unqualify
    <2>2. at \notin {"waiting", "waiting_old"} /\ (at = "committing" => Head(todo) = "clear")
      <3>1. Head(<<"clear">>) = "clear"
        OBVIOUS
      <3>2. QED BY <1>t, <2>1, <3>1 DEF Recorded
    <2>3. Head(todo) = "clear" => current' = current
      BY <1>3 DEF WriteStep, Write, StageRelease, QualifyRelease, LinkPrevious,
        LinkCurrent, RecordPreparing, RecordStaged, RestoreCurrent, RestorePrevious,
        ClearUpdate, RemoveSome, RemoveRest, Unqualify, links
    <2>4. QED BY <2>1, <2>2, <2>3 DEF ServiceFollowsLink
  <1>4. CASE ScriptStep
    <2> USE DEF ServiceFollowsLink, Goto, Exits, Run, links, command
    <2>1. CASE Prepared BY <2>1 DEF Prepared
    <2>2. CASE RestartService BY <2>2 DEF RestartService
    <2>3. CASE ServiceReady
      BY <1>t, <2>3 DEF ServiceReady, CommitAllowed, Recorded
    <2>4. CASE Committed \/ RestartFails \/ CommandEnds
      BY <2>4 DEF Committed, RestartFails, CommandEnds
    <2>5. CASE UpdateFails BY <2>5 DEF UpdateFails
    <2>6. CASE Undone BY <2>6 DEF Undone
    <2>7. QED BY <1>4, <2>1, <2>2, <2>3, <2>4, <2>5, <2>6 DEF ScriptStep
  <1>5. CASE HelperFails \/ ScriptKilled \/ ServiceStarts \/ ServiceStops
    BY <1>5 DEF HelperFails, ScriptKilled, ServiceStarts, ServiceStops, Exits, links,
      command, ServiceFollowsLink
  <1>6. CASE UNCHANGED vars
    BY <1>6 DEF vars, ServiceFollowsLink
  <1>7. QED BY <1>1, <1>2, <1>3, <1>4, <1>5, <1>6 DEF Next

\* For any set of releases: between the restart and the end of update-release.sh
\* the service runs the release that `current` names, and a commit is of that one.
THEOREM ServiceAlwaysFollowsLink == Spec => []ServiceFollowsLink
  <1>1. Init => ServiceFollowsLink
    BY DEF Init, ServiceFollowsLink
  <1>2. QED BY <1>1, FollowsStep, RecordAlwaysSafe, PTL DEF Spec
-----------------------------------------------------------------------------
(* The refinement.                                                         *)

\* The release that an interrupted update comes out with.
InForce == IF Updating THEN update.oldCurrent ELSE current

\* Nothing is installed, and nothing is in force.
LEMMA ChoiceInit == Init => Choice!Init
  BY DEF Init, Choice!Init, Updating, Idle

\* A link moves the choice only outside an update; recording one begins it, and
\* removing the record commits it or gives it up.
LEMMA ChoiceStep == RecordSafe /\ [Next]_vars => [Choice!Next]_(Choice!vars)
  <1> SUFFICES ASSUME RecordSafe, [Next]_vars
               PROVE  Choice!Next \/ UNCHANGED <<InForce, update.target>>
    BY DEF Choice!vars, InForce
  <1>t. /\ TypeOK /\ LinksResolve /\ UpdateReleasesKept /\ Established /\ InOrder
        /\ Recorded
    BY DEF RecordSafe, EndingSafe, ReleasesSafe
  <1>u. Updating \/ (update = Idle /\ update.target = NoRelease)
    BY <1>t DEF Recorded, Idle
  <1>1. CASE UNCHANGED <<current, update>>
    BY <1>1 DEF InForce, Updating
  <1>2. CASE LinkCurrent
    <2>1. Pending(Linking) /\ Head(todo) = "current" /\ todo # <<>>
      BY <1>t, <1>2, OneKind DEF LinkCurrent, Write, Linking
    <2>2. subject \in Release /\ current' = subject /\ update' = update
      BY <1>t, <1>2, <2>1 DEF LinkCurrent, Established, Upcoming, TypeOK
    <2>3. CASE Updating
      BY <2>2, <2>3 DEF InForce, Updating
    <2>4. CASE ~Updating
      <3>1. Choice!Move(subject)
        BY <1>u, <2>2, <2>4 DEF Choice!Move, Updating
      <3>2. QED BY <2>2, <3>1 DEF Choice!Next
    <2>5. QED BY <2>3, <2>4
  <1>3. CASE RestoreCurrent
    <2>1. todo # <<>> /\ Head(todo) = "restore_current" /\ update' = update
      BY <1>3 DEF RestoreCurrent, Write
    <2>2. Pending(Undoing)
      BY <1>t, <2>1, OfKind DEF Established, Pending, Linking, Removing
    <2>3. Updating
      BY <1>t, <2>2 DEF Recorded
    <2>4. QED BY <2>1, <2>3 DEF InForce, Updating
  <1>4. CASE RecordPreparing
    <2>1. /\ ~Updating /\ subject \in Release
          /\ current' = current /\ Updating' /\ update'.oldCurrent = current
          /\ update'.target = subject
      BY <1>t, <1>4 DEF RecordPreparing, Write, Established, Upcoming, Eligible, TypeOK,
        Updating, links
    <2>2. Choice!Begin(subject)
      BY <1>u, <2>1 DEF Choice!Begin, Updating
    <2>3. QED BY <2>1, <2>2 DEF Choice!Next
  <1>5. CASE RecordStaged
    <2>1. /\ Pending(Linking) /\ Head(todo) = "staged"
          /\ todo \notin Seq(Linking \ {"staged"})
      BY <1>t, <1>5, OneKind, OfKind DEF RecordStaged, Write, Linking
    <2>2. Updating
      BY <1>t, <2>1 DEF Established, Upcoming
    <2>3. Updating' /\ update'.oldCurrent = update.oldCurrent /\ update'.target = update.target
      BY <1>t, <1>5, <2>2 DEF RecordStaged, Updating, TypeOK
    <2>4. QED BY <2>2, <2>3 DEF InForce
  <1>6. CASE ClearUpdate
    <2>1. todo # <<>> /\ Head(todo) = "clear" /\ update' = Idle /\ current' = current
      BY <1>6 DEF ClearUpdate, Write, links
    <2>2. Pending(Undoing)
      BY <1>t, <2>1, OfKind DEF Established, Pending, Linking, Removing
    <2>3. Updating /\ update.target # NoRelease
      BY <1>t, <2>2, NoReleaseAssumption DEF Recorded, UpdateReleasesKept, Eligible, TypeOK
    <2>4. ~Updating' /\ update'.target = NoRelease
      BY <2>1 DEF Updating, Idle
    <2>5. \/ links = <<update.oldCurrent, update.oldPrevious>>
          \/ update.state = "staged" /\ current = update.target
      BY <2>1, <2>3, EndingStep DEF RecordSafe
    <2>6. Choice!GiveUp \/ Choice!Commit
      BY <2>1, <2>3, <2>4, <2>5 DEF Choice!GiveUp, Choice!Commit, links, Updating
    <2>7. QED BY <2>6 DEF Choice!Next
  <1>7. UNCHANGED <<current, update>> \/ LinkCurrent \/ RestoreCurrent \/ RecordPreparing
          \/ RecordStaged \/ ClearUpdate
    BY LinksOrWrites DEF WriteStep, StageRelease, QualifyRelease, LinkPrevious,
      RestorePrevious, RemoveSome, RemoveRest, Unqualify, links
  <1>8. QED BY <1>1, <1>2, <1>3, <1>4, <1>5, <1>6, <1>7

\* For any set of releases: at every moment, crashes and orphaned helpers included,
\* one release is in force, and an update changes that in one step or not at all.
THEOREM ChoiceImplemented == Spec => UpdatesAtomically
  <1>1. QED BY ChoiceInit, ChoiceStep, RecordAlwaysSafe, PTL
    DEF Spec, UpdatesAtomically, Choice!Spec
=============================================================================
