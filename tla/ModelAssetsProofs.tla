-------------------------- MODULE ModelAssetsProofs --------------------------
(***************************************************************************)
(* Proofs about the model assets: CheckpointChain, for any layout of the   *)
(* shards, and ModelLocations, for any number of backup names.             *)
(*                                                                         *)
(* The chain.  FilesOf, IndexOf and ConfigOf say what each stage is to be  *)
(* when the stages before it are what they are to be.  The inductive       *)
(* invariant ChainInv says that a stage whose manifest is complete and     *)
(* that is not suspect is just that (Whole), and that a build on a stage   *)
(* that is not doubtful has written everything that is no longer on its    *)
(* list (Working).  What a whole stage holds is then a matter of its index *)
(* and its links alone: the lemmas BFRight to H5Right find every tensor by *)
(* its name, and ReadsBF to ReadsH6 follow the links.                      *)
(*                                                                         *)
(* The locations.  The migration and the relocation do not exclude each    *)
(* other, so that neither may assume that what it has found stays where it *)
(* was.  What does stay is in LocationsSafe: where a relocation is says    *)
(* where the root is (RootPlaced), a link into the destination is gone     *)
(* before the destination is (Pointed), and a migration that has begun has *)
(* its complete checkpoint somewhere (Kept).                               *)
(***************************************************************************)
EXTENDS CheckpointChain, ModelLocations, SequenceTheorems, FiniteSetTheorems,
  WellFoundedInduction, TLAPS

\* The stages that are made from the two sources.
SourceStages == {"bf16", "h3"}

(* What each stage is to be, file by file, made with a revision of the overlay. *)
BaseIndex == [k \in BaseKeys |-> Name("", BaseShard[k])]
BaseNames == {Name("", s) : s \in Shards}

RewritesOf(r, M, removed) ==
  [n \in {Name("", s) : s \in Holding(Weight(M) \cup Scale(M) \cup removed, BaseShard)} |->
     [k \in KeysIn(n[2]) \ (Scale(M) \cup removed) |->
        IF k \in Weight(M) THEN From(r, k) ELSE From("base", k)]]

ExtractsOf(r) ==
  [n \in {Name("expert", s) : s \in Holding(OverlayExpert, OverlayShard[r])} |->
     [k \in {e \in OverlayExpert : OverlayShard[r][e] = n[2]} |-> From(r, k)]]

IndexBF(v) == Without(BaseIndex, Scale(Modules(v)))
IndexH3(r) == Over(Placed(ExtractsOf(r)), Without(BaseIndex, BaseExpert \cup Scale(Group0)))
IndexH4(v) == Over(Placed(Deltas(v)), IndexH3(Pinned))
NeutralFiles ==
  [n \in {Name("h5", IndexH4("h4-orca-all")[k]) : k \in InputScales} |->
     [k \in {i \in InputScales : IndexH4("h4-orca-all")[i] = n[2]} |-> From("ones", k)]]
IndexH5 == Over(Placed(NeutralFiles), IndexH4("h4-orca-all"))

FilesOf(s, v, r) ==
  CASE s = "bf16" -> RewritesOf(r, Modules(v), {})
    [] s = "h3" -> Over(RewritesOf(r, Group0, BaseExpert), ExtractsOf(r))
    [] s = "h4" -> Deltas(v)
    [] s = "h5" -> NeutralFiles
    [] OTHER -> <<>>

IndexOf(s, v, r) ==
  CASE s = "bf16" -> IndexBF(v)
    [] s = "h3" -> IndexH3(r)
    [] s = "h4" -> IndexH4(v)
    [] OTHER -> IndexH5

ConfigOf(s, v) ==
  CASE s = "bf16" -> Bf16Config(v)
    [] s = "h6" -> ModelOpt("W4A16_NVFP4")
    [] OTHER -> ModelOpt("NVFP4")

NamesH3 == BaseNames \cup DOMAIN FilesOf("h3", Wanted.h3, Pinned)
NamesH4 == NamesH3 \cup DOMAIN FilesOf("h4", Wanted.h4, Pinned)
NamesH5 == NamesH4 \cup DOMAIN FilesOf("h5", Wanted.h5, Pinned)
ParentNames(s) ==
  CASE s \in SourceStages -> BaseNames
    [] s = "h4" -> NamesH3
    [] s = "h5" -> NamesH4
    [] OTHER -> NamesH5
LinksOf(s, v, r) == ParentNames(s) \ DOMAIN FilesOf(s, v, r)

\* A stage that is done: its manifest says of what.
MadeWith(s) == IF s \in SourceStages THEN dir[s].manifest.overlay ELSE Pinned
Whole(s) ==
  LET v == dir[s].manifest.variant
      r == MadeWith(s)
  IN /\ v \in Variants(s)
     /\ s \in SourceStages => r \in Revisions
     /\ dir[s].index = IndexOf(s, v, r)
     /\ dir[s].config = ConfigOf(s, v)
     /\ DOMAIN dir[s].files = LinksOf(s, v, r) \cup DOMAIN FilesOf(s, v, r)
     /\ \A n \in DOMAIN FilesOf(s, v, r) : dir[s].files[n] = File("whole", FilesOf(s, v, r)[n])
     /\ \A n \in LinksOf(s, v, r) : dir[s].files[n] = Link

\* The stage before one is done, and is what it will link to.
MakingWith(s) == IF s \in SourceStages THEN overlay ELSE Pinned
Founded(s) ==
  CASE s \in SourceStages -> overlay \in Revisions
    [] s = "h4" -> Complete("h3", Wanted.h3)
    [] s = "h5" -> Complete("h4", Wanted.h4)
    [] OTHER -> Complete("h5", Wanted.h5)

(* Plans: what is left of the writes of a build of the shards F and the links L. *)
Single == {"clear", "building", "config", "index", "complete"}
Items(F, L) ==
  [what : {"shard"}, names : (SUBSET F) \ {{}}] \cup [what : {"link"}, names : (SUBSET L) \ {{}}]
  \cup [what : Single, names : {{"none"}}]

Left(todo, what, n) == \E i \in 1..Len(todo) : todo[i].what = what /\ n \in todo[i].names

Planned(todo, F, L) ==
  /\ todo \in Seq(Items(F, L)) /\ Len(todo) > 0
  /\ \A i \in 1..Len(todo) : todo[i].what = "complete" <=> i = Len(todo)
  /\ \A i \in 2..Len(todo) : todo[i].what # "clear"

AllLeft(todo, F, L) ==
  /\ \A n \in F : Left(todo, "shard", n)
  /\ \A n \in L : Left(todo, "link", n)
  /\ Left(todo, "config", "none") /\ Left(todo, "index", "none")

\* What is not left to write has been written to the stage d, which is to have
\* the given files, links, index and config.
Written(d, todo, files, links, index, config) ==
  /\ d.manifest.status # "complete"
  /\ DOMAIN d.files \subseteq DOMAIN files \cup links
  /\ \A n \in DOMAIN files :
       Left(todo, "shard", n) \/ (n \in DOMAIN d.files /\ d.files[n] = File("whole", files[n]))
  /\ \A n \in links :
       Left(todo, "link", n) \/ (n \in DOMAIN d.files /\ d.files[n] = Link)
  /\ Left(todo, "config", "none") \/ d.config = config
  /\ Left(todo, "index", "none") \/ d.index = index

Working(s, v, todo) ==
  LET r == MakingWith(s)
      files == FilesOf(s, v, r)
      links == LinksOf(s, v, r)
  IN /\ Founded(s)
     /\ Planned(todo, DOMAIN files, links)
     /\ IF todo[1].what = "clear" THEN AllLeft(todo, DOMAIN files, links)
        ELSE Written(dir[s], todo, files, links, IndexOf(s, v, r), ConfigOf(s, v))

ChainShape ==
  /\ overlay \in Revisions \cup {"none"} /\ suspect \subseteq Stages
  /\ dir = [s \in Stages |-> [files |-> dir[s].files, index |-> dir[s].index,
                              config |-> dir[s].config, manifest |-> dir[s].manifest]]
  /\ chain \in ToSet(Chain) \cup {"off"}
  /\ \/ job = NoJob
     \/ /\ job.stage \in Stages /\ job.variant \in Variants(job.stage)
        /\ job = [stage |-> job.stage, variant |-> job.variant, todo |-> job.todo]

(* A stage that is not suspect is what it says it is, a build on a stage that is
   not doubtful is on its course, and one on a doubtful stage makes its own suspect. *)
CompleteIsWhole == \A s \in Stages \ suspect : dir[s].manifest.status = "complete" => Whole(s)
BuildOnCourse ==
  job # NoJob /\ ~Doubtful(Parent[job.stage]) => Working(job.stage, job.variant, job.todo)
DoubtIsMarked ==
  job # NoJob /\ job.todo[1].what # "clear" /\ Doubtful(Parent[job.stage]) => job.stage \in suspect

ChainInv == ChainShape /\ CompleteIsWhole /\ BuildOnCourse /\ DoubtIsMarked
-----------------------------------------------------------------------------
(* Plans.                                                                    *)

\* The pieces a plan is put together of: no first write, no last one.
Middle(todo, F, L) ==
  /\ todo \in Seq(Items(F, L))
  /\ \A i \in 1..Len(todo) : todo[i].what \notin {"clear", "complete"}

\* A plan without its last write.
Opened(todo, F, L) ==
  /\ todo \in Seq(Items(F, L)) /\ Len(todo) > 0
  /\ todo[1].what = "clear"
  /\ \A i \in 1..Len(todo) : todo[i].what # "complete"
  /\ \A i \in 2..Len(todo) : todo[i].what # "clear"

\* What is left of a loop is one item, or nothing.
LEMMA LoopItem ==
  ASSUME NEW F, NEW L, NEW what, NEW names,
         \/ what = "shard" /\ names \subseteq F
         \/ what = "link" /\ names \subseteq L
         \/ what \in Single /\ names \subseteq {"none"}
  PROVE  /\ Each(what, names) \in Seq(Items(F, L))
         /\ \A i \in 1..Len(Each(what, names)) : Each(what, names)[i].what = what
         /\ \A n \in names : Left(Each(what, names), what, n)
         /\ names # {} => Len(Each(what, names)) = 1
         /\ names = {} => Len(Each(what, names)) = 0
  <1>1. CASE names = {}
    BY <1>1 DEF Each
  <1>2. CASE names # {}
    <2> DEFINE item == [what |-> what, names |-> names]
    <2>1. item \in Items(F, L)
      BY <1>2 DEF Items, Single
    <2>2. Each(what, names) = <<item>>
      BY <1>2 DEF Each
    <2>3. item.what = what /\ item.names = names
      OBVIOUS
    <2> HIDE DEF item
    <2>4. /\ <<item>> \in Seq(Items(F, L)) /\ Len(<<item>>) = 1 /\ <<item>>[1] = item
      BY <2>1
    <2> QED BY <1>2, <2>2, <2>3, <2>4 DEF Left
  <1> QED BY <1>1, <1>2

\* What is left of either half is left of both.
LEMMA LeftOfBoth ==
  ASSUME NEW F, NEW L, NEW s \in Seq(Items(F, L)), NEW t \in Seq(Items(F, L)),
         NEW what, NEW n, Left(s, what, n) \/ Left(t, what, n)
  PROVE  Left(s \o t, what, n)
  <1> DEFINE m == Len(s)
             k == Len(t)
  <1>1. m \in Nat /\ k \in Nat /\ Len(s \o t) = m + k
    BY LenProperties, ConcatProperties
  <1>2. /\ \A i \in 1..m : (s \o t)[i] = s[i]
        /\ \A i \in 1..k : (s \o t)[m + i] = t[i]
    BY ConcatProperties
  <1>3. CASE \E i \in 1..m : s[i].what = what /\ n \in s[i].names
    <2> HIDE DEF m, k
    <2> QED BY <1>1, <1>2, <1>3 DEF Left
  <1>4. CASE \E i \in 1..k : t[i].what = what /\ n \in t[i].names
    <2>1. PICK i \in 1..k : t[i].what = what /\ n \in t[i].names
      BY <1>4
    <2>2. (s \o t)[m + i] = t[i]
      BY <1>2
    <2> HIDE DEF m, k
    <2>3. m + i \in 1..(m + k)
      BY <1>1
    <2> QED BY <1>1, <2>1, <2>2, <2>3 DEF Left
  <1> QED BY <1>3, <1>4 DEF Left

\* A piece may be added to a plan that is open.
LEMMA OpenedWith ==
  ASSUME NEW F, NEW L, NEW s, NEW t, Opened(s, F, L), Middle(t, F, L)
  PROVE  /\ Opened(s \o t, F, L)
         /\ \A what, n : Left(s, what, n) \/ Left(t, what, n) => Left(s \o t, what, n)
  <1> DEFINE m == Len(s)
             k == Len(t)
  <1>0. s \in Seq(Items(F, L)) /\ t \in Seq(Items(F, L))
    BY DEF Opened, Middle
  <1>1. m \in Nat /\ k \in Nat /\ Len(s \o t) = m + k /\ s \o t \in Seq(Items(F, L)) /\ m > 0
    BY <1>0, LenProperties, ConcatProperties DEF Opened
  <1>2. \A i \in 1..(m + k) : (s \o t)[i] = IF i <= m THEN s[i] ELSE t[i - m]
    BY <1>0, ConcatProperties
  <1>3. /\ s[1].what = "clear"
        /\ \A i \in 1..m : s[i].what # "complete"
        /\ \A i \in 2..m : s[i].what # "clear"
        /\ \A i \in 1..k : t[i].what \notin {"clear", "complete"}
    BY DEF Opened, Middle
  <1>4. Opened(s \o t, F, L)
    <2> HIDE DEF m, k
    <2>1. (s \o t)[1].what = "clear"
      BY <1>1, <1>2, <1>3
    <2>2. ASSUME NEW i \in 1..(m + k)
          PROVE  (s \o t)[i].what # "complete" /\ (i >= 2 => (s \o t)[i].what # "clear")
      <3>1. CASE i <= m
        BY <1>1, <1>2, <1>3, <3>1
      <3>2. CASE i > m
        <4>1. i - m \in 1..k /\ ~(i <= m)
          BY <1>1, <3>2
        <4>2. (s \o t)[i] = t[i - m]
          BY <1>2, <4>1
        <4> QED BY <1>3, <4>1, <4>2
      <3> QED BY <1>1, <3>1, <3>2
    <2> QED BY <1>1, <2>1, <2>2 DEF Opened
  <1> QED BY <1>0, <1>4, LeftOfBoth

\* The last write makes it a plan.
LEMMA ClosedPlan ==
  ASSUME NEW F, NEW L, NEW s, Opened(s, F, L)
  PROVE  /\ Planned(s \o One("complete"), F, L)
         /\ (s \o One("complete"))[1].what = "clear"
         /\ \A what, n : Left(s, what, n) => Left(s \o One("complete"), what, n)
  <1> DEFINE t == One("complete")
             m == Len(s)
  <1>0. /\ t \in Seq(Items(F, L)) /\ Len(t) = 1 /\ t[1].what = "complete"
    BY LoopItem DEF One, Single
  <1> HIDE DEF t
  <1>1. m \in Nat /\ Len(s \o t) = m + 1 /\ s \o t \in Seq(Items(F, L)) /\ m > 0
        /\ s \in Seq(Items(F, L))
    <2>1. s \in Seq(Items(F, L)) /\ m > 0
      BY DEF Opened
    <2>2. m \in Nat
      BY <2>1, LenProperties
    <2>3. Len(s \o t) = m + Len(t) /\ s \o t \in Seq(Items(F, L))
      BY <1>0, <2>1, ConcatProperties
    <2> QED BY <1>0, <2>1, <2>2, <2>3
  <1>2. \A i \in 1..(m + 1) : (s \o t)[i] = IF i <= m THEN s[i] ELSE t[i - m]
    BY <1>0, <1>1, ConcatProperties
  <1>3. /\ s[1].what = "clear"
        /\ \A i \in 1..m : s[i].what # "complete"
        /\ \A i \in 2..m : s[i].what # "clear"
    BY DEF Opened
  <1>4. Planned(s \o t, F, L) /\ (s \o t)[1].what = "clear"
    <2> HIDE DEF m
    <2>1. (s \o t)[m + 1].what = "complete"
      BY <1>0, <1>1, <1>2
    <2>2. \A i \in 1..m : (s \o t)[i] = s[i]
      BY <1>1, <1>2
    <2>3. \A i \in 1..(m + 1) : (s \o t)[i].what = "complete" <=> i = m + 1
      BY <1>1, <1>3, <2>1, <2>2
    <2>4. \A i \in 2..(m + 1) : (s \o t)[i].what # "clear"
      BY <1>1, <1>3, <2>1, <2>2
    <2>5. (s \o t)[1].what = "clear"
      BY <1>1, <1>3, <2>2
    <2> QED BY <1>1, <2>3, <2>4, <2>5 DEF Planned
  <1> QED BY <1>0, <1>1, <1>4, LeftOfBoth DEF t

\* Both orders of writes are plans for the files they are drawn up for.
LEMMA WritesPlanned ==
  ASSUME NEW s, NEW v, NEW F, NEW L,
         F = DOMAIN NewFiles(s, v), L = Names(Parent[s]) \ DOMAIN NewFiles(s, v)
  PROVE  /\ Planned(Writes(s, v), F, L)
         /\ Writes(s, v)[1].what = "clear"
         /\ AllLeft(Writes(s, v), F, L)
  <1> DEFINE shards == NewShards(s, v)
             links == Links(s, v)
  <1>1. Opened(One("clear"), F, L)
    BY LoopItem DEF Opened, One, Single
  <1>2. Middle(shards, F, L) /\ \A n \in F : Left(shards, "shard", n)
    <2>1. shards = Each("shard", F)
      BY DEF NewShards
    <2> QED BY <2>1, LoopItem DEF Middle
  <1>3. Middle(links, F, L) /\ \A n \in L : Left(links, "link", n)
    <2>1. links = Each("link", L)
      BY DEF Links
    <2> QED BY <2>1, LoopItem DEF Middle
  <1>4. ASSUME NEW w \in {"building", "config", "index"}
        PROVE  Middle(One(w), F, L) /\ Left(One(w), w, "none")
    <2>1. w \in Single
      BY DEF Single
    <2>2. One(w) = Each(w, {"none"})
      BY DEF One
    <2> QED BY <2>1, <2>2, LoopItem DEF Middle
  <1> HIDE DEF shards, links
  <1>5. ASSUME s \in {"bf16", "h3"}
        PROVE  /\ Planned(Writes(s, v), F, L)
               /\ Writes(s, v)[1].what = "clear"
               /\ AllLeft(Writes(s, v), F, L)
    <2> DEFINE a == One("clear") \o One("building")
               b == a \o shards
               c == b \o links
               d == c \o One("config")
               e == d \o One("index")
    <2>1. Opened(a, F, L)
      BY <1>1, <1>4, OpenedWith
    <2> HIDE DEF a
    <2>2. Opened(b, F, L) /\ \A n \in F : Left(b, "shard", n)
      BY <2>1, <1>2, OpenedWith
    <2> HIDE DEF b
    <2>3. Opened(c, F, L) /\ (\A n \in F : Left(c, "shard", n)) /\ \A n \in L : Left(c, "link", n)
      BY <2>2, <1>3, OpenedWith
    <2> HIDE DEF c
    <2>4. /\ Opened(d, F, L) /\ (\A n \in F : Left(d, "shard", n)) /\ \A n \in L : Left(d, "link", n)
          /\ Left(d, "config", "none")
      BY <2>3, <1>4, OpenedWith
    <2> HIDE DEF d
    <2>5. /\ Opened(e, F, L) /\ (\A n \in F : Left(e, "shard", n)) /\ \A n \in L : Left(e, "link", n)
          /\ Left(e, "config", "none") /\ Left(e, "index", "none")
      BY <2>4, <1>4, OpenedWith
    <2> HIDE DEF e
    <2>6. Writes(s, v) = e \o One("complete")
      BY <1>5 DEF Writes, SourceWrites, a, b, c, d, e, shards, links
    <2> QED BY <2>5, <2>6, ClosedPlan DEF AllLeft
  <1>6. ASSUME s \notin {"bf16", "h3"}
        PROVE  /\ Planned(Writes(s, v), F, L)
               /\ Writes(s, v)[1].what = "clear"
               /\ AllLeft(Writes(s, v), F, L)
    <2> DEFINE b == One("clear") \o shards
               c == b \o One("config")
               d == c \o One("index")
               e == d \o links
    <2>2. Opened(b, F, L) /\ \A n \in F : Left(b, "shard", n)
      BY <1>1, <1>2, OpenedWith
    <2> HIDE DEF b
    <2>3. Opened(c, F, L) /\ (\A n \in F : Left(c, "shard", n)) /\ Left(c, "config", "none")
      BY <2>2, <1>4, OpenedWith
    <2> HIDE DEF c
    <2>4. /\ Opened(d, F, L) /\ (\A n \in F : Left(d, "shard", n))
          /\ Left(d, "config", "none") /\ Left(d, "index", "none")
      BY <2>3, <1>4, OpenedWith
    <2> HIDE DEF d
    <2>5. /\ Opened(e, F, L) /\ (\A n \in F : Left(e, "shard", n)) /\ \A n \in L : Left(e, "link", n)
          /\ Left(e, "config", "none") /\ Left(e, "index", "none")
      BY <2>4, <1>3, OpenedWith
    <2> HIDE DEF e
    <2>6. Writes(s, v) = e \o One("complete")
      BY <1>6 DEF Writes, DeltaWrites, b, c, d, e, shards, links
    <2> QED BY <2>5, <2>6, ClosedPlan DEF AllLeft
  <1> QED BY <1>5, <1>6

\* After a write, everything else of the plan is left.
LEMMA RestPlanned ==
  ASSUME NEW F, NEW L, NEW todo, Planned(todo, F, L), NEW h, h = todo[1],
         h.what # "complete",
         NEW x \in h.names
  PROVE  LET rest == Each(h.what, h.names \ {x}) \o Tail(todo)
         IN /\ Planned(rest, F, L)
            /\ rest[1].what # "clear"
            /\ \A what, n :
                 Left(todo, what, n) => Left(rest, what, n) \/ (what = h.what /\ n = x)
  <1> DEFINE others == h.names \ {x}
             e == Each(h.what, others)
             t == Tail(todo)
             rest == e \o t
             m == Len(todo)
             k == Len(e)
             j(i) == i - k
  <1>1. h \in Items(F, L)
    <2>1. todo \in Seq(Items(F, L)) /\ Len(todo) > 0
      BY DEF Planned
    <2>2. 1 \in 1..Len(todo)
      BY <2>1, LenProperties
    <2> QED BY <2>1, <2>2, ElementOfSeq
  <1>2. x \in h.names
    OBVIOUS
  <1>3. \/ h.what = "shard" /\ others \subseteq F
        \/ h.what = "link" /\ others \subseteq L
        \/ h.what \in Single /\ others \subseteq {"none"}
    BY <1>1 DEF Items
  <1>4. h.what = "clear" => others = {}
    BY <1>1, <1>2 DEF Items
  <1> HIDE DEF others
  <1>5. /\ e \in Seq(Items(F, L)) /\ \A i \in 1..Len(e) : e[i].what = h.what
        /\ \A n \in others : Left(e, h.what, n)
        /\ others # {} => Len(e) = 1
        /\ others = {} => Len(e) = 0
    <2>1. /\ Each(h.what, others) \in Seq(Items(F, L))
          /\ \A i \in 1..Len(Each(h.what, others)) : Each(h.what, others)[i].what = h.what
          /\ \A n \in others : Left(Each(h.what, others), h.what, n)
          /\ others # {} => Len(Each(h.what, others)) = 1
          /\ others = {} => Len(Each(h.what, others)) = 0
      BY <1>3, LoopItem, Zenon
    <2> QED BY <2>1
  <1> HIDE DEF e
  <1>6. /\ k \in {0, 1} /\ (h.what = "clear" => k = 0)
        /\ \A i \in 1..k : e[i].what = h.what
    BY <1>4, <1>5 DEF k
  <1>7. m \in Nat /\ m > 1 /\ todo \in Seq(Items(F, L))
    <2>1. m \in Nat /\ m > 0 /\ todo \in Seq(Items(F, L))
      BY LenProperties DEF Planned
    <2>2. m # 1
      BY <2>1 DEF Planned
    <2> HIDE DEF m
    <2> QED BY <2>1, <2>2
  <1>8. /\ t \in Seq(Items(F, L)) /\ Len(t) = m - 1
        /\ \A i \in 1..(m - 1) : t[i] = todo[i + 1]
    <2>1. todo # <<>>
      BY <1>7
    <2> QED BY <1>7, <2>1, HeadTailProperties
  <1>9. /\ \A i \in 2..m : todo[i].what # "clear"
        /\ \A i \in 1..m : todo[i].what = "complete" <=> i = m
    BY DEF Planned
  <1>10. ASSUME NEW what, NEW n, Left(todo, what, n), ~(what = h.what /\ n \in h.names)
        PROVE  Left(t, what, n)
    <2>1. PICK i \in 1..m : todo[i].what = what /\ n \in todo[i].names
      BY <1>10 DEF Left
    <2>2. i # 1
      BY <1>10, <2>1
    <2> HIDE DEF m
    <2>3. i - 1 \in 1..(m - 1) /\ t[i - 1] = todo[(i - 1) + 1] /\ (i - 1) + 1 = i
      BY <1>7, <1>8, <2>2
    <2>4. i - 1 \in 1..Len(t)
      BY <1>8, <2>3
    <2>5. t[i - 1].what = what /\ n \in t[i - 1].names
      BY <2>1, <2>3
    <2> HIDE DEF Left
    <2> QED BY <2>4, <2>5 DEF Left
  <1>11. /\ e \o t \in Seq(Items(F, L))
        /\ Len(e \o t) = k + (m - 1)
        /\ \A i \in 1..(k + (m - 1)) : (e \o t)[i] = IF i <= k THEN e[i] ELSE t[i - k]
    BY <1>5, <1>8, ConcatProperties
  <1> HIDE DEF k, t
  <1> DEFINE w == k + (m - 1)
  <1>12. w \in Nat /\ w > 0 /\ Len(rest) = w /\ 1 \in 1..w
    BY <1>6, <1>7, <1>11
  <1>13. ASSUME NEW i \in 1..w
        PROVE  rest[i].what # "clear" /\ (rest[i].what = "complete" <=> i = w)
    <2> HIDE DEF rest, m
    <2>1. CASE i <= k
      <3>1. rest[i] = e[i] /\ k = 1 /\ i = 1 /\ i # w
        BY <1>6, <1>7, <1>11, <2>1 DEF rest
      <3>2. e[i].what = h.what
        BY <1>6, <3>1
      <3> QED BY <1>6, <3>1, <3>2
    <2>2. CASE ~(i <= k)
      <3>1. /\ j(i) \in 1..(m - 1) /\ j(i) + 1 \in 2..m /\ j(i) + 1 \in 1..m
            /\ (i = w <=> j(i) + 1 = m)
        BY <1>6, <1>7, <2>2
      <3>2. rest[i] = t[j(i)]
        BY <1>11, <2>2 DEF rest
      <3> HIDE DEF j
      <3>3. rest[i] = todo[j(i) + 1]
        BY <1>8, <3>1, <3>2
      <3> QED BY <1>9, <3>1, <3>3
    <2> QED BY <2>1, <2>2
  <1> HIDE DEF w, rest
  <1>14. rest \in Seq(Items(F, L))
    BY <1>11 DEF rest
  <1>15. Planned(rest, F, L) /\ rest[1].what # "clear"
    BY <1>12, <1>13, <1>14 DEF Planned
  <1>16. /\ Planned(rest, F, L)
         /\ rest[1].what # "clear"
         /\ t \in Seq(Items(F, L))
         /\ \A what, n :
              Left(todo, what, n) /\ ~(what = h.what /\ n \in h.names) => Left(t, what, n)
    BY <1>8, <1>10, <1>15
  <1>17. ASSUME NEW what, NEW n, Left(todo, what, n)
         PROVE  Left(rest, what, n) \/ (what = h.what /\ n = x)
    <2>1. Left(e, what, n) \/ Left(t, what, n) => Left(rest, what, n)
      BY <1>5, <1>16, LeftOfBoth, Zenon DEF rest
    <2>2. what = h.what /\ n \in h.names => n = x \/ Left(e, what, n)
      BY <1>5 DEF others
    <2> QED BY <1>16, <1>17, <2>1, <2>2
  <1> QED BY <1>2, <1>16, <1>17, Zenon DEF e, others, t, rest
-----------------------------------------------------------------------------
(* Builds.                                                                   *)

\* The stages, the stage that each is made on, and what the script wants of each.
LEMMA StagesAre ==
  /\ ToSet(Chain) = {"h3", "h4", "h5", "h6"}
  /\ Stages = {"bf16", "h3", "h4", "h5", "h6"}
  /\ Parent["bf16"] = "base" /\ Parent["h3"] = "base" /\ Parent["h4"] = "h3"
  /\ Parent["h5"] = "h4" /\ Parent["h6"] = "h5"
  /\ \A s \in ToSet(Chain) : Wanted[s] \in Variants(s)
  <1>1. ToSet(Chain) = {Chain[1], Chain[2], Chain[3], Chain[4]}
    BY DEF Chain, ToSet
  <1>2. Chain[1] = "h3" /\ Chain[2] = "h4" /\ Chain[3] = "h5" /\ Chain[4] = "h6"
    BY DEF Chain
  <1>3. ToSet(Chain) = {"h3", "h4", "h5", "h6"}
    BY <1>1, <1>2
  <1> QED BY <1>3 DEF Stages, Parent, Wanted, Variants

\* The doubt about what a build is made on is not settled while it runs.
LEMMA DoubtStays ==
  ASSUME NEW s \in Stages, suspect \subseteq Stages, suspect' \subseteq Stages,
         \A t \in Stages \ {s} : dir'[t] = dir[t] /\ (t \in suspect' <=> t \in suspect)
  PROVE  Doubtful(Parent[s])' <=> Doubtful(Parent[s])
  <1>1. s \in {"bf16", "h3", "h4", "h5", "h6"} /\ "base" \notin Stages
        /\ {"h3", "h4", "h5"} \subseteq Stages
    BY StagesAre
  <1>2. CASE s \in {"bf16", "h3"}
    <2>1. Parent[s] = "base"
      BY <1>2, StagesAre
    <2> QED BY <1>1, <2>1 DEF Doubtful
  <1>3. CASE s \in {"h4", "h5", "h6"}
    <2>1. Parent[s] \in Stages \ {s} /\ (Parent[s] = "h3" => "h3" \in Stages \ {s})
      BY <1>1, <1>3, StagesAre
    <2> QED BY <2>1 DEF Doubtful
  <1> QED BY <1>1, <1>2, <1>3

\* What a build finds when it starts is what it is to be made of.
LEMMA Matches ==
  ASSUME ChainShape, CompleteIsWhole, NEW s \in Stages, NEW v \in Variants(s), Founded(s),
         ~Doubtful(Parent[s])
  PROVE  /\ NewFiles(s, v) = FilesOf(s, v, MakingWith(s))
         /\ Names(Parent[s]) \ DOMAIN NewFiles(s, v) = LinksOf(s, v, MakingWith(s))
         /\ NewIndex(s, v) = IndexOf(s, v, MakingWith(s))
         /\ NewConfig(s, v) = ConfigOf(s, v)
  <1>0. s \in {"bf16", "h3", "h4", "h5", "h6"}
    BY StagesAre
  <1>1. CASE s = "bf16"
    <2>1. NewFiles(s, v) = FilesOf(s, v, MakingWith(s))
      BY <1>1 DEF NewFiles, FilesOf, Rewrites, RewritesOf, Rewritten, MakingWith, SourceStages
    <2>2. Names(Parent[s]) = ParentNames(s)
      BY <1>1, StagesAre DEF Names, ParentNames, BaseNames, SourceStages
    <2>3. NewIndex(s, v) = IndexOf(s, v, MakingWith(s))
      BY <1>1 DEF NewIndex, IndexOf, IndexBF, Bf16Index, Index, BaseIndex
    <2>4. NewConfig(s, v) = ConfigOf(s, v)
      BY <1>1 DEF NewConfig, ConfigOf
    <2> QED BY <2>1, <2>2, <2>3, <2>4 DEF LinksOf
  <1>2. CASE s = "h3"
    <2>1. NewFiles(s, v) = FilesOf(s, v, MakingWith(s))
      BY <1>2 DEF NewFiles, FilesOf, Rewrites, RewritesOf, Rewritten, Extracts, ExtractsOf,
                  MakingWith, SourceStages
    <2>2. Names(Parent[s]) = ParentNames(s)
      BY <1>2, StagesAre DEF Names, ParentNames, BaseNames, SourceStages
    <2>3. NewIndex(s, v) = IndexOf(s, v, MakingWith(s))
      BY <1>2 DEF NewIndex, IndexOf, IndexH3, H3Index, Extracts, ExtractsOf, Index, BaseIndex,
                  MakingWith, SourceStages
    <2>4. NewConfig(s, v) = ConfigOf(s, v)
      BY <1>2 DEF NewConfig, ConfigOf, H3Config
    <2> QED BY <2>1, <2>2, <2>3, <2>4 DEF LinksOf
  <1>3. CASE s = "h4"
    <2>0. /\ "h3" \in Stages \ suspect
          /\ dir["h3"].manifest.overlay = Pinned
          /\ dir["h3"].manifest.status = "complete" /\ dir["h3"].manifest.variant = Wanted.h3
      BY <1>3, StagesAre DEF SourceStages, Founded, Complete, Doubtful
    <2>1. Whole("h3") /\ MadeWith("h3") = Pinned
      BY <2>0 DEF CompleteIsWhole, Whole, MadeWith, SourceStages
    <2>2. /\ Index("h3") = IndexH3(Pinned)
          /\ dir["h3"].config = ModelOpt("NVFP4")
          /\ Names("h3") = LinksOf("h3", Wanted.h3, Pinned) \cup DOMAIN FilesOf("h3", Wanted.h3, Pinned)
      BY <2>0, <2>1 DEF Whole, Index, IndexOf, ConfigOf, Names
    <2>3. NewFiles(s, v) = FilesOf(s, v, MakingWith(s))
      BY <1>3 DEF NewFiles, FilesOf
    <2>4. Names(Parent[s]) = ParentNames(s)
      BY <1>3, <2>2, StagesAre DEF NamesH3, ParentNames, LinksOf, SourceStages
    <2>5. NewIndex(s, v) = IndexOf(s, v, MakingWith(s))
      BY <1>3, <2>2 DEF NewIndex, IndexOf, IndexH4, H4Index
    <2>6. NewConfig(s, v) = ConfigOf(s, v)
      BY <1>3, <2>2, StagesAre DEF NewConfig, ConfigOf
    <2> QED BY <2>3, <2>4, <2>5, <2>6 DEF LinksOf
  <1>4. CASE s = "h5"
    <2>0. /\ "h4" \in Stages \ suspect
          /\ dir["h4"].manifest.status = "complete" /\ dir["h4"].manifest.variant = Wanted.h4
          /\ Wanted.h4 = "h4-orca-all"
      BY <1>4, StagesAre DEF SourceStages, Founded, Complete, Doubtful, Wanted
    <2>1. Whole("h4") /\ MadeWith("h4") = Pinned
      BY <2>0 DEF CompleteIsWhole, MadeWith, SourceStages
    <2>2. /\ Index("h4") = IndexH4("h4-orca-all")
          /\ dir["h4"].config = ModelOpt("NVFP4")
          /\ Names("h4") = LinksOf("h4", Wanted.h4, Pinned) \cup DOMAIN FilesOf("h4", Wanted.h4, Pinned)
      BY <2>0, <2>1 DEF Whole, Index, IndexOf, ConfigOf, Names
    <2>3. NewFiles(s, v) = FilesOf(s, v, MakingWith(s))
      BY <1>4, <2>2 DEF NewFiles, FilesOf, Neutral, NeutralFiles
    <2>4. Names(Parent[s]) = ParentNames(s)
      BY <1>4, <2>2, StagesAre DEF NamesH4, ParentNames, LinksOf, SourceStages
    <2>5. NewIndex(s, v) = IndexOf(s, v, MakingWith(s))
      BY <1>4, <2>2 DEF NewIndex, IndexOf, IndexH5, H5Index, Neutral, NeutralFiles
    <2>6. NewConfig(s, v) = ConfigOf(s, v)
      BY <1>4, <2>2, StagesAre DEF NewConfig, ConfigOf
    <2> QED BY <2>3, <2>4, <2>5, <2>6 DEF LinksOf
  <1>5. CASE s = "h6"
    <2>0. /\ "h5" \in Stages \ suspect
          /\ dir["h5"].manifest.status = "complete" /\ dir["h5"].manifest.variant = Wanted.h5
      BY <1>5, StagesAre DEF SourceStages, Founded, Complete, Doubtful
    <2>1. Whole("h5") /\ MadeWith("h5") = Pinned
      BY <2>0 DEF CompleteIsWhole, MadeWith, SourceStages
    <2>2. /\ Index("h5") = IndexH5
          /\ dir["h5"].config = ModelOpt("NVFP4")
          /\ Names("h5") = LinksOf("h5", Wanted.h5, Pinned) \cup DOMAIN FilesOf("h5", Wanted.h5, Pinned)
      BY <2>0, <2>1 DEF Whole, Index, IndexOf, ConfigOf, Names
    <2>3. NewFiles(s, v) = FilesOf(s, v, MakingWith(s))
      BY <1>5 DEF NewFiles, FilesOf
    <2>4. Names(Parent[s]) = ParentNames(s)
      BY <1>5, <2>2, StagesAre DEF NamesH5, ParentNames, LinksOf, SourceStages
    <2>5. NewIndex(s, v) = IndexOf(s, v, MakingWith(s))
      BY <1>5, <2>2 DEF NewIndex, IndexOf
    <2>6. NewConfig(s, v) = ConfigOf(s, v)
      BY <1>5, <2>2 DEF NewConfig, ConfigOf, H6Config, ModelOpt, Config
    <2> QED BY <2>3, <2>4, <2>5, <2>6 DEF LinksOf
  <1> QED BY <1>0, <1>1, <1>2, <1>3, <1>4, <1>5

\* A stage that no step touches stays what it is.
LEMMA WholeStays ==
  ASSUME NEW s, dir'[s] = dir[s], Whole(s)
  PROVE  Whole(s)'
  BY DEF Whole, MadeWith, SourceStages

\* A step that writes to one stage leaves the others complete.
LEMMA CompleteStays ==
  ASSUME NEW x, CompleteIsWhole,
         \A s \in Stages \ {x} : dir'[s] = dir[s] /\ (s \in suspect => s \in suspect'),
         x \in Stages \ suspect' => (dir[x].manifest.status = "complete" => Whole(x))'
  PROVE  CompleteIsWhole'
  <1> SUFFICES ASSUME NEW s \in Stages \ suspect', (dir[s].manifest.status = "complete")'
               PROVE  Whole(s)'
    BY DEF CompleteIsWhole
  <1>1. CASE s = x
    BY <1>1
  <1>2. CASE s # x
    <2>1. dir'[s] = dir[s] /\ s \in Stages \ suspect
      BY <1>2
    <2> QED BY <2>1, WholeStays DEF CompleteIsWhole
  <1> QED BY <1>1, <1>2

\* A build leaves alone what it is founded on.
LEMMA FoundedStays ==
  ASSUME NEW s \in Stages, Founded(s), overlay' = overlay,
         \A t \in Stages \ {s} : dir'[t] = dir[t]
  PROVE  Founded(s)' /\ MakingWith(s)' = MakingWith(s)
  <1>1. s \in {"bf16", "h3", "h4", "h5", "h6"} /\ {"h3", "h4", "h5"} \subseteq Stages
    BY StagesAre
  <1> QED BY <1>1 DEF Founded, Complete, Index, MakingWith, SourceStages

\* A write that keeps a build on its course keeps the invariant.
LEMMA WriteStep ==
  ASSUME ChainInv, job # NoJob, overlay' = overlay, chain' = chain,
         NEW d, d = [files |-> d.files, index |-> d.index, config |-> d.config,
                     manifest |-> d.manifest],
         dir' = [dir EXCEPT ![job.stage] = d],
         NEW todo, job' = [job EXCEPT !.todo = todo],
         suspect' \subseteq Stages,
         \A t \in Stages \ {job.stage} : t \in suspect' <=> t \in suspect,
         Doubtful(Parent[job.stage]) => job.stage \in suspect',
         ~Doubtful(Parent[job.stage]) =>
           LET r == MakingWith(job.stage)
               files == FilesOf(job.stage, job.variant, r)
               links == LinksOf(job.stage, job.variant, r)
           IN /\ Planned(todo, DOMAIN files, links)
              /\ todo[1].what # "clear"
              /\ Written(d, todo, files, links, IndexOf(job.stage, job.variant, r),
                         ConfigOf(job.stage, job.variant))
  PROVE  ChainInv'
  <1> DEFINE s == job.stage
             v == job.variant
  <1>1. /\ s \in Stages /\ v \in Variants(s) /\ DOMAIN dir = Stages
        /\ job = [stage |-> s, variant |-> v, todo |-> job.todo]
        /\ job' = [stage |-> s, variant |-> v, todo |-> todo]
        /\ dir'[s] = d /\ \A t \in Stages \ {s} : dir'[t] = dir[t]
        /\ DOMAIN dir' = Stages
    BY DEF ChainInv, ChainShape
  <1>2. ChainShape'
    <2>1. dir' = [t \in Stages |-> [files |-> dir'[t].files, index |-> dir'[t].index,
                              config |-> dir'[t].config, manifest |-> dir'[t].manifest]]
      BY <1>1 DEF ChainInv, ChainShape
    <2> QED BY <1>1, <2>1 DEF ChainInv, ChainShape, Variants
  <1>5. Doubtful(Parent[s])' <=> Doubtful(Parent[s])
    BY <1>1, DoubtStays DEF ChainInv, ChainShape
  <1>3. CompleteIsWhole'
    <2>1. s \in Stages \ suspect' => d.manifest.status # "complete"
      BY DEF Written
    <2> QED BY <1>1, <2>1, CompleteStays DEF ChainInv
  <1>4. BuildOnCourse'
    <2> SUFFICES ASSUME ~Doubtful(Parent[s])
                 PROVE  Working(s, v, todo)'
      BY <1>1, <1>5 DEF BuildOnCourse
    <2>1. Founded(s)' /\ MakingWith(s)' = MakingWith(s)
      <3>1. Founded(s)
        BY DEF ChainInv, BuildOnCourse, Working
      <3> QED BY <1>1, <3>1, FoundedStays
    <2> QED BY <1>1, <2>1 DEF Working
  <1>6. DoubtIsMarked'
    BY <1>1, <1>5 DEF DoubtIsMarked
  <1> QED BY <1>2, <1>3, <1>4, <1>6 DEF ChainInv

\* What the head of a plan says, and what is left after one write of it.
LEMMA HeadOfPlan ==
  ASSUME ChainInv, job # NoJob, ~Doubtful(Parent[job.stage]), NEW what, Todo(what),
         what # "complete"
  PROVE  LET s == job.stage
             v == job.variant
             F == DOMAIN FilesOf(s, v, MakingWith(s))
             L == LinksOf(s, v, MakingWith(s))
         IN /\ Planned(Rest, F, L) /\ Rest[1].what # "clear"
            /\ \A w, n : Left(job.todo, w, n) => Left(Rest, w, n) \/ (w = what /\ n = This)
            /\ Left(job.todo, what, This)
            /\ what = "shard" => This \in F
            /\ what = "link" => This \in L
            /\ what = "clear" => AllLeft(job.todo, F, L)
            /\ what # "clear" =>
                 Written(dir[s], job.todo, FilesOf(s, v, MakingWith(s)), L,
                         IndexOf(s, v, MakingWith(s)), ConfigOf(s, v))
  <1> DEFINE s == job.stage
             v == job.variant
             F == DOMAIN FilesOf(s, v, MakingWith(s))
             L == LinksOf(s, v, MakingWith(s))
             todo == job.todo
             h == todo[1]
  <1>1. Working(s, v, todo)
    BY DEF ChainInv, BuildOnCourse
  <1>2. Planned(todo, F, L)
    BY <1>1 DEF Working
  <1>3. todo # <<>> /\ Head(todo) = h /\ h.what = what
    BY DEF Todo
  <1>4. /\ what = "clear" => AllLeft(todo, F, L)
        /\ what # "clear" =>
             Written(dir[s], todo, FilesOf(s, v, MakingWith(s)), L,
                     IndexOf(s, v, MakingWith(s)), ConfigOf(s, v))
    BY <1>1, <1>3 DEF Working
  <1>5. This = CHOOSE n \in h.names : TRUE
    BY <1>3 DEF This
  <1>6. Rest = Each(h.what, h.names \ {This}) \o Tail(todo)
    BY <1>3 DEF Rest
  <1>7. h \in Items(F, L) /\ 1 \in 1..Len(todo)
    <2>1. todo \in Seq(Items(F, L)) /\ Len(todo) > 0
      BY <1>2 DEF Planned
    <2> QED BY <2>1, LenProperties, ElementOfSeq
  <1>11. This \in h.names
    BY <1>5, <1>7 DEF Items
  <1> HIDE DEF s, v, F, L, todo, h
  <1>8. /\ Planned(Rest, F, L) /\ Rest[1].what # "clear" /\ This \in h.names
        /\ \A w, n : Left(todo, w, n) => Left(Rest, w, n) \/ (w = h.what /\ n = This)
    <2>1. LET rest == Each(h.what, h.names \ {This}) \o Tail(todo)
          IN /\ Planned(rest, F, L)
             /\ rest[1].what # "clear"
             /\ \A w, n : Left(todo, w, n) => Left(rest, w, n) \/ (w = h.what /\ n = This)
      <3>1. h = todo[1] /\ h.what # "complete"
        BY <1>3 DEF h
      <3> QED BY <1>2, <1>11, <3>1, RestPlanned, Zenon
    <2> QED BY <1>6, <1>11, <2>1, Zenon
  <1>9. Left(todo, what, This)
    BY <1>3, <1>7, <1>8 DEF Left, h
  <1>10. (what = "shard" => This \in F) /\ (what = "link" => This \in L)
    BY <1>3, <1>7, <1>8 DEF Items, Single
  <1> QED BY <1>3, <1>4, <1>8, <1>9, <1>10 DEF s, v, F, L, todo

\* A stage with one of its parts replaced.
LEMMA StageWith ==
  ASSUME NEW d, NEW x,
         d = [files |-> d.files, index |-> d.index, config |-> d.config, manifest |-> d.manifest]
  PROVE  /\ [d EXCEPT !.files = x]
              = [files |-> x, index |-> d.index, config |-> d.config, manifest |-> d.manifest]
         /\ [d EXCEPT !.index = x]
              = [files |-> d.files, index |-> x, config |-> d.config, manifest |-> d.manifest]
         /\ [d EXCEPT !.config = x]
              = [files |-> d.files, index |-> d.index, config |-> x, manifest |-> d.manifest]
         /\ [d EXCEPT !.manifest = x]
              = [files |-> d.files, index |-> d.index, config |-> d.config, manifest |-> x]
  <1> DEFINE f == d.files
             i == d.index
             c == d.config
             m == d.manifest
  <1>1. d = [files |-> f, index |-> i, config |-> c, manifest |-> m]
    OBVIOUS
  <1> HIDE DEF f, i, c, m
  <1>2. /\ [d EXCEPT !.files = x] = [files |-> x, index |-> i, config |-> c, manifest |-> m]
        /\ [d EXCEPT !.index = x] = [files |-> f, index |-> x, config |-> c, manifest |-> m]
        /\ [d EXCEPT !.config = x] = [files |-> f, index |-> i, config |-> x, manifest |-> m]
        /\ [d EXCEPT !.manifest = x] = [files |-> f, index |-> i, config |-> c, manifest |-> x]
    BY <1>1
  <1> QED BY <1>2, Zenon DEF f, i, c, m

\* The shape of a stage, and of a job.
LEMMA Shapes ==
  ASSUME ChainInv
  PROVE  /\ \A s \in Stages : dir[s] = [files |-> dir[s].files, index |-> dir[s].index,
                                        config |-> dir[s].config, manifest |-> dir[s].manifest]
         /\ \A what : Todo(what) => job # NoJob
         /\ suspect \subseteq Stages
         /\ \A what : Todo(what) /\ what # "clear" /\ Doubtful(Parent[job.stage])
                      => job.stage \in suspect
  BY DEF ChainInv, ChainShape, DoubtIsMarked, Todo, NoJob

\* Emptying a stage leaves everything to be written.
LEMMA ClearStep == ASSUME ChainInv, Clear PROVE ChainInv'
  <1> DEFINE s == job.stage
             v == job.variant
             files == FilesOf(s, v, MakingWith(s))
             L == LinksOf(s, v, MakingWith(s))
  <1>1. /\ Todo("clear") /\ dir' = [dir EXCEPT ![s] = Empty]
        /\ job' = [job EXCEPT !.todo = Rest] /\ UNCHANGED <<overlay, chain>>
        /\ suspect' = {t \in suspect \cup {s} : t = s => Doubtful(Parent[s])}
    BY DEF Clear, Done
  <1>2. job # NoJob
    BY <1>1, Shapes
  <1>3. ASSUME ~Doubtful(Parent[s])
        PROVE  /\ Planned(Rest, DOMAIN files, L) /\ Rest[1].what # "clear"
               /\ Written(Empty, Rest, files, L, IndexOf(s, v, MakingWith(s)), ConfigOf(s, v))
    <2>1. /\ Planned(Rest, DOMAIN files, L) /\ Rest[1].what # "clear"
          /\ AllLeft(job.todo, DOMAIN files, L)
          /\ \A w, n : Left(job.todo, w, n) => Left(Rest, w, n) \/ (w = "clear" /\ n = This)
      BY <1>1, <1>2, <1>3, HeadOfPlan
    <2> HIDE DEF files, L
    <2>2. AllLeft(Rest, DOMAIN files, L)
      BY <2>1 DEF AllLeft
    <2>3. Empty.manifest.status # "complete" /\ DOMAIN Empty.files = {}
      BY DEF Empty
    <2> QED BY <2>1, <2>2, <2>3 DEF AllLeft, Written
  <1>4. Empty = [files |-> Empty.files, index |-> Empty.index, config |-> Empty.config,
                 manifest |-> Empty.manifest]
    BY DEF Empty
  <1>5. s \in Stages /\ suspect \subseteq Stages
    BY <1>2 DEF ChainInv, ChainShape
  <1> QED BY <1>1, <1>2, <1>3, <1>4, <1>5, WriteStep

\* The first manifest changes nothing else.
LEMMA BuildingStep == ASSUME ChainInv, WriteBuilding PROVE ChainInv'
  <1> DEFINE s == job.stage
             v == job.variant
             files == FilesOf(s, v, MakingWith(s))
             L == LinksOf(s, v, MakingWith(s))
             d == [Stage EXCEPT !.manifest = Manifest("building")]
  <1>1. /\ Todo("building") /\ dir' = [dir EXCEPT ![s] = d]
        /\ job' = [job EXCEPT !.todo = Rest] /\ UNCHANGED <<base, overlay, globals, chain, stops, suspect>>
    BY DEF WriteBuilding, Write, Done
  <1>2. job # NoJob
    BY <1>1, Shapes
  <1>3. s \in Stages /\ Stage = dir[s]
    BY <1>2 DEF ChainInv, ChainShape, Stage
  <1>4. /\ d = [files |-> dir[s].files, index |-> dir[s].index, config |-> dir[s].config,
                manifest |-> Manifest("building")]
        /\ d = [files |-> d.files, index |-> d.index, config |-> d.config, manifest |-> d.manifest]
    <2>1. dir[s] = [files |-> dir[s].files, index |-> dir[s].index, config |-> dir[s].config,
                    manifest |-> dir[s].manifest]
      BY <1>3, Shapes
    <2>2. d = [files |-> dir[s].files, index |-> dir[s].index, config |-> dir[s].config,
               manifest |-> Manifest("building")]
      <3>1. [dir[s] EXCEPT !.manifest = Manifest("building")]
              = [files |-> dir[s].files, index |-> dir[s].index, config |-> dir[s].config,
                 manifest |-> Manifest("building")]
        BY <2>1, StageWith, Zenon
      <3> QED BY <1>3, <3>1, Zenon
    <2> HIDE DEF d
    <2> QED BY <2>2
  <1>5. ASSUME ~Doubtful(Parent[s])
        PROVE  /\ Planned(Rest, DOMAIN files, L) /\ Rest[1].what # "clear"
               /\ Written(d, Rest, files, L, IndexOf(s, v, MakingWith(s)), ConfigOf(s, v))
    <2>1. /\ Planned(Rest, DOMAIN files, L) /\ Rest[1].what # "clear"
          /\ \A w, n : Left(job.todo, w, n) => Left(Rest, w, n) \/ (w = "building" /\ n = This)
          /\ Written(dir[s], job.todo, files, L, IndexOf(s, v, MakingWith(s)), ConfigOf(s, v))
      BY <1>1, <1>2, <1>5, HeadOfPlan
    <2>2. /\ d.manifest.status # "complete" /\ d.files = dir[s].files
          /\ d.index = dir[s].index /\ d.config = dir[s].config
      BY <1>4 DEF Manifest
    <2> HIDE DEF files, L, d
    <2> QED BY <2>1, <2>2 DEF Written
  <1> HIDE DEF d
  <1> QED BY <1>1, <1>2, <1>4, <1>5, Shapes, WriteStep

\* The config that is written is the one the stage is to have.
LEMMA ConfigStep == ASSUME ChainInv, WriteConfig PROVE ChainInv'
  <1> DEFINE s == job.stage
             v == job.variant
             files == FilesOf(s, v, MakingWith(s))
             L == LinksOf(s, v, MakingWith(s))
             new == NewConfig(s, v)
             d == [Stage EXCEPT !.config = new]
  <1>1. /\ Todo("config") /\ dir' = [dir EXCEPT ![s] = d]
        /\ job' = [job EXCEPT !.todo = Rest] /\ UNCHANGED <<base, overlay, globals, chain, stops, suspect>>
    BY DEF WriteConfig, Write, Done
  <1>2. job # NoJob
    BY <1>1, Shapes
  <1>3. s \in Stages /\ v \in Variants(s) /\ Stage = dir[s]
    BY <1>2 DEF ChainInv, ChainShape, Stage
  <1> HIDE DEF new
  <1>4. /\ d = [files |-> dir[s].files, index |-> dir[s].index, config |-> new,
                manifest |-> dir[s].manifest]
        /\ d = [files |-> d.files, index |-> d.index, config |-> d.config, manifest |-> d.manifest]
    <2>1. dir[s] = [files |-> dir[s].files, index |-> dir[s].index, config |-> dir[s].config,
                    manifest |-> dir[s].manifest]
      BY <1>3, Shapes
    <2>2. [dir[s] EXCEPT !.config = new]
            = [files |-> dir[s].files, index |-> dir[s].index, config |-> new,
               manifest |-> dir[s].manifest]
      BY <2>1, StageWith, Zenon
    <2>3. d = [files |-> dir[s].files, index |-> dir[s].index, config |-> new,
               manifest |-> dir[s].manifest]
      BY <1>3, <2>2, Zenon
    <2> HIDE DEF d
    <2> QED BY <2>3
  <1>5. ASSUME ~Doubtful(Parent[s])
        PROVE  /\ Planned(Rest, DOMAIN files, L) /\ Rest[1].what # "clear"
               /\ Written(d, Rest, files, L, IndexOf(s, v, MakingWith(s)), ConfigOf(s, v))
    <2>1. /\ Planned(Rest, DOMAIN files, L) /\ Rest[1].what # "clear"
          /\ \A w, n : Left(job.todo, w, n) => Left(Rest, w, n) \/ (w = "config" /\ n = This)
          /\ Written(dir[s], job.todo, files, L, IndexOf(s, v, MakingWith(s)), ConfigOf(s, v))
      BY <1>1, <1>2, <1>5, HeadOfPlan
    <2>2. /\ d.manifest = dir[s].manifest /\ d.files = dir[s].files
          /\ d.index = dir[s].index /\ d.config = new
      BY <1>4
    <2>3. new = ConfigOf(s, v)
      <3>1. Founded(s)
        BY <1>2, <1>5 DEF ChainInv, BuildOnCourse, Working
      <3> QED BY <1>3, <1>5, <3>1, Matches DEF ChainInv, new
    <2> HIDE DEF files, L, d
    <2> QED BY <2>1, <2>2, <2>3 DEF Written
  <1> HIDE DEF d
  <1> QED BY <1>1, <1>2, <1>4, <1>5, Shapes, WriteStep

\* And so is the index.
LEMMA IndexStep == ASSUME ChainInv, WriteIndex PROVE ChainInv'
  <1> DEFINE s == job.stage
             v == job.variant
             files == FilesOf(s, v, MakingWith(s))
             L == LinksOf(s, v, MakingWith(s))
             new == NewIndex(s, v)
             d == [Stage EXCEPT !.index = new]
  <1>1. /\ Todo("index") /\ dir' = [dir EXCEPT ![s] = d]
        /\ job' = [job EXCEPT !.todo = Rest] /\ UNCHANGED <<base, overlay, globals, chain, stops, suspect>>
    BY DEF WriteIndex, Write, Done
  <1>2. job # NoJob
    BY <1>1, Shapes
  <1>3. s \in Stages /\ v \in Variants(s) /\ Stage = dir[s]
    BY <1>2 DEF ChainInv, ChainShape, Stage
  <1> HIDE DEF new
  <1>4. /\ d = [files |-> dir[s].files, index |-> new, config |-> dir[s].config,
                manifest |-> dir[s].manifest]
        /\ d = [files |-> d.files, index |-> d.index, config |-> d.config, manifest |-> d.manifest]
    <2>1. dir[s] = [files |-> dir[s].files, index |-> dir[s].index, config |-> dir[s].config,
                    manifest |-> dir[s].manifest]
      BY <1>3, Shapes
    <2>2. [dir[s] EXCEPT !.index = new]
            = [files |-> dir[s].files, index |-> new, config |-> dir[s].config,
               manifest |-> dir[s].manifest]
      BY <2>1, StageWith, Zenon
    <2>3. d = [files |-> dir[s].files, index |-> new, config |-> dir[s].config,
               manifest |-> dir[s].manifest]
      BY <1>3, <2>2, Zenon
    <2> HIDE DEF d
    <2> QED BY <2>3
  <1>5. ASSUME ~Doubtful(Parent[s])
        PROVE  /\ Planned(Rest, DOMAIN files, L) /\ Rest[1].what # "clear"
               /\ Written(d, Rest, files, L, IndexOf(s, v, MakingWith(s)), ConfigOf(s, v))
    <2>1. /\ Planned(Rest, DOMAIN files, L) /\ Rest[1].what # "clear"
          /\ \A w, n : Left(job.todo, w, n) => Left(Rest, w, n) \/ (w = "index" /\ n = This)
          /\ Written(dir[s], job.todo, files, L, IndexOf(s, v, MakingWith(s)), ConfigOf(s, v))
      BY <1>1, <1>2, <1>5, HeadOfPlan
    <2>2. /\ d.manifest = dir[s].manifest /\ d.files = dir[s].files
          /\ d.index = new /\ d.config = dir[s].config
      BY <1>4
    <2>3. new = IndexOf(s, v, MakingWith(s))
      <3>1. Founded(s)
        BY <1>2, <1>5 DEF ChainInv, BuildOnCourse, Working
      <3> QED BY <1>3, <1>5, <3>1, Matches DEF ChainInv, new
    <2> HIDE DEF files, L, d
    <2> QED BY <2>1, <2>2, <2>3 DEF Written
  <1> HIDE DEF d
  <1> QED BY <1>1, <1>2, <1>4, <1>5, Shapes, WriteStep

\* What a stage is with one more file.
Added(old, name, file, d) ==
  /\ DOMAIN d.files = {name} \cup DOMAIN old.files
  /\ d.files[name] = file
  /\ \A n \in DOMAIN old.files \ {name} : d.files[n] = old.files[n]
  /\ d.index = old.index /\ d.config = old.config /\ d.manifest = old.manifest
  /\ d = [files |-> d.files, index |-> d.index, config |-> d.config, manifest |-> d.manifest]

\* A file that is put into a stage changes nothing else of it.
LEMMA PutStage ==
  ASSUME ChainInv, job # NoJob, NEW name, NEW file
  PROVE  Added(dir[job.stage], name, file, Put(name, file))
  <1> DEFINE s == job.stage
             new == Over([n \in {name} |-> file], dir[s].files)
             d == Put(name, file)
  <1>1. s \in Stages /\ Stage = dir[s]
    BY DEF ChainInv, ChainShape, Stage
  <1>2. dir[s] = [files |-> dir[s].files, index |-> dir[s].index, config |-> dir[s].config,
                  manifest |-> dir[s].manifest]
    BY <1>1, Shapes
  <1>3. d = [dir[s] EXCEPT !.files = new]
    BY <1>1, Zenon DEF Put
  <1>7. /\ DOMAIN new = {name} \cup DOMAIN dir[s].files /\ new[name] = file
        /\ \A n \in DOMAIN dir[s].files \ {name} : new[n] = dir[s].files[n]
    BY DEF new, Over
  <1> HIDE DEF new, d
  <1>4. [dir[s] EXCEPT !.files = new]
          = [files |-> new, index |-> dir[s].index, config |-> dir[s].config,
             manifest |-> dir[s].manifest]
    BY <1>2, StageWith, Zenon
  <1>5. d = [files |-> new, index |-> dir[s].index, config |-> dir[s].config,
             manifest |-> dir[s].manifest]
    BY <1>3, <1>4, Zenon
  <1>6. /\ d.files = new /\ d.index = dir[s].index /\ d.config = dir[s].config
        /\ d.manifest = dir[s].manifest
        /\ d = [files |-> d.files, index |-> d.index, config |-> d.config, manifest |-> d.manifest]
    BY <1>5
  <1>8. /\ DOMAIN d.files = {name} \cup DOMAIN dir[s].files /\ d.files[name] = file
        /\ \A n \in DOMAIN dir[s].files \ {name} : d.files[n] = dir[s].files[n]
    BY <1>6, <1>7
  <1> QED BY <1>6, <1>8, Zenon DEF Added, d

\* A torn shard is one that is still to be written.
LEMMA OpenStep == ASSUME ChainInv, OpenShard PROVE ChainInv'
  <1> DEFINE s == job.stage
             v == job.variant
             files == FilesOf(s, v, MakingWith(s))
             L == LinksOf(s, v, MakingWith(s))
             torn == File("torn", <<>>)
             d == Put(This, torn)
  <1>1. /\ Todo("shard") /\ dir' = [dir EXCEPT ![s] = d] /\ This \notin DOMAIN dir[s].files
        /\ job' = job /\ UNCHANGED <<base, overlay, globals, chain, stops, suspect>>
    BY DEF OpenShard, Stage
  <1>2. job # NoJob
    BY <1>1, Shapes
  <1>3. Added(dir[s], This, torn, d)
    BY <1>2, PutStage, Zenon
  <1> HIDE DEF d, torn
  <1>4. ASSUME ~Doubtful(Parent[s])
        PROVE  /\ Planned(job.todo, DOMAIN files, L) /\ job.todo[1].what # "clear"
               /\ Written(d, job.todo, files, L, IndexOf(s, v, MakingWith(s)), ConfigOf(s, v))
    <2>1. /\ Left(job.todo, "shard", This) /\ This \in DOMAIN files
          /\ Written(dir[s], job.todo, files, L, IndexOf(s, v, MakingWith(s)), ConfigOf(s, v))
      BY <1>1, <1>2, <1>4, HeadOfPlan
    <2>2. Planned(job.todo, DOMAIN files, L) /\ job.todo[1].what # "clear"
      BY <1>1, <1>2, <1>4 DEF ChainInv, BuildOnCourse, Working, Todo
    <2>3. This \notin L
      BY <2>1 DEF LinksOf
    <2> HIDE DEF files, L
    <2> QED BY <1>3, <2>1, <2>2, <2>3 DEF Written, Added
  <1>5. job' = [job EXCEPT !.todo = job.todo]
    BY <1>1, <1>2 DEF ChainInv, ChainShape
  <1> QED BY <1>1, <1>2, <1>3, <1>4, <1>5, Shapes, WriteStep DEF Added

\* A shard that is filled is off the list.
LEMMA FillStep == ASSUME ChainInv, FillShard PROVE ChainInv'
  <1> DEFINE s == job.stage
             v == job.variant
             files == FilesOf(s, v, MakingWith(s))
             L == LinksOf(s, v, MakingWith(s))
             full == File("whole", NewFiles(s, v)[This])
             d == Put(This, full)
  <1>1. /\ Todo("shard") /\ dir' = [dir EXCEPT ![s] = d]
        /\ job' = [job EXCEPT !.todo = Rest] /\ UNCHANGED <<base, overlay, globals, chain, stops, suspect>>
    BY DEF FillShard, Done
  <1>2. job # NoJob
    BY <1>1, Shapes
  <1>3. Added(dir[s], This, full, d)
    BY <1>2, PutStage, Zenon
  <1> HIDE DEF d, full
  <1>4. ASSUME ~Doubtful(Parent[s])
        PROVE  /\ Planned(Rest, DOMAIN files, L) /\ Rest[1].what # "clear"
               /\ Written(d, Rest, files, L, IndexOf(s, v, MakingWith(s)), ConfigOf(s, v))
    <2>1. /\ Planned(Rest, DOMAIN files, L) /\ Rest[1].what # "clear" /\ This \in DOMAIN files
          /\ \A w, n : Left(job.todo, w, n) => Left(Rest, w, n) \/ (w = "shard" /\ n = This)
          /\ Written(dir[s], job.todo, files, L, IndexOf(s, v, MakingWith(s)), ConfigOf(s, v))
      BY <1>1, <1>2, <1>4, HeadOfPlan
    <2>2. full = File("whole", files[This])
      <3>1. s \in Stages /\ v \in Variants(s) /\ Founded(s)
        BY <1>2, <1>4 DEF ChainInv, ChainShape, BuildOnCourse, Working
      <3> QED BY <1>4, <3>1, Matches DEF ChainInv, full
    <2>3. This \notin L
      BY <2>1 DEF LinksOf
    <2> HIDE DEF files, L
    <2> QED BY <1>3, <2>1, <2>2, <2>3 DEF Written, Added
  <1> QED BY <1>1, <1>2, <1>3, <1>4, Shapes, WriteStep DEF Added

\* And so is a link that is made.
LEMMA LinkStep == ASSUME ChainInv, WriteLink PROVE ChainInv'
  <1> DEFINE s == job.stage
             v == job.variant
             files == FilesOf(s, v, MakingWith(s))
             L == LinksOf(s, v, MakingWith(s))
             d == Put(This, Link)
  <1>1. /\ Todo("link") /\ dir' = [dir EXCEPT ![s] = d]
        /\ job' = [job EXCEPT !.todo = Rest] /\ UNCHANGED <<base, overlay, globals, chain, stops, suspect>>
    BY DEF WriteLink, Write, Done
  <1>2. job # NoJob
    BY <1>1, Shapes
  <1>3. Added(dir[s], This, Link, d)
    BY <1>2, PutStage, Zenon
  <1> HIDE DEF d
  <1>4. ASSUME ~Doubtful(Parent[s])
        PROVE  /\ Planned(Rest, DOMAIN files, L) /\ Rest[1].what # "clear"
               /\ Written(d, Rest, files, L, IndexOf(s, v, MakingWith(s)), ConfigOf(s, v))
    <2>1. /\ Planned(Rest, DOMAIN files, L) /\ Rest[1].what # "clear" /\ This \in L
          /\ \A w, n : Left(job.todo, w, n) => Left(Rest, w, n) \/ (w = "link" /\ n = This)
          /\ Written(dir[s], job.todo, files, L, IndexOf(s, v, MakingWith(s)), ConfigOf(s, v))
      BY <1>1, <1>2, <1>4, HeadOfPlan
    <2>2. This \notin DOMAIN files
      BY <2>1 DEF LinksOf
    <2> HIDE DEF files, L
    <2> QED BY <1>3, <2>1, <2>2 DEF Written, Added
  <1> QED BY <1>1, <1>2, <1>3, <1>4, Shapes, WriteStep DEF Added

\* The manifest is written when nothing else is left.
LEMMA CompleteStep == ASSUME ChainInv, WriteComplete PROVE ChainInv'
  <1> SUFFICES ASSUME NEW s, NEW v, s = job.stage, v = job.variant
               PROVE  ChainInv'
    OBVIOUS
  <1> DEFINE files == FilesOf(s, v, MakingWith(s))
             L == LinksOf(s, v, MakingWith(s))
             d == [dir[s] EXCEPT !.manifest = Manifest("complete")]
  <1>1. /\ Todo("complete") /\ dir' = [dir EXCEPT ![s] = d] /\ job' = NoJob
        /\ chain' = IF chain = "off" THEN "off" ELSE After(chain)
        /\ UNCHANGED <<overlay, suspect>>
    BY DEF WriteComplete
  <1>2. job # NoJob /\ job.todo # <<>> /\ job.todo[1].what = "complete"
    BY <1>1, Shapes DEF Todo
  <1>3. s \in Stages /\ v \in Variants(s) /\ DOMAIN dir = Stages
    BY <1>2 DEF ChainInv, ChainShape
  <1>4. /\ d.files = dir[s].files /\ d.index = dir[s].index /\ d.config = dir[s].config
        /\ d.manifest = Manifest("complete")
        /\ d = [files |-> d.files, index |-> d.index, config |-> d.config, manifest |-> d.manifest]
    <2> DEFINE m == Manifest("complete")
    <2>1. dir[s] = [files |-> dir[s].files, index |-> dir[s].index, config |-> dir[s].config,
                    manifest |-> dir[s].manifest]
      BY <1>3, Shapes
    <2> HIDE DEF m
    <2>2. [dir[s] EXCEPT !.manifest = m]
            = [files |-> dir[s].files, index |-> dir[s].index, config |-> dir[s].config,
               manifest |-> m]
      BY <2>1, StageWith, Zenon
    <2>3. d = [files |-> dir[s].files, index |-> dir[s].index, config |-> dir[s].config,
               manifest |-> m]
      BY <2>2, Zenon DEF m
    <2> HIDE DEF d
    <2>4. d.manifest = m
      BY <2>3
    <2> QED BY <2>3, <2>4 DEF m
  <1> HIDE DEF d
  <1>5. dir'[s] = d /\ (\A t \in Stages \ {s} : dir'[t] = dir[t]) /\ DOMAIN dir' = Stages
    BY <1>1, <1>3
  <1>6. ChainShape'
    <2>1. chain' \in ToSet(Chain) \cup {"off"}
      BY <1>1, StagesAre DEF ChainInv, ChainShape, After, Chain
    <2>2. dir' = [t \in Stages |-> [files |-> dir'[t].files, index |-> dir'[t].index,
                              config |-> dir'[t].config, manifest |-> dir'[t].manifest]]
      <3>1. dir = [t \in Stages |-> [files |-> dir[t].files, index |-> dir[t].index,
                              config |-> dir[t].config, manifest |-> dir[t].manifest]]
        BY DEF ChainInv, ChainShape
      <3>2. \A t \in Stages : dir[t] = [files |-> dir[t].files, index |-> dir[t].index,
                              config |-> dir[t].config, manifest |-> dir[t].manifest]
        BY <3>1
      <3>3. \A t \in Stages : dir'[t] = [files |-> dir'[t].files, index |-> dir'[t].index,
                              config |-> dir'[t].config, manifest |-> dir'[t].manifest]
        BY <1>4, <1>5, <3>2
      <3>4. dir' = [t \in Stages |-> dir'[t]]
        BY <1>1, <1>5
      <3> QED BY <3>3, <3>4
    <2> QED BY <1>1, <2>1, <2>2 DEF ChainInv, ChainShape
  <1>7. s \in Stages \ suspect => Whole(s)'
    <2> HAVE s \in Stages \ suspect
    <2>0. ~Doubtful(Parent[s])
      BY <1>1, Shapes
    <2>1. /\ Founded(s) /\ Planned(job.todo, DOMAIN files, L)
          /\ Written(dir[s], job.todo, files, L, IndexOf(s, v, MakingWith(s)), ConfigOf(s, v))
      BY <1>2, <2>0 DEF ChainInv, BuildOnCourse, Working
    <2>2. \A w, n : Left(job.todo, w, n) => w = "complete"
      <3> HIDE DEF files, L
      <3>1. Len(job.todo) = 1
        <4>1. /\ Len(job.todo) \in Nat /\ Len(job.todo) > 0
              /\ \A i \in 1..Len(job.todo) : job.todo[i].what = "complete" <=> i = Len(job.todo)
          BY <2>1, LenProperties DEF Planned
        <4> DEFINE m == Len(job.todo)
        <4>2. m \in Nat /\ m > 0 /\ \A i \in 1..m : job.todo[i].what = "complete" <=> i = m
          BY <4>1
        <4> HIDE DEF m
        <4>3. 1 \in 1..m
          BY <4>2
        <4>4. job.todo[1].what = "complete" <=> 1 = m
          BY <4>2, <4>3
        <4> QED BY <1>2, <4>4 DEF m
      <3> QED BY <1>2, <3>1 DEF Left
    <2>3. /\ DOMAIN dir[s].files \subseteq DOMAIN files \cup L
          /\ \A n \in DOMAIN files : n \in DOMAIN dir[s].files /\ dir[s].files[n] = File("whole", files[n])
          /\ \A n \in L : n \in DOMAIN dir[s].files /\ dir[s].files[n] = Link
          /\ dir[s].config = ConfigOf(s, v) /\ dir[s].index = IndexOf(s, v, MakingWith(s))
      <3> HIDE DEF files, L
      <3> QED BY <2>1, <2>2 DEF Written
    <2>4. /\ d.manifest.variant = v /\ d.manifest.status = "complete"
          /\ d.manifest.overlay = IF s \in SourceStages THEN overlay ELSE "none"
      BY <1>4 DEF Manifest, SourceStages
    <2>5. s \in SourceStages => overlay \in Revisions
      BY <1>3, <2>1, StagesAre DEF Founded, SourceStages
    <2>6. MadeWith(s)' = MakingWith(s)
      BY <1>5, <2>4 DEF MadeWith, MakingWith
    <2>7. DOMAIN dir[s].files = DOMAIN files \cup L
      BY <2>3
    <2> QED BY <1>3, <1>4, <1>5, <2>3, <2>4, <2>5, <2>6, <2>7 DEF Whole, MakingWith
  <1>8. CompleteIsWhole'
    BY <1>1, <1>5, <1>7, CompleteStays DEF ChainInv
  <1>9. BuildOnCourse' /\ DoubtIsMarked'
    BY <1>1 DEF BuildOnCourse, DoubtIsMarked
  <1> QED BY <1>6, <1>8, <1>9 DEF ChainInv

\* A build starts when the stage before it has been made.
LEMMA JobStep ==
  ASSUME ChainInv, NEW s \in Stages, NEW v \in Variants(s), Accepted(s, v), job' = Job(s, v),
         UNCHANGED <<overlay, dir, chain, suspect>>
  PROVE  ChainInv'
  <1>1. ChainShape'
    <2>1. job' = [stage |-> job'.stage, variant |-> job'.variant, todo |-> job'.todo]
          /\ job'.stage = s /\ job'.variant = v
      BY DEF Job
    <2> QED BY <2>1 DEF ChainInv, ChainShape, Variants
  <1>2. CompleteIsWhole'
    BY WholeStays DEF ChainInv, CompleteIsWhole
  <1>3. BuildOnCourse'
    <2>1. job'.stage = s /\ job'.variant = v /\ job'.todo = Writes(s, v)
      BY DEF Job
    <2> SUFFICES ASSUME ~Doubtful(Parent[s])
                 PROVE  Working(s, v, Writes(s, v))
      BY <2>1 DEF BuildOnCourse, Doubtful, Working, Founded, Complete, Index, MakingWith
    <2>2. Founded(s)
      <3>1. s \in {"bf16", "h3", "h4", "h5", "h6"}
        BY StagesAre
      <3> QED BY <3>1 DEF ChainInv, ChainShape, Accepted, Bf16Accepted, H3Accepted, H4Accepted,
                          H5Accepted, H6Accepted, Sources, Founded, SourceStages, Wanted
    <2> DEFINE F == DOMAIN FilesOf(s, v, MakingWith(s))
               L == LinksOf(s, v, MakingWith(s))
    <2>3. F = DOMAIN NewFiles(s, v) /\ L = Names(Parent[s]) \ DOMAIN NewFiles(s, v)
      BY <2>2, Matches DEF ChainInv
    <2> HIDE DEF F, L
    <2>4. /\ Planned(Writes(s, v), F, L)
          /\ Writes(s, v)[1].what = "clear"
          /\ AllLeft(Writes(s, v), F, L)
      BY <2>3, WritesPlanned, Zenon
    <2> QED BY <2>2, <2>4 DEF Working, F, L
  <1>4. DoubtIsMarked'
    <2>1. Writes(s, v)[1].what = "clear"
      BY WritesPlanned, Zenon
    <2>2. job'.todo = Writes(s, v)
      BY DEF Job
    <2> QED BY <2>1, <2>2 DEF DoubtIsMarked
  <1> QED BY <1>1, <1>2, <1>3, <1>4 DEF ChainInv

\* Without a build the invariant is only about the stages that are there.
LEMMA IdleStep ==
  ASSUME ChainInv, job' = NoJob, dir' = dir, suspect' = suspect,
         overlay' \in Revisions \cup {"none"}, chain' \in ToSet(Chain) \cup {"off"}
  PROVE  ChainInv'
  <1>1. ChainShape'
    BY DEF ChainInv, ChainShape
  <1>2. CompleteIsWhole'
    BY WholeStays DEF ChainInv, CompleteIsWhole
  <1>3. BuildOnCourse' /\ DoubtIsMarked'
    BY DEF BuildOnCourse, DoubtIsMarked
  <1> QED BY <1>1, <1>2, <1>3 DEF ChainInv

\* The script reuses a stage, builds it, or ends.
LEMMA ChainStageStep == ASSUME ChainInv, ChainStage PROVE ChainInv'
  <1>1. /\ job = NoJob /\ chain \in ToSet(Chain) /\ chain \in Stages
        /\ overlay \in Revisions \cup {"none"} /\ UNCHANGED <<overlay, dir, suspect>>
    BY StagesAre DEF ChainInv, ChainShape, ChainStage
  <1>2. CASE Valid(chain) /\ chain' = After(chain) /\ UNCHANGED job
    <2>1. chain' \in ToSet(Chain) \cup {"off"}
      BY <1>1, <1>2, StagesAre DEF After, Chain
    <2> QED BY <1>1, <1>2, <2>1, IdleStep
  <1>3. CASE /\ Accepted(chain, Wanted[chain])
             /\ job' = Job(chain, Wanted[chain]) /\ UNCHANGED chain
    BY <1>1, <1>3, StagesAre, JobStep
  <1>4. CASE chain' = "off" /\ UNCHANGED job
    BY <1>1, <1>4, IdleStep
  <1> QED BY <1>2, <1>3, <1>4 DEF ChainStage

\* A stage that the operator removes is not complete.
LEMMA RemoveStep ==
  ASSUME ChainInv, NEW s \in Stages, RemoveStage(s)
  PROVE  ChainInv'
  <1>1. /\ job' = NoJob /\ dir' = [dir EXCEPT ![s] = Empty] /\ UNCHANGED <<overlay, chain>>
        /\ suspect' = suspect \ {s} /\ suspect \subseteq Stages /\ DOMAIN dir = Stages
    BY DEF RemoveStage, Idle, ChainInv, ChainShape
  <1>2. Empty = [files |-> Empty.files, index |-> Empty.index, config |-> Empty.config,
                 manifest |-> Empty.manifest] /\ Empty.manifest.status # "complete"
    BY DEF Empty
  <1>3. dir'[s] = Empty /\ (\A t \in Stages \ {s} : dir'[t] = dir[t]) /\ DOMAIN dir' = Stages
    BY <1>1
  <1>4. ChainShape'
    <2>1. dir' = [t \in Stages |-> [files |-> dir'[t].files, index |-> dir'[t].index,
                              config |-> dir'[t].config, manifest |-> dir'[t].manifest]]
      BY <1>1, <1>2, <1>3 DEF ChainInv, ChainShape
    <2> QED BY <1>1, <2>1 DEF ChainInv, ChainShape
  <1>5. CompleteIsWhole'
    BY <1>1, <1>2, <1>3, CompleteStays DEF ChainInv
  <1>6. BuildOnCourse' /\ DoubtIsMarked'
    BY <1>1 DEF BuildOnCourse, DoubtIsMarked
  <1> QED BY <1>4, <1>5, <1>6 DEF ChainInv

\* What a stage that is being emptied has left has the shape of one.
LEMMA PartlyShape ==
  ASSUME NEW left \in Partly
  PROVE  left = [files |-> left.files, index |-> left.index, config |-> left.config,
                 manifest |-> left.manifest]
  <1>1. PICK f, i, c, m : left = [files |-> f, index |-> i, config |-> c, manifest |-> m]
    BY Zenon DEF Partly
  <1> QED BY <1>1

\* A build that fails leaves its stage as it is, or half emptied and suspect.
LEMMA StopStep == ASSUME ChainInv, Stop PROVE ChainInv'
  <1> DEFINE s == job.stage
  <1>1. PICK left \in IF Todo("clear") THEN Partly ELSE {Stage} :
          /\ dir' = [dir EXCEPT ![s] = left]
          /\ suspect' = suspect \cup (IF left = Stage THEN {} ELSE {s})
    BY DEF Stop
  <1>2. job # NoJob /\ job' = NoJob /\ chain' = "off" /\ UNCHANGED overlay
    BY DEF Stop
  <1>3. s \in Stages /\ DOMAIN dir = Stages /\ Stage = dir[s]
    BY <1>2 DEF ChainInv, ChainShape, Stage
  <1>4. CASE left = Stage
    <2>1. dir' = dir /\ suspect' = suspect
      <3>1. dir' = [dir EXCEPT ![s] = dir[s]]
        BY <1>1, <1>3, <1>4
      <3> QED BY <1>1, <1>4, <3>1 DEF ChainInv, ChainShape
    <2> QED BY <1>2, <2>1, IdleStep DEF ChainInv, ChainShape
  <1>5. CASE left # Stage
    <2>1. left \in Partly /\ s \in suspect' /\ suspect' = suspect \cup {s}
      BY <1>1, <1>5
    <2>2. left = [files |-> left.files, index |-> left.index, config |-> left.config,
                  manifest |-> left.manifest]
      BY <2>1, PartlyShape
    <2>3. dir'[s] = left /\ (\A t \in Stages \ {s} : dir'[t] = dir[t]) /\ DOMAIN dir' = Stages
      BY <1>1, <1>3
    <2>4. ChainShape'
      <3>1. dir' = [t \in Stages |-> [files |-> dir'[t].files, index |-> dir'[t].index,
                                config |-> dir'[t].config, manifest |-> dir'[t].manifest]]
        BY <1>1, <2>2, <2>3 DEF ChainInv, ChainShape
      <3> QED BY <1>2, <1>3, <2>1, <3>1 DEF ChainInv, ChainShape
    <2>5. CompleteIsWhole'
      BY <2>1, <2>3, CompleteStays DEF ChainInv
    <2>6. BuildOnCourse' /\ DoubtIsMarked'
      BY <1>2 DEF BuildOnCourse, DoubtIsMarked
    <2> QED BY <2>4, <2>5, <2>6 DEF ChainInv
  <1> QED BY <1>4, <1>5

\* At first no stage is there.
LEMMA ChainStarts == Init => ChainInv
  <1> SUFFICES ASSUME Init PROVE ChainInv
    OBVIOUS
  <1>1. \A s \in Stages : dir[s] = Empty
    BY DEF Init
  <1>2. Empty = [files |-> Empty.files, index |-> Empty.index, config |-> Empty.config,
                 manifest |-> Empty.manifest] /\ Empty.manifest.status # "complete"
    BY DEF Empty
  <1>3. ChainShape
    BY <1>1, <1>2 DEF Init, ChainShape
  <1>4. CompleteIsWhole
    BY <1>1, <1>2 DEF CompleteIsWhole
  <1>5. BuildOnCourse /\ DoubtIsMarked
    BY DEF Init, BuildOnCourse, DoubtIsMarked
  <1> QED BY <1>3, <1>4, <1>5 DEF ChainInv

\* Every step keeps the invariant.
LEMMA ChainInductive == ChainInv /\ [Next]_vars => ChainInv'
  <1> SUFFICES ASSUME ChainInv, [Next]_vars
               PROVE  ChainInv'
    OBVIOUS
  <1>1. ASSUME NEW s \in Stages, NEW force \in BOOLEAN, NEW v \in Variants(s),
               StartTool(s, v, force)
        PROVE  ChainInv'
    BY <1>1, JobStep DEF StartTool
  <1>2. CASE StartChain
    <2>1. job' = NoJob /\ UNCHANGED <<dir, overlay, suspect>> /\ chain' = "h3"
      BY <1>2 DEF StartChain, Idle
    <2> QED BY <2>1, StagesAre, IdleStep DEF ChainInv, ChainShape
  <1>3. CASE ChainStage
    BY <1>3, ChainStageStep
  <1>4. CASE Build
    BY <1>4, ClearStep, BuildingStep, OpenStep, FillStep, LinkStep, ConfigStep, IndexStep,
       CompleteStep DEF Build
  <1>5. CASE Stop
    BY <1>5, StopStep
  <1>6. ASSUME NEW s \in Stages, RemoveStage(s)
        PROVE  ChainInv'
    BY <1>6, RemoveStep
  <1>7. CASE ChangeSources
    <2>1. /\ job' = NoJob /\ UNCHANGED <<dir, suspect>>
          /\ chain' = "off" /\ overlay' \in Revisions \cup {"none"}
      BY <1>7 DEF ChangeSources, Idle, ChainInv, ChainShape
    <2> QED BY <2>1, IdleStep
  <1>8. CASE UNCHANGED vars
    <2>1. ChainShape'
      BY <1>8 DEF ChainInv, ChainShape, vars
    <2>2. CompleteIsWhole'
      BY <1>8, WholeStays DEF ChainInv, CompleteIsWhole, vars
    <2>3. BuildOnCourse'
      BY <1>8 DEF ChainInv, BuildOnCourse, Doubtful, Working, Founded, Complete, Index,
                  MakingWith, vars
    <2>4. DoubtIsMarked'
      BY <1>8 DEF ChainInv, DoubtIsMarked, Doubtful, vars
    <2> QED BY <2>1, <2>2, <2>3, <2>4 DEF ChainInv
  <1> QED BY <1>1, <1>2, <1>3, <1>4, <1>5, <1>6, <1>7, <1>8 DEF Next, Tool
-----------------------------------------------------------------------------
(* What a whole stage holds.                                                 *)

\* Keys are pairs, and the kinds of keys do not overlap.
LEMMA KeysApart ==
  /\ Weight(Group0) \cap Scale(Group0) = {}
  /\ BaseKeys \ (BaseExpert \cup Scale(Group0)) = Weight(Group0) \cup Others
  /\ Weight(Group0) \cap Others = {} /\ Scale(Group0) \cap Others = {}
  /\ OverlayExpert \cap (Weight(Group0) \cup Scale(Group0) \cup Others) = {}
  /\ InputScales \subseteq OverlayExpert
  /\ \A g \in Group0 : <<g, "scale">> \in Scale(Group0)
  /\ <<"down", "weight">> \in OverlayExpert /\ <<"down", "weight">> \notin BaseKeys
  <1>1. /\ Group0 \cap Experts = {} /\ "mtp" \notin Group0 /\ "rest" \notin Group0
        /\ Experts = {"down", "gate", "up"}
    BY ChainAssumption DEF Experts
  <1>2. Weight(Group0) \cap Scale(Group0) = {}
    BY DEF Weight, Scale
  <1>3. Weight(Group0) \cap Others = {} /\ Scale(Group0) \cap Others = {}
    BY <1>1 DEF Weight, Scale, Others
  <1>4. BaseExpert \cap (Weight(Group0) \cup Others) = {}
    BY <1>1 DEF BaseExpert, Weight, Others
  <1>5. OverlayExpert \cap (Weight(Group0) \cup Scale(Group0) \cup Others) = {}
    BY <1>1 DEF OverlayExpert, Weight, Scale, Others
  <1>6. InputScales \subseteq OverlayExpert
    BY DEF InputScales, OverlayExpert
  <1>7. \A g \in Group0 : <<g, "scale">> \in Scale(Group0)
    BY DEF Scale
  <1>8. <<"down", "weight">> \in OverlayExpert /\ <<"down", "weight">> \notin BaseExpert
    BY DEF OverlayExpert, BaseExpert, Experts
  <1>9. BaseKeys \ (BaseExpert \cup Scale(Group0)) = Weight(Group0) \cup Others
    BY <1>2, <1>3, <1>4 DEF BaseKeys
  <1>10. <<"down", "weight">> \notin BaseKeys
    BY <1>5, <1>8 DEF BaseKeys
  <1> QED BY <1>2, <1>3, <1>5, <1>6, <1>7, <1>8, <1>9, <1>10

\* The index finds a tensor in a file that has it.
LEMMA PlacedWhereItIs ==
  ASSUME NEW files
  PROVE  /\ DOMAIN Placed(files) = UNION {DOMAIN files[n] : n \in DOMAIN files}
         /\ \A k \in DOMAIN Placed(files) :
              Placed(files)[k] \in DOMAIN files /\ k \in DOMAIN files[Placed(files)[k]]
  BY DEF Placed

\* One index or one set of files laid over another.
LEMMA OverIs ==
  ASSUME NEW f, NEW g
  PROVE  /\ DOMAIN Over(f, g) = DOMAIN f \cup DOMAIN g
         /\ \A x \in DOMAIN f : Over(f, g)[x] = f[x]
         /\ \A x \in DOMAIN g \ DOMAIN f : Over(f, g)[x] = g[x]
  BY DEF Over

\* A rewritten shard of the base, or the shard that a link leads to.
BaseHolds(r, M, removed, n) ==
  IF n \in DOMAIN RewritesOf(r, M, removed) THEN RewritesOf(r, M, removed)[n] ELSE BaseFile(n)

\* Whatever shard of the base a tensor is in, it is found there, and the modules
\* M are found as the overlay has them.
LEMMA BaseHeld ==
  ASSUME NEW r, NEW M \in SUBSET Group0, NEW removed,
         NEW k \in BaseKeys \ (Scale(M) \cup removed)
  PROVE  LET n == Name("", BaseShard[k])
         IN /\ n \in BaseNames
            /\ k \in DOMAIN BaseHolds(r, M, removed, n)
            /\ BaseHolds(r, M, removed, n)[k]
                 = IF k \in Weight(M) THEN From(r, k) ELSE From("base", k)
  <1> DEFINE b == BaseShard[k]
             n == Name("", b)
             dropped == Scale(M) \cup removed
             named == {Name("", s) : s \in Holding(Weight(M) \cup Scale(M) \cup removed, BaseShard)}
  <1>1. b \in Shards /\ n \in BaseNames
    BY ChainAssumption DEF BaseNames
  <1>2. n[2] = b /\ k \in KeysIn(b)
    BY DEF Name, KeysIn
  <1>3. k \in Weight(M) => n \in named
    BY DEF Holding
  <1>4. DOMAIN RewritesOf(r, M, removed) = named
    BY DEF RewritesOf
  <1>5. n \in named =>
          RewritesOf(r, M, removed)[n]
            = [x \in KeysIn(b) \ dropped |-> IF x \in Weight(M) THEN From(r, x) ELSE From("base", x)]
    BY <1>2 DEF RewritesOf
  <1>6. BaseFile(n) = [x \in KeysIn(b) |-> From("base", x)]
    BY <1>2 DEF BaseFile
  <1>7. k \notin dropped
    OBVIOUS
  <1> DEFINE holds == BaseHolds(r, M, removed, n)
             mine == IF k \in Weight(M) THEN From(r, k) ELSE From("base", k)
  <1>10. /\ n \in named => holds = RewritesOf(r, M, removed)[n]
         /\ n \notin named => holds = BaseFile(n)
    BY <1>4 DEF BaseHolds
  <1> HIDE DEF n, b, named, dropped, holds
  <1>8. ASSUME n \in named
        PROVE  k \in DOMAIN holds /\ holds[k] = mine
    BY <1>2, <1>5, <1>7, <1>8, <1>10
  <1>9. ASSUME n \notin named
        PROVE  k \in DOMAIN holds /\ holds[k] = mine
    BY <1>2, <1>3, <1>6, <1>9, <1>10
  <1> QED BY <1>1, <1>8, <1>9, Zenon DEF n, b, holds

(* BF16: the residual modules, or all of the group, are the overlay's. *)
ExpectedBF(v, r) ==
  Over([k \in Weight(Modules(v)) |-> From(r, k)], BaseTensors(BaseKeys \ Scale(Modules(v))))

\* BF16 holds what is expected of it.
LEMMA BFRight ==
  ASSUME NEW v, NEW r
  PROVE  /\ DOMAIN IndexBF(v) = DOMAIN ExpectedBF(v, r)
         /\ DOMAIN IndexBF(v) = BaseKeys \ Scale(Modules(v))
         /\ \A k \in DOMAIN IndexBF(v) :
              /\ IndexBF(v)[k] \in BaseNames
              /\ k \in DOMAIN BaseHolds(r, Modules(v), {}, IndexBF(v)[k])
              /\ BaseHolds(r, Modules(v), {}, IndexBF(v)[k])[k] = ExpectedBF(v, r)[k]
  <1> DEFINE M == Modules(v)
  <1>1. M \in SUBSET Group0
    BY ChainAssumption DEF Modules
  <1>2. Weight(M) \subseteq BaseKeys \ Scale(M)
    <2>1. Weight(M) \subseteq Weight(Group0) /\ Scale(M) \subseteq Scale(Group0)
      BY <1>1 DEF Weight, Scale
    <2> QED BY <2>1, KeysApart DEF BaseKeys
  <1>3. /\ DOMAIN IndexBF(v) = BaseKeys \ Scale(M)
        /\ \A k \in BaseKeys \ Scale(M) : IndexBF(v)[k] = Name("", BaseShard[k])
    BY DEF IndexBF, Without, Restrict, BaseIndex
  <1>4. /\ DOMAIN ExpectedBF(v, r) = Weight(M) \cup (BaseKeys \ Scale(M))
        /\ \A k \in BaseKeys \ Scale(M) :
             ExpectedBF(v, r)[k] = IF k \in Weight(M) THEN From(r, k) ELSE From("base", k)
    BY DEF ExpectedBF, Over, BaseTensors
  <1> HIDE DEF M
  <1>5. ASSUME NEW k \in BaseKeys \ Scale(M)
        PROVE  /\ Name("", BaseShard[k]) \in BaseNames
               /\ k \in DOMAIN BaseHolds(r, M, {}, Name("", BaseShard[k]))
               /\ BaseHolds(r, M, {}, Name("", BaseShard[k]))[k]
                    = IF k \in Weight(M) THEN From(r, k) ELSE From("base", k)
    <2>1. k \in BaseKeys \ (Scale(M) \cup {})
      OBVIOUS
    <2> QED BY <1>1, <2>1, BaseHeld, Zenon
  <1>6. \A k \in BaseKeys \ Scale(M) :
          /\ IndexBF(v)[k] \in BaseNames
          /\ k \in DOMAIN BaseHolds(r, M, {}, IndexBF(v)[k])
          /\ BaseHolds(r, M, {}, IndexBF(v)[k])[k] = ExpectedBF(v, r)[k]
    BY <1>3, <1>4, <1>5
  <1>7. DOMAIN ExpectedBF(v, r) = BaseKeys \ Scale(M)
    BY <1>2, <1>4
  <1> QED BY <1>3, <1>6, <1>7 DEF M

(* H3: the group and the experts of the overlay. *)
OfModelOpt == OverlayExpert \cup Weight(Group0) \cup Others
ExpectedH3 == Over(ExpertsOfH3, Over(BaseTensors(Others), GroupTensors))
FilesH3 == Over(RewritesOf(Pinned, Group0, BaseExpert), ExtractsOf(Pinned))
HoldsH3(n) == IF n \in DOMAIN FilesH3 THEN FilesH3[n] ELSE BaseFile(n)

\* H3 holds what is expected of it.
LEMMA H3Right ==
  /\ DOMAIN ExpectedH3 = OfModelOpt
  /\ DOMAIN IndexH3(Pinned) = OfModelOpt
  /\ \A k \in OfModelOpt :
       /\ IndexH3(Pinned)[k] \in NamesH3
       /\ IndexH3(Pinned)[k][1] \in {"", "expert"}
       /\ k \in DOMAIN HoldsH3(IndexH3(Pinned)[k])
       /\ HoldsH3(IndexH3(Pinned)[k])[k] = ExpectedH3[k]
  <1> DEFINE R == RewritesOf(Pinned, Group0, BaseExpert)
             X == ExtractsOf(Pinned)
             shard == OverlayShard[Pinned]
  <1>1. /\ DOMAIN X = {Name("expert", s) : s \in Holding(OverlayExpert, shard)}
        /\ \A n \in DOMAIN X :
             /\ X[n] = [k \in {e \in OverlayExpert : shard[e] = n[2]} |-> From(Pinned, k)]
             /\ n[1] = "expert"
    BY DEF ExtractsOf, Name
  <1>2. \A n \in DOMAIN R \cup BaseNames : n[1] = ""
    <2>1. \A s : Name("", s)[1] = ""
      BY DEF Name
    <2>2. DOMAIN R = {Name("", s) : s \in Holding(Weight(Group0) \cup Scale(Group0) \cup BaseExpert,
                                                  BaseShard)}
      BY DEF RewritesOf
    <2> HIDE DEF R
    <2> QED BY <2>1, <2>2 DEF BaseNames
  <1>0. /\ OverlayExpert \cap (Weight(Group0) \cup Others) = {}
        /\ Weight(Group0) \cap Others = {}
    BY KeysApart
  <1>3. UNION {DOMAIN X[n] : n \in DOMAIN X} = OverlayExpert
    <2>1. ASSUME NEW n \in DOMAIN X
          PROVE  DOMAIN X[n] \subseteq OverlayExpert
      BY <1>1
    <2>2. ASSUME NEW k \in OverlayExpert
          PROVE  \E n \in DOMAIN X : k \in DOMAIN X[n]
      <3> DEFINE n == Name("expert", shard[k])
      <3>1. n \in DOMAIN X /\ n[2] = shard[k]
        BY <1>1 DEF Holding, Name
      <3> HIDE DEF n, X, shard
      <3> QED BY <1>1, <3>1
    <2> HIDE DEF X
    <2> QED BY <2>1, <2>2
  <1> HIDE DEF R, X, shard
  <1>4. /\ DOMAIN Placed(X) = OverlayExpert
        /\ \A k \in OverlayExpert : Placed(X)[k] \in DOMAIN X /\ k \in DOMAIN X[Placed(X)[k]]
    BY <1>3, PlacedWhereItIs
  <1> DEFINE rest == Without(BaseIndex, BaseExpert \cup Scale(Group0))
  <1>5. /\ DOMAIN rest = Weight(Group0) \cup Others
        /\ \A k \in Weight(Group0) \cup Others : rest[k] = Name("", BaseShard[k])
    <2>1. BaseKeys \ (BaseExpert \cup Scale(Group0)) = Weight(Group0) \cup Others
      BY KeysApart
    <2>2. /\ DOMAIN rest = BaseKeys \ (BaseExpert \cup Scale(Group0))
          /\ \A k \in BaseKeys \ (BaseExpert \cup Scale(Group0)) : rest[k] = Name("", BaseShard[k])
      BY DEF Without, Restrict, BaseIndex
    <2> QED BY <2>1, <2>2
  <1> HIDE DEF rest
  <1>6. IndexH3(Pinned) = Over(Placed(X), rest)
    BY Zenon DEF IndexH3, X, rest
  <1>7. /\ DOMAIN IndexH3(Pinned) = OfModelOpt
        /\ \A k \in OverlayExpert : IndexH3(Pinned)[k] = Placed(X)[k]
        /\ \A k \in Weight(Group0) \cup Others : IndexH3(Pinned)[k] = Name("", BaseShard[k])
    <2>1. /\ DOMAIN Over(Placed(X), rest) = DOMAIN Placed(X) \cup DOMAIN rest
          /\ \A x \in DOMAIN Placed(X) : Over(Placed(X), rest)[x] = Placed(X)[x]
          /\ \A x \in DOMAIN rest \ DOMAIN Placed(X) : Over(Placed(X), rest)[x] = rest[x]
      BY OverIs, Zenon
    <2> QED BY <1>0, <1>4, <1>5, <1>6, <2>1 DEF OfModelOpt
  <1>8. /\ DOMAIN FilesH3 = DOMAIN R \cup DOMAIN X
        /\ \A n \in DOMAIN R : FilesH3[n] = R[n]
        /\ \A n \in DOMAIN X : FilesH3[n] = X[n]
    <2>1. DOMAIN R \cap DOMAIN X = {}
      BY <1>1, <1>2
    <2>2. FilesH3 = Over(R, X)
      BY DEF FilesH3, R, X
    <2>3. /\ DOMAIN Over(R, X) = DOMAIN R \cup DOMAIN X
          /\ \A n \in DOMAIN R : Over(R, X)[n] = R[n]
          /\ \A n \in DOMAIN X \ DOMAIN R : Over(R, X)[n] = X[n]
      BY OverIs, Zenon
    <2> QED BY <2>1, <2>2, <2>3
  <1>9. NamesH3 = BaseNames \cup DOMAIN R \cup DOMAIN X
    <2>1. FilesOf("h3", Wanted.h3, Pinned) = FilesH3
      BY DEF FilesOf, FilesH3
    <2> QED BY <1>8, <2>1 DEF NamesH3
  <1>10. /\ DOMAIN ExpectedH3 = OfModelOpt
         /\ \A k \in OverlayExpert : ExpectedH3[k] = From(Pinned, k)
         /\ \A k \in Others : ExpectedH3[k] = From("base", k)
         /\ \A k \in Weight(Group0) : ExpectedH3[k] = From(Pinned, k)
    <2>1. /\ DOMAIN ExpertsOfH3 = OverlayExpert
          /\ \A k \in OverlayExpert : ExpertsOfH3[k] = From(Pinned, k)
      BY DEF ExpertsOfH3
    <2>2. /\ DOMAIN BaseTensors(Others) = Others
          /\ \A k \in Others : BaseTensors(Others)[k] = From("base", k)
      BY DEF BaseTensors
    <2>3. /\ DOMAIN GroupTensors = Weight(Group0)
          /\ \A k \in Weight(Group0) : GroupTensors[k] = From(Pinned, k)
      BY DEF GroupTensors
    <2> DEFINE b == BaseTensors(Others)
               g == GroupTensors
               o == Over(b, g)
    <2>4. /\ DOMAIN o = Others \cup Weight(Group0)
          /\ \A k \in Others : o[k] = From("base", k)
          /\ \A k \in Weight(Group0) : o[k] = From(Pinned, k)
      <3> HIDE DEF b, g
      <3>1. /\ DOMAIN o = DOMAIN b \cup DOMAIN g
            /\ \A x \in DOMAIN b : o[x] = b[x]
            /\ \A x \in DOMAIN g \ DOMAIN b : o[x] = g[x]
        BY OverIs, Zenon
      <3> HIDE DEF o
      <3> QED BY <1>0, <2>2, <2>3, <3>1 DEF b, g
    <2> HIDE DEF o
    <2>5. ExpectedH3 = Over(ExpertsOfH3, o)
      BY DEF ExpectedH3, o
    <2> DEFINE e == ExpertsOfH3
    <2>6. /\ DOMAIN Over(e, o) = DOMAIN e \cup DOMAIN o
          /\ \A x \in DOMAIN e : Over(e, o)[x] = e[x]
          /\ \A x \in DOMAIN o \ DOMAIN e : Over(e, o)[x] = o[x]
      BY OverIs, Zenon
    <2> QED BY <1>0, <2>1, <2>4, <2>5, <2>6 DEF OfModelOpt
  <1>11. ASSUME NEW k \in OverlayExpert
         PROVE  /\ IndexH3(Pinned)[k] \in NamesH3
                /\ IndexH3(Pinned)[k][1] \in {"", "expert"}
                /\ k \in DOMAIN HoldsH3(IndexH3(Pinned)[k])
                /\ HoldsH3(IndexH3(Pinned)[k])[k] = ExpectedH3[k]
    <2> DEFINE n == IndexH3(Pinned)[k]
    <2>1. n \in DOMAIN X /\ k \in DOMAIN X[n]
      BY <1>4, <1>7
    <2> HIDE DEF n
    <2>2. HoldsH3(n) = X[n] /\ n[1] = "expert" /\ n \in NamesH3
      BY <1>1, <1>8, <1>9, <2>1 DEF HoldsH3
    <2>3. X[n][k] = From(Pinned, k)
      BY <1>1, <2>1
    <2> QED BY <1>10, <2>1, <2>2, <2>3 DEF n
  <1>12. ASSUME NEW k \in Weight(Group0) \cup Others
         PROVE  /\ IndexH3(Pinned)[k] \in NamesH3
                /\ IndexH3(Pinned)[k][1] \in {"", "expert"}
                /\ k \in DOMAIN HoldsH3(IndexH3(Pinned)[k])
                /\ HoldsH3(IndexH3(Pinned)[k])[k] = ExpectedH3[k]
    <2> DEFINE n == Name("", BaseShard[k])
               holds == BaseHolds(Pinned, Group0, BaseExpert, n)
    <2>1. k \in BaseKeys \ (Scale(Group0) \cup BaseExpert)
      BY KeysApart
    <2>2. /\ n \in BaseNames /\ k \in DOMAIN holds
          /\ holds[k] = IF k \in Weight(Group0) THEN From(Pinned, k) ELSE From("base", k)
      <3>1. Group0 \in SUBSET Group0
        OBVIOUS
      <3> QED BY <2>1, <3>1, BaseHeld, Zenon
    <2>3. IndexH3(Pinned)[k] = n
      BY <1>7
    <2> HIDE DEF n
    <2>4. n[1] = "" /\ n \in NamesH3 /\ n \notin DOMAIN X
      BY <1>1, <1>2, <1>9, <2>2
    <2>5. holds = IF n \in DOMAIN R THEN R[n] ELSE BaseFile(n)
      BY DEF BaseHolds, R
    <2> HIDE DEF holds
    <2>6. HoldsH3(n) = holds
      BY <1>8, <2>4, <2>5 DEF HoldsH3
    <2>7. ExpectedH3[k] = IF k \in Weight(Group0) THEN From(Pinned, k) ELSE From("base", k)
      BY <1>10
    <2> QED BY <2>2, <2>3, <2>4, <2>6, <2>7
  <1> QED BY <1>7, <1>10, <1>11, <1>12 DEF OfModelOpt

(* H4: OrcaRouter's experts, under ModelOpt's names, over those of H3. *)
Renames(v) == {Renamed(b) : b \in SelectedKeys(v)}
BaseOf(k) == CHOOSE b \in BaseExpert : Renamed(b) = k
ExpectedH4(v) == Over(ExpertsOfH4(v), Over(BaseTensors(Others), GroupTensors))
HoldsH4(v, n) == IF n \in DOMAIN Deltas(v) THEN Deltas(v)[n] ELSE HoldsH3(n)

\* Two tensors of the base never get the same name.
LEMMA RenamedApart ==
  ASSUME NEW a \in BaseExpert, NEW b \in BaseExpert, Renamed(a) = Renamed(b)
  PROVE  a = b
  <1>1. /\ a = <<a[1], a[2]>> /\ a[2] \in {"packed", "scale", "global"}
        /\ b = <<b[1], b[2]>> /\ b[2] \in {"packed", "scale", "global"}
    BY DEF BaseExpert
  <1> DEFINE to(x) == CASE x[2] = "packed" -> "weight" [] x[2] = "global" -> "scale2" [] OTHER -> x[2]
  <1>2. a[1] = b[1] /\ to(a) = to(b)
    BY DEF Renamed
  <1>3. a[2] = b[2]
    BY <1>1, <1>2
  <1> QED BY <1>1, <1>2, <1>3

\* The names are the overlay's, and each leads back to its tensor.
LEMMA RenamesAre ==
  ASSUME NEW v
  PROVE  /\ SelectedKeys(v) \subseteq BaseExpert
         /\ Renames(v) \subseteq OverlayExpert
         /\ \A b \in BaseExpert : BaseOf(Renamed(b)) = b
  <1>1. SelectedKeys(v) \subseteq BaseExpert
    BY DEF SelectedKeys
  <1>2. ASSUME NEW b \in BaseExpert
        PROVE  Renamed(b) \in OverlayExpert
    <2>1. b[1] \in Experts /\ b[2] \in {"packed", "scale", "global"}
      BY DEF BaseExpert
    <2> QED BY <2>1 DEF Renamed, OverlayExpert
  <1>3. ASSUME NEW b \in BaseExpert
        PROVE  BaseOf(Renamed(b)) = b
    <2>1. BaseOf(Renamed(b)) \in BaseExpert /\ Renamed(BaseOf(Renamed(b))) = Renamed(b)
      BY DEF BaseOf
    <2> QED BY <2>1, RenamedApart
  <1> QED BY <1>1, <1>2, <1>3 DEF Renames

\* What is expected of H4 differs from H3 in the experts that were put back.
LEMMA ExpectedH4Is ==
  ASSUME NEW v
  PROVE  /\ DOMAIN ExpectedH4(v) = OfModelOpt
         /\ \A k \in Renames(v) : ExpectedH4(v)[k] = Normalized(BaseOf(k))
         /\ \A k \in OfModelOpt \ Renames(v) : ExpectedH4(v)[k] = ExpectedH3[k]
  <1> DEFINE n == [k \in Renames(v) |-> Normalized(BaseOf(k))]
             e == ExpertsOfH3
             o == Over(BaseTensors(Others), GroupTensors)
  <1>1. ExpectedH3 = Over(e, o) /\ ExpectedH4(v) = Over(Over(n, e), o)
    BY DEF ExpectedH3, ExpectedH4, ExpertsOfH4, Renames, BaseOf
  <1>2. DOMAIN n = Renames(v) /\ \A k \in Renames(v) : n[k] = Normalized(BaseOf(k))
    OBVIOUS
  <1>3. DOMAIN e = OverlayExpert
    BY DEF ExpertsOfH3
  <1>4. DOMAIN ExpectedH3 = OfModelOpt
    BY H3Right
  <1>5. Renames(v) \subseteq OverlayExpert
    BY RenamesAre
  <1> HIDE DEF n, e, o
  <1> DEFINE p == Over(n, e)
  <1>6. /\ DOMAIN p = DOMAIN n \cup DOMAIN e
        /\ \A x \in DOMAIN n : p[x] = n[x]
        /\ \A x \in DOMAIN e \ DOMAIN n : p[x] = e[x]
    BY OverIs, Zenon
  <1> HIDE DEF p
  <1>7. /\ DOMAIN Over(p, o) = DOMAIN p \cup DOMAIN o
        /\ \A x \in DOMAIN p : Over(p, o)[x] = p[x]
        /\ \A x \in DOMAIN o \ DOMAIN p : Over(p, o)[x] = o[x]
    BY OverIs, Zenon
  <1>8. /\ DOMAIN Over(e, o) = DOMAIN e \cup DOMAIN o
        /\ \A x \in DOMAIN e : Over(e, o)[x] = e[x]
        /\ \A x \in DOMAIN o \ DOMAIN e : Over(e, o)[x] = o[x]
    BY OverIs, Zenon
  <1>9. ExpectedH4(v) = Over(p, o)
    BY <1>1 DEF p
  <1> QED BY <1>1, <1>2, <1>3, <1>4, <1>5, <1>6, <1>7, <1>8, <1>9

\* H4 holds what is expected of it, for each of its variants.
LEMMA H4Right ==
  ASSUME NEW v
  PROVE  /\ DOMAIN IndexH4(v) = OfModelOpt
         /\ \A k \in OfModelOpt :
              /\ IndexH4(v)[k] \in NamesH3 \cup DOMAIN Deltas(v)
              /\ IndexH4(v)[k][1] \in {"", "expert", "h4"}
              /\ k \in DOMAIN HoldsH4(v, IndexH4(v)[k])
              /\ HoldsH4(v, IndexH4(v)[k])[k] = ExpectedH4(v)[k]
  <1> DEFINE D == Deltas(v)
             S == SelectedKeys(v)
             In(n) == {k \in S : BaseShard[k] = n[2]}
             I3 == IndexH3(Pinned)
             I4 == IndexH4(v)
  <1>1. /\ S \subseteq BaseExpert /\ Renames(v) \subseteq OverlayExpert
        /\ \A b \in BaseExpert : BaseOf(Renamed(b)) = b
    BY RenamesAre
  <1>2. /\ DOMAIN D = {Name("h4", s) : s \in Holding(S, BaseShard)}
        /\ \A n \in DOMAIN D :
             D[n] = [d \in {Renamed(k) : k \in In(n)} |->
                       Normalized(CHOOSE k \in In(n) : Renamed(k) = d)]
        /\ \A n \in DOMAIN D : n[1] = "h4"
    BY DEF Deltas, Name
  <1>3. ASSUME NEW n \in DOMAIN D, NEW d \in DOMAIN D[n]
        PROVE  d \in Renames(v) /\ D[n][d] = Normalized(BaseOf(d))
    <2> DEFINE c == CHOOSE k \in In(n) : Renamed(k) = d
    <2>1. DOMAIN D[n] = {Renamed(k) : k \in In(n)} /\ D[n][d] = Normalized(c)
      BY <1>2
    <2>2. c \in In(n) /\ Renamed(c) = d
      BY <2>1
    <2> HIDE DEF c
    <2>3. c \in S /\ c \in BaseExpert
      BY <1>1, <2>2
    <2>4. BaseOf(d) = c
      BY <1>1, <2>2, <2>3
    <2> HIDE DEF D, S
    <2>5. d \in Renames(v)
      BY <2>2, <2>3 DEF Renames, S
    <2> QED BY <2>1, <2>4, <2>5
  <1>4. ASSUME NEW d \in Renames(v)
        PROVE  \E n \in DOMAIN D : d \in DOMAIN D[n]
    <2>1. PICK b \in S : d = Renamed(b)
      BY DEF Renames
    <2> DEFINE n == Name("h4", BaseShard[b])
    <2>2. n \in DOMAIN D /\ n[2] = BaseShard[b]
      BY <1>2 DEF Holding, Name
    <2> HIDE DEF n, D
    <2>3. b \in In(n)
      BY <2>2
    <2>4. DOMAIN D[n] = {Renamed(k) : k \in In(n)}
      BY <1>2, <2>2
    <2> QED BY <2>1, <2>2, <2>3, <2>4
  <1> HIDE DEF D, S, In
  <1>5. UNION {DOMAIN D[n] : n \in DOMAIN D} = Renames(v)
    BY <1>3, <1>4
  <1>6. /\ DOMAIN Placed(D) = Renames(v)
        /\ \A k \in Renames(v) : Placed(D)[k] \in DOMAIN D /\ k \in DOMAIN D[Placed(D)[k]]
    BY <1>5, PlacedWhereItIs
  <1>7. /\ DOMAIN I3 = OfModelOpt
        /\ \A k \in OfModelOpt : /\ I3[k] \in NamesH3 /\ I3[k][1] \in {"", "expert"}
                                 /\ k \in DOMAIN HoldsH3(I3[k])
                                 /\ HoldsH3(I3[k])[k] = ExpectedH3[k]
    BY H3Right
  <1> HIDE DEF I3
  <1>8. /\ DOMAIN I4 = OfModelOpt
        /\ \A k \in Renames(v) : I4[k] = Placed(D)[k]
        /\ \A k \in OfModelOpt \ Renames(v) : I4[k] = I3[k]
    <2>1. I4 = Over(Placed(D), I3)
      BY Zenon DEF IndexH4, D, I3
    <2>2. /\ DOMAIN Over(Placed(D), I3) = DOMAIN Placed(D) \cup DOMAIN I3
          /\ \A x \in DOMAIN Placed(D) : Over(Placed(D), I3)[x] = Placed(D)[x]
          /\ \A x \in DOMAIN I3 \ DOMAIN Placed(D) : Over(Placed(D), I3)[x] = I3[x]
      BY OverIs, Zenon
    <2> HIDE DEF I4
    <2> QED BY <1>1, <1>6, <1>7, <2>1, <2>2 DEF OfModelOpt
  <1> HIDE DEF I4
  <1>9. \A n : HoldsH4(v, n) = IF n \in DOMAIN D THEN D[n] ELSE HoldsH3(n)
    BY DEF HoldsH4, D
  <1>10. ASSUME NEW k \in OfModelOpt
         PROVE  /\ I4[k] \in NamesH3 \cup DOMAIN D
                /\ I4[k][1] \in {"", "expert", "h4"}
                /\ k \in DOMAIN HoldsH4(v, I4[k])
                /\ HoldsH4(v, I4[k])[k] = ExpectedH4(v)[k]
    <2>1. CASE k \in Renames(v)
      <3> DEFINE n == I4[k]
      <3>1. n \in DOMAIN D /\ k \in DOMAIN D[n]
        BY <1>6, <1>8, <2>1
      <3> HIDE DEF n
      <3>2. D[n][k] = Normalized(BaseOf(k)) /\ n[1] = "h4" /\ HoldsH4(v, n) = D[n]
        BY <1>2, <1>3, <1>9, <3>1
      <3>3. ExpectedH4(v)[k] = Normalized(BaseOf(k))
        BY <2>1, ExpectedH4Is
      <3> QED BY <3>1, <3>2, <3>3 DEF n
    <2>2. CASE k \notin Renames(v)
      <3> DEFINE n == I4[k]
      <3>1. n = I3[k]
        BY <1>8, <2>2
      <3> HIDE DEF n
      <3>2. n \in NamesH3 /\ n[1] \in {"", "expert"} /\ k \in DOMAIN HoldsH3(n)
            /\ HoldsH3(n)[k] = ExpectedH3[k]
        BY <1>7, <3>1
      <3>3. HoldsH4(v, n) = HoldsH3(n)
        BY <1>2, <1>9, <3>2
      <3>4. ExpectedH4(v)[k] = ExpectedH3[k]
        BY <2>2, ExpectedH4Is
      <3> QED BY <3>2, <3>3, <3>4 DEF n
    <2> QED BY <2>1, <2>2
  <1> QED BY <1>8, <1>10, Zenon DEF I4, D

(* H5: the input scales are neutral.  H6 has the same tensors. *)
Orca == "h4-orca-all"
ExpectedH5 == Over([k \in InputScales |-> From("ones", k)], ExpectedH4(Orca))
HoldsH5(n) == IF n \in DOMAIN NeutralFiles THEN NeutralFiles[n] ELSE HoldsH4(Orca, n)

\* H5 holds what is expected of it.
LEMMA H5Right ==
  /\ DOMAIN ExpectedH5 = OfModelOpt
  /\ DOMAIN IndexH5 = OfModelOpt
  /\ \A k \in OfModelOpt :
       /\ IndexH5[k] \in NamesH3 \cup DOMAIN Deltas(Orca) \cup DOMAIN NeutralFiles
       /\ k \in DOMAIN HoldsH5(IndexH5[k])
       /\ HoldsH5(IndexH5[k])[k] = ExpectedH5[k]
  <1> DEFINE N == NeutralFiles
             I4 == IndexH4(Orca)
             I5 == IndexH5
             ones == [k \in InputScales |-> From("ones", k)]
             e == ExpectedH4(Orca)
  <1>1. InputScales \subseteq OfModelOpt
    BY KeysApart DEF OfModelOpt
  <1>2. /\ DOMAIN I4 = OfModelOpt
        /\ \A k \in OfModelOpt : /\ I4[k] \in NamesH3 \cup DOMAIN Deltas(Orca)
                                 /\ I4[k][1] \in {"", "expert", "h4"}
                                 /\ k \in DOMAIN HoldsH4(Orca, I4[k])
                                 /\ HoldsH4(Orca, I4[k])[k] = e[k]
    BY H4Right
  <1>3. DOMAIN e = OfModelOpt
    BY ExpectedH4Is
  <1>4. /\ DOMAIN N = {Name("h5", I4[k]) : k \in InputScales}
        /\ \A n \in DOMAIN N :
             N[n] = [k \in {i \in InputScales : I4[i] = n[2]} |-> From("ones", k)]
        /\ \A n \in DOMAIN N : n[1] = "h5"
    BY DEF NeutralFiles, Name, Orca
  <1> HIDE DEF I4
  <1>5. ASSUME NEW k \in InputScales
        PROVE  \E n \in DOMAIN N : k \in DOMAIN N[n]
    <2> DEFINE n == Name("h5", I4[k])
    <2>1. n \in DOMAIN N /\ n[2] = I4[k]
      BY <1>4 DEF Name
    <2> HIDE DEF n, N
    <2>2. N[n] = [j \in {i \in InputScales : I4[i] = n[2]} |-> From("ones", j)]
      BY <1>4, <2>1
    <2>3. k \in DOMAIN N[n]
      BY <2>1, <2>2
    <2> QED BY <2>1, <2>3
  <1> HIDE DEF N
  <1>6. UNION {DOMAIN N[n] : n \in DOMAIN N} = InputScales
    BY <1>4, <1>5
  <1>7. /\ DOMAIN Placed(N) = InputScales
        /\ \A k \in InputScales : Placed(N)[k] \in DOMAIN N /\ k \in DOMAIN N[Placed(N)[k]]
    BY <1>6, PlacedWhereItIs
  <1>8. /\ DOMAIN I5 = OfModelOpt
        /\ \A k \in InputScales : I5[k] = Placed(N)[k]
        /\ \A k \in OfModelOpt \ InputScales : I5[k] = I4[k]
    <2>1. I5 = Over(Placed(N), I4)
      BY Zenon DEF IndexH5, N, I4, Orca
    <2>2. /\ DOMAIN Over(Placed(N), I4) = DOMAIN Placed(N) \cup DOMAIN I4
          /\ \A x \in DOMAIN Placed(N) : Over(Placed(N), I4)[x] = Placed(N)[x]
          /\ \A x \in DOMAIN I4 \ DOMAIN Placed(N) : Over(Placed(N), I4)[x] = I4[x]
      BY OverIs, Zenon
    <2> HIDE DEF I5
    <2> QED BY <1>1, <1>2, <1>7, <2>1, <2>2
  <1>9. /\ DOMAIN ExpectedH5 = OfModelOpt
        /\ \A k \in InputScales : ExpectedH5[k] = From("ones", k)
        /\ \A k \in OfModelOpt \ InputScales : ExpectedH5[k] = e[k]
    <2>1. DOMAIN ones = InputScales /\ \A k \in InputScales : ones[k] = From("ones", k)
      OBVIOUS
    <2>2. ExpectedH5 = Over(ones, e)
      BY DEF ExpectedH5
    <2> HIDE DEF ones, e
    <2>3. /\ DOMAIN Over(ones, e) = DOMAIN ones \cup DOMAIN e
          /\ \A x \in DOMAIN ones : Over(ones, e)[x] = ones[x]
          /\ \A x \in DOMAIN e \ DOMAIN ones : Over(ones, e)[x] = e[x]
      BY OverIs, Zenon
    <2> QED BY <1>1, <1>3, <2>1, <2>2, <2>3
  <1>10. \A n : HoldsH5(n) = IF n \in DOMAIN N THEN N[n] ELSE HoldsH4(Orca, n)
    BY DEF HoldsH5, N
  <1> HIDE DEF I5, e
  <1>11. ASSUME NEW k \in OfModelOpt
         PROVE  /\ I5[k] \in NamesH3 \cup DOMAIN Deltas(Orca) \cup DOMAIN N
                /\ k \in DOMAIN HoldsH5(I5[k])
                /\ HoldsH5(I5[k])[k] = ExpectedH5[k]
    <2> DEFINE n == I5[k]
    <2>1. CASE k \in InputScales
      <3>1. n \in DOMAIN N /\ k \in DOMAIN N[n]
        BY <1>7, <1>8, <2>1
      <3> HIDE DEF n
      <3>2. HoldsH5(n) = N[n] /\ N[n][k] = From("ones", k)
        BY <1>4, <1>10, <3>1
      <3> QED BY <1>9, <2>1, <3>1, <3>2 DEF n
    <2>2. CASE k \notin InputScales
      <3>1. n = I4[k]
        BY <1>8, <2>2
      <3> HIDE DEF n
      <3>2. /\ n \in NamesH3 \cup DOMAIN Deltas(Orca) /\ n \notin DOMAIN N
            /\ k \in DOMAIN HoldsH4(Orca, n) /\ HoldsH4(Orca, n)[k] = e[k]
        BY <1>2, <1>4, <3>1
      <3> QED BY <1>9, <1>10, <2>2, <3>2 DEF n
    <2> QED BY <2>1, <2>2
  <1> QED BY <1>8, <1>9, <1>11, Zenon DEF I5, N
-----------------------------------------------------------------------------
(* Reading through the links.                                                *)

\* The first directory without a link for the name has the file.
LEMMA ReadAt ==
  ASSUME NEW s, NEW name, NEW i \in DOMAIN Lineage[s], DOMAIN Lineage[s] \subseteq Nat \ {0},
         ~Linked(Lineage[s][i], name),
         \A j \in 1..(i - 1) : Linked(Lineage[s][j], name),
         name \in DOMAIN dir[Lineage[s][i]].files
  PROVE  Read(s, name) = dir[Lineage[s][i]].files[name].holds
  <1> DEFINE at == {m \in DOMAIN Lineage[s] :
                      /\ ~Linked(Lineage[s][m], name)
                      /\ \A j \in 1..(m - 1) : Linked(Lineage[s][j], name)}
  <1>1. i \in at
    OBVIOUS
  <1>2. ASSUME NEW m \in at
        PROVE  m = i
    <2>1. ~(m < i)
      <3> SUFFICES ASSUME m < i PROVE FALSE
        OBVIOUS
      <3>1. m \in 1..(i - 1)
        OBVIOUS
      <3> QED BY <3>1
    <2>2. ~(i < m)
      <3> SUFFICES ASSUME i < m PROVE FALSE
        OBVIOUS
      <3>1. i \in 1..(m - 1)
        OBVIOUS
      <3> QED BY <3>1
    <2> QED BY <2>1, <2>2
  <1> HIDE DEF at
  <1>3. at # {} /\ (CHOOSE m \in at : TRUE) = i
    BY <1>1, <1>2
  <1>4. Read(s, name) =
          IF at = {} THEN BaseFile(name)
          ELSE LET d == Lineage[s][CHOOSE m \in at : TRUE]
               IN IF name \in DOMAIN dir[d].files THEN dir[d].files[name].holds ELSE <<>>
    BY DEF Read, at
  <1> QED BY <1>3, <1>4

\* A name that is a link everywhere leads to the base.
LEMMA ReadBase ==
  ASSUME NEW s, NEW name, \A i \in DOMAIN Lineage[s] : Linked(Lineage[s][i], name)
  PROVE  Read(s, name) = BaseFile(name)
  BY DEF Read

\* In a whole stage a name is a file of its own or a link.
Splits(s, files, names) ==
  /\ \A n \in DOMAIN files : /\ ~Linked(s, n) /\ n \in DOMAIN dir[s].files
                             /\ dir[s].files[n].holds = files[n]
  /\ \A n \in names \ DOMAIN files : Linked(s, n)

\* What is in a whole stage is one or the other.
LEMMA FileOrLink ==
  ASSUME NEW s, NEW v, NEW r, Whole(s), dir[s].manifest.variant = v, MadeWith(s) = r
  PROVE  Splits(s, FilesOf(s, v, r), ParentNames(s))
  <1> DEFINE F == FilesOf(s, v, r)
  <1>1. /\ DOMAIN dir[s].files = LinksOf(s, v, r) \cup DOMAIN F
        /\ \A n \in DOMAIN F : dir[s].files[n] = File("whole", F[n])
        /\ \A n \in LinksOf(s, v, r) : dir[s].files[n] = Link
    BY DEF Whole
  <1>2. LinksOf(s, v, r) = ParentNames(s) \ DOMAIN F
    BY DEF LinksOf
  <1>3. /\ \A x : File("whole", x).kind = "whole" /\ File("whole", x).holds = x
        /\ Link.kind = "link"
    BY DEF File, Link
  <1> HIDE DEF F
  <1> QED BY <1>1, <1>2, <1>3 DEF Splits, Linked, F

\* The directories that a container looks through for each stage.
LEMMA LineageIs ==
  /\ DOMAIN Lineage["bf16"] = {1} /\ Lineage["bf16"][1] = "bf16"
  /\ DOMAIN Lineage["h3"] = {1} /\ Lineage["h3"][1] = "h3"
  /\ DOMAIN Lineage["h4"] = {1, 2} /\ Lineage["h4"][1] = "h4" /\ Lineage["h4"][2] = "h3"
  /\ DOMAIN Lineage["h5"] = {1, 2, 3} /\ Lineage["h5"][1] = "h5" /\ Lineage["h5"][2] = "h4"
  /\ Lineage["h5"][3] = "h3"
  /\ DOMAIN Lineage["h6"] = {1, 2, 3, 4} /\ Lineage["h6"][1] = "h6" /\ Lineage["h6"][2] = "h5"
  /\ Lineage["h6"][3] = "h4" /\ Lineage["h6"][4] = "h3"
  BY DEF Lineage

\* The first stage whose directory has a file for the name, by the length of the chain.
LEMMA ReadFirst ==
  ASSUME NEW s, NEW name, 1 \in DOMAIN Lineage[s], DOMAIN Lineage[s] \subseteq Nat \ {0},
         ~Linked(Lineage[s][1], name), name \in DOMAIN dir[Lineage[s][1]].files
  PROVE  Read(s, name) = dir[Lineage[s][1]].files[name].holds
  <1>1. \A j \in 1..(1 - 1) : Linked(Lineage[s][j], name)
    OBVIOUS
  <1> QED BY <1>1, ReadAt, Zenon

\* The same when the first directory has a link.
LEMMA ReadSecond ==
  ASSUME NEW s, NEW name, 2 \in DOMAIN Lineage[s], DOMAIN Lineage[s] \subseteq Nat \ {0},
         Linked(Lineage[s][1], name),
         ~Linked(Lineage[s][2], name), name \in DOMAIN dir[Lineage[s][2]].files
  PROVE  Read(s, name) = dir[Lineage[s][2]].files[name].holds
  <1>1. \A j \in 1..(2 - 1) : j = 1
    OBVIOUS
  <1>2. \A j \in 1..(2 - 1) : Linked(Lineage[s][j], name)
    BY <1>1, Zenon
  <1> QED BY <1>2, ReadAt, Zenon

\* When the first two have one.
LEMMA ReadThird ==
  ASSUME NEW s, NEW name, 3 \in DOMAIN Lineage[s], DOMAIN Lineage[s] \subseteq Nat \ {0},
         Linked(Lineage[s][1], name), Linked(Lineage[s][2], name),
         ~Linked(Lineage[s][3], name), name \in DOMAIN dir[Lineage[s][3]].files
  PROVE  Read(s, name) = dir[Lineage[s][3]].files[name].holds
  <1>1. \A j \in 1..(3 - 1) : j = 1 \/ j = 2
    OBVIOUS
  <1>2. \A j \in 1..(3 - 1) : Linked(Lineage[s][j], name)
    BY <1>1, Zenon
  <1> QED BY <1>2, ReadAt, Zenon

\* When all but the last have one.
LEMMA ReadFourth ==
  ASSUME NEW s, NEW name, 4 \in DOMAIN Lineage[s], DOMAIN Lineage[s] \subseteq Nat \ {0},
         Linked(Lineage[s][1], name), Linked(Lineage[s][2], name), Linked(Lineage[s][3], name),
         ~Linked(Lineage[s][4], name), name \in DOMAIN dir[Lineage[s][4]].files
  PROVE  Read(s, name) = dir[Lineage[s][4]].files[name].holds
  <1>1. \A j \in 1..(4 - 1) : j = 1 \/ j = 2 \/ j = 3
    OBVIOUS
  <1>2. \A j \in 1..(4 - 1) : Linked(Lineage[s][j], name)
    BY <1>1, Zenon
  <1> QED BY <1>2, ReadAt, Zenon

\* A name in BF16 is a rewritten shard, or one of the base.
LEMMA ReadsBF ==
  ASSUME Whole("bf16"), NEW n \in BaseNames
  PROVE  Read("bf16", n) = BaseHolds(MadeWith("bf16"), Modules(dir["bf16"].manifest.variant), {}, n)
  <1> DEFINE v == dir["bf16"].manifest.variant
             r == MadeWith("bf16")
             F == FilesOf("bf16", v, r)
  <1>1. F = RewritesOf(r, Modules(v), {}) /\ ParentNames("bf16") = BaseNames
    BY DEF FilesOf, ParentNames, SourceStages
  <1>2. Splits("bf16", F, BaseNames)
    BY <1>1, FileOrLink, Zenon
  <1> HIDE DEF F
  <1>3. CASE n \in DOMAIN F
    <2>1. Read("bf16", n) = dir["bf16"].files[n].holds
      BY <1>2, <1>3, ReadFirst, LineageIs DEF Splits
    <2> QED BY <1>1, <1>2, <1>3, <2>1 DEF BaseHolds, Splits
  <1>4. CASE n \notin DOMAIN F
    <2>1. Read("bf16", n) = BaseFile(n)
      BY <1>2, <1>4, ReadBase, LineageIs DEF Splits
    <2> QED BY <1>1, <1>4, <2>1 DEF BaseHolds
  <1> QED BY <1>3, <1>4

\* What H3 is when the next stages are made.
MadeH3 == Whole("h3") /\ MadeWith("h3") = Pinned
MadeH4(v) == MadeH3 /\ Whole("h4") /\ dir["h4"].manifest.variant = v
MadeH5 == MadeH4(Orca) /\ Whole("h5")
MadeH6 == MadeH5 /\ Whole("h6")

\* What the links and files of each stage are.
LEMMA LinksH3 == MadeH3 => Splits("h3", FilesH3, NamesH3)
  <1> SUFFICES ASSUME MadeH3 PROVE Splits("h3", FilesH3, NamesH3)
    OBVIOUS
  <1> DEFINE v == dir["h3"].manifest.variant
  <1>1. \A w : FilesOf("h3", w, Pinned) = FilesH3
    BY DEF FilesOf, FilesH3
  <1>2. ParentNames("h3") = BaseNames /\ NamesH3 = BaseNames \cup DOMAIN FilesH3
    BY <1>1 DEF ParentNames, SourceStages, NamesH3
  <1>3. Splits("h3", FilesOf("h3", v, Pinned), ParentNames("h3"))
    BY FileOrLink, Zenon DEF MadeH3
  <1>4. NamesH3 \ DOMAIN FilesH3 = BaseNames \ DOMAIN FilesH3
    BY <1>2
  <1> QED BY <1>1, <1>2, <1>3, <1>4 DEF Splits

\* Those of H4 depend on its variant.
LEMMA LinksH4 ==
  ASSUME NEW v, MadeH4(v)
  PROVE  Splits("h4", Deltas(v), NamesH3)
  <1>1. FilesOf("h4", v, Pinned) = Deltas(v) /\ ParentNames("h4") = NamesH3
    BY DEF FilesOf, ParentNames, SourceStages
  <1>2. Whole("h4") /\ MadeWith("h4") = Pinned /\ dir["h4"].manifest.variant = v
    BY DEF MadeH4, MadeWith, SourceStages
  <1>3. Splits("h4", FilesOf("h4", v, Pinned), ParentNames("h4"))
    BY <1>2, FileOrLink, Zenon
  <1> QED BY <1>1, <1>3

\* H5 has files of its own for the input scales.
LEMMA LinksH5 == MadeH5 => Splits("h5", NeutralFiles, NamesH3 \cup DOMAIN Deltas(Orca))
  <1> SUFFICES ASSUME MadeH5
               PROVE  Splits("h5", NeutralFiles, NamesH3 \cup DOMAIN Deltas(Orca))
    OBVIOUS
  <1> DEFINE v == dir["h5"].manifest.variant
  <1>1. \A w : FilesOf("h5", w, Pinned) = NeutralFiles
    BY DEF FilesOf
  <1>2. ParentNames("h5") = NamesH3 \cup DOMAIN Deltas(Orca)
    BY DEF ParentNames, SourceStages, NamesH4, FilesOf, Wanted, Orca
  <1>3. Whole("h5") /\ MadeWith("h5") = Pinned
    BY DEF MadeH5, MadeWith, SourceStages
  <1>4. Splits("h5", FilesOf("h5", v, Pinned), ParentNames("h5"))
    BY <1>3, FileOrLink, Zenon
  <1> QED BY <1>1, <1>2, <1>4

\* H6 has no files of its own.
LEMMA LinksH6 ==
  MadeH6 => Splits("h6", <<>>, NamesH3 \cup DOMAIN Deltas(Orca) \cup DOMAIN NeutralFiles)
  <1> SUFFICES ASSUME MadeH6
               PROVE  Splits("h6", <<>>, NamesH3 \cup DOMAIN Deltas(Orca) \cup DOMAIN NeutralFiles)
    OBVIOUS
  <1> DEFINE v == dir["h6"].manifest.variant
  <1>1. \A w : FilesOf("h6", w, Pinned) = <<>>
    BY DEF FilesOf
  <1>2. ParentNames("h6") = NamesH3 \cup DOMAIN Deltas(Orca) \cup DOMAIN NeutralFiles
    BY DEF ParentNames, SourceStages, NamesH4, NamesH5, FilesOf, Wanted, Orca
  <1>3. Whole("h6") /\ MadeWith("h6") = Pinned
    BY DEF MadeH6, MadeWith, SourceStages
  <1>4. Splits("h6", FilesOf("h6", v, Pinned), ParentNames("h6"))
    BY <1>3, FileOrLink, Zenon
  <1> QED BY <1>1, <1>2, <1>4

\* What a reader of each stage finds under a name.
LEMMA ReadsH3 ==
  ASSUME MadeH3, NEW n \in NamesH3
  PROVE  Read("h3", n) = HoldsH3(n)
  <1>1. Splits("h3", FilesH3, NamesH3)
    BY LinksH3
  <1>2. CASE n \in DOMAIN FilesH3
    <2>1. Read("h3", n) = dir["h3"].files[n].holds
      BY <1>1, <1>2, ReadFirst, LineageIs DEF Splits
    <2> QED BY <1>1, <1>2, <2>1 DEF HoldsH3, Splits
  <1>3. CASE n \notin DOMAIN FilesH3
    <2>1. Read("h3", n) = BaseFile(n)
      BY <1>1, <1>3, ReadBase, LineageIs DEF Splits
    <2> QED BY <1>3, <2>1 DEF HoldsH3
  <1> QED BY <1>2, <1>3

\* In H4 the experts that were put back come first.
LEMMA ReadsH4 ==
  ASSUME NEW v, MadeH4(v), NEW n \in NamesH3 \cup DOMAIN Deltas(v)
  PROVE  Read("h4", n) = HoldsH4(v, n)
  <1>1. Splits("h3", FilesH3, NamesH3) /\ Splits("h4", Deltas(v), NamesH3)
    BY LinksH3, LinksH4 DEF MadeH4
  <1>2. CASE n \in DOMAIN Deltas(v)
    <2>1. Read("h4", n) = dir["h4"].files[n].holds
      BY <1>1, <1>2, ReadFirst, LineageIs DEF Splits
    <2> QED BY <1>1, <1>2, <2>1 DEF HoldsH4, Splits
  <1>3. ASSUME n \notin DOMAIN Deltas(v)
        PROVE  n \in NamesH3 /\ Linked("h4", n) /\ HoldsH4(v, n) = HoldsH3(n)
    BY <1>1, <1>3 DEF Splits, HoldsH4
  <1>4. CASE n \notin DOMAIN Deltas(v) /\ n \in DOMAIN FilesH3
    <2>1. Read("h4", n) = dir["h3"].files[n].holds
      BY <1>1, <1>3, <1>4, ReadSecond, LineageIs DEF Splits
    <2> QED BY <1>1, <1>3, <1>4, <2>1 DEF HoldsH3, Splits
  <1>5. CASE n \notin DOMAIN Deltas(v) /\ n \notin DOMAIN FilesH3
    <2>1. Linked("h3", n)
      BY <1>1, <1>3, <1>5 DEF Splits
    <2>2. Read("h4", n) = BaseFile(n)
      BY <1>3, <1>5, <2>1, ReadBase, LineageIs
    <2> QED BY <1>3, <1>5, <2>2 DEF HoldsH3
  <1> QED BY <1>2, <1>4, <1>5

\* In H5 the neutral scales do.
LEMMA ReadsH5 ==
  ASSUME MadeH5, NEW n \in NamesH3 \cup DOMAIN Deltas(Orca) \cup DOMAIN NeutralFiles
  PROVE  Read("h5", n) = HoldsH5(n)
  <1> DEFINE D == Deltas(Orca)
             N == NeutralFiles
  <1>1. /\ Splits("h3", FilesH3, NamesH3) /\ Splits("h4", D, NamesH3)
        /\ Splits("h5", N, NamesH3 \cup DOMAIN D)
    BY LinksH3, LinksH4, LinksH5 DEF MadeH4, MadeH5
  <1> HIDE DEF D, N
  <1>0. /\ HoldsH5(n) = IF n \in DOMAIN N THEN N[n] ELSE HoldsH4(Orca, n)
        /\ HoldsH4(Orca, n) = IF n \in DOMAIN D THEN D[n] ELSE HoldsH3(n)
        /\ HoldsH3(n) = IF n \in DOMAIN FilesH3 THEN FilesH3[n] ELSE BaseFile(n)
    BY Zenon DEF HoldsH5, HoldsH4, HoldsH3, D, N
  <1>2. CASE n \in DOMAIN N
    <2>1. Read("h5", n) = dir["h5"].files[n].holds
      BY <1>1, <1>2, ReadFirst, LineageIs DEF Splits
    <2> QED BY <1>0, <1>1, <1>2, <2>1 DEF Splits
  <1>3. ASSUME n \notin DOMAIN N
        PROVE  Linked("h5", n) /\ n \in NamesH3 \cup DOMAIN D
    BY <1>1, <1>3 DEF Splits, D, N
  <1>4. CASE n \notin DOMAIN N /\ n \in DOMAIN D
    <2>1. Read("h5", n) = dir["h4"].files[n].holds
      BY <1>1, <1>3, <1>4, ReadSecond, LineageIs DEF Splits
    <2> QED BY <1>0, <1>1, <1>4, <2>1 DEF Splits
  <1>5. ASSUME n \notin DOMAIN N, n \notin DOMAIN D
        PROVE  Linked("h5", n) /\ Linked("h4", n) /\ n \in NamesH3
    BY <1>1, <1>3, <1>5 DEF Splits
  <1>6. CASE n \notin DOMAIN N /\ n \notin DOMAIN D /\ n \in DOMAIN FilesH3
    <2>1. Read("h5", n) = dir["h3"].files[n].holds
      BY <1>1, <1>5, <1>6, ReadThird, LineageIs DEF Splits
    <2> QED BY <1>0, <1>1, <1>6, <2>1 DEF Splits
  <1>7. CASE n \notin DOMAIN N /\ n \notin DOMAIN D /\ n \notin DOMAIN FilesH3
    <2>1. Linked("h3", n)
      BY <1>1, <1>5, <1>7 DEF Splits
    <2>2. Read("h5", n) = BaseFile(n)
      BY <1>5, <1>7, <2>1, ReadBase, LineageIs
    <2> QED BY <1>0, <1>7, <2>2
  <1> QED BY <1>2, <1>4, <1>6, <1>7

\* H6 is read like H5.
LEMMA ReadsH6 ==
  ASSUME MadeH6, NEW n \in NamesH3 \cup DOMAIN Deltas(Orca) \cup DOMAIN NeutralFiles
  PROVE  Read("h6", n) = HoldsH5(n)
  <1> DEFINE D == Deltas(Orca)
             N == NeutralFiles
  <1>1. /\ Splits("h3", FilesH3, NamesH3) /\ Splits("h4", D, NamesH3)
        /\ Splits("h5", N, NamesH3 \cup DOMAIN D)
        /\ Splits("h6", <<>>, NamesH3 \cup DOMAIN D \cup DOMAIN N)
    BY LinksH3, LinksH4, LinksH5, LinksH6 DEF MadeH4, MadeH5, MadeH6
  <1>8. Linked("h6", n)
    BY <1>1 DEF Splits
  <1> HIDE DEF D, N
  <1>0. /\ HoldsH5(n) = IF n \in DOMAIN N THEN N[n] ELSE HoldsH4(Orca, n)
        /\ HoldsH4(Orca, n) = IF n \in DOMAIN D THEN D[n] ELSE HoldsH3(n)
        /\ HoldsH3(n) = IF n \in DOMAIN FilesH3 THEN FilesH3[n] ELSE BaseFile(n)
    BY Zenon DEF HoldsH5, HoldsH4, HoldsH3, D, N
  <1>2. CASE n \in DOMAIN N
    <2>1. Read("h6", n) = dir["h5"].files[n].holds
      BY <1>1, <1>2, <1>8, ReadSecond, LineageIs DEF Splits
    <2> QED BY <1>0, <1>1, <1>2, <2>1 DEF Splits
  <1>3. ASSUME n \notin DOMAIN N
        PROVE  Linked("h5", n) /\ n \in NamesH3 \cup DOMAIN D
    BY <1>1, <1>3 DEF Splits, D, N
  <1>4. CASE n \notin DOMAIN N /\ n \in DOMAIN D
    <2>1. Read("h6", n) = dir["h4"].files[n].holds
      BY <1>1, <1>3, <1>4, <1>8, ReadThird, LineageIs DEF Splits
    <2> QED BY <1>0, <1>1, <1>4, <2>1 DEF Splits
  <1>5. ASSUME n \notin DOMAIN N, n \notin DOMAIN D
        PROVE  Linked("h5", n) /\ Linked("h4", n) /\ n \in NamesH3
    BY <1>1, <1>3, <1>5 DEF Splits
  <1>6. CASE n \notin DOMAIN N /\ n \notin DOMAIN D /\ n \in DOMAIN FilesH3
    <2>1. Read("h6", n) = dir["h3"].files[n].holds
      BY <1>1, <1>5, <1>6, <1>8, ReadFourth, LineageIs DEF Splits
    <2> QED BY <1>0, <1>1, <1>6, <2>1 DEF Splits
  <1>7. CASE n \notin DOMAIN N /\ n \notin DOMAIN D /\ n \notin DOMAIN FilesH3
    <2>1. Linked("h3", n)
      BY <1>1, <1>5, <1>7 DEF Splits
    <2>2. Read("h6", n) = BaseFile(n)
      BY <1>5, <1>7, <1>8, <2>1, ReadBase, LineageIs
    <2> QED BY <1>0, <1>7, <2>2
  <1> QED BY <1>2, <1>4, <1>6, <1>7
-----------------------------------------------------------------------------
(* What the readers of an accepted stage rely on.                            *)

\* A BF16 stage that is complete is whole, and its config fits.
LEMMA BFUsable ==
  ASSUME ChainInv, Usable("bf16"), "bf16" \notin suspect
  PROVE  HoldsItsTensors("bf16") /\ ConfigDescribes("bf16")
  <1> DEFINE v == dir["bf16"].manifest.variant
             r == dir["bf16"].manifest.overlay
             M == Modules(v)
  <1>1. Whole("bf16")
    BY StagesAre DEF Usable, ChainInv, CompleteIsWhole
  <1>2. /\ MadeWith("bf16") = r /\ dir["bf16"].index = IndexBF(v)
        /\ dir["bf16"].config = FP8(Group0 \ M)
    BY <1>1 DEF Whole, MadeWith, SourceStages, IndexOf, ConfigOf, Bf16Config
  <1>3. Expected("bf16") = ExpectedBF(v, r)
    BY DEF Expected, ExpectedBF
  <1>4. Index("bf16") = IndexBF(v)
    BY <1>2 DEF Index
  <1>5. \A n \in BaseNames : Read("bf16", n) = BaseHolds(r, M, {}, n)
    BY <1>1, <1>2, ReadsBF
  <1> HIDE DEF v, r
  <1>6. /\ DOMAIN IndexBF(v) = DOMAIN ExpectedBF(v, r)
        /\ DOMAIN IndexBF(v) = BaseKeys \ Scale(M)
        /\ \A k \in DOMAIN IndexBF(v) :
              /\ IndexBF(v)[k] \in BaseNames
              /\ k \in DOMAIN BaseHolds(r, M, {}, IndexBF(v)[k])
              /\ BaseHolds(r, M, {}, IndexBF(v)[k])[k] = ExpectedBF(v, r)[k]
    BY BFRight
  <1> HIDE DEF M
  <1>7. HoldsItsTensors("bf16")
    BY <1>3, <1>4, <1>5, <1>6 DEF HoldsItsTensors
  <1>8. {g \in Group0 : <<g, "scale">> \in BaseKeys \ Scale(M)} = Group0 \ M
    <2>1. \A g \in Group0 : <<g, "scale">> \in BaseKeys
      BY KeysApart DEF BaseKeys
    <2>2. \A g \in Group0 : <<g, "scale">> \in Scale(M) <=> g \in M
      BY DEF Scale
    <2> QED BY <2>1, <2>2
  <1>9. ~(OverlayExpert \subseteq BaseKeys \ Scale(M))
    BY KeysApart
  <1>10. FP8(Group0 \ M).targets = Group0 \ M /\ FP8(Group0 \ M).method # "modelopt"
    BY DEF FP8, Config
  <1> QED BY <1>2, <1>4, <1>6, <1>7, <1>8, <1>9, <1>10 DEF ConfigDescribes

\* The stages in ModelOpt's layout have the same tensors, whatever is in them.
LEMMA ModelOptConfig ==
  ASSUME NEW s, DOMAIN Index(s) = OfModelOpt, NEW algo, dir[s].config = ModelOpt(algo)
  PROVE  ConfigDescribes(s)
  <1>1. dir[s].config.targets = {} /\ dir[s].config.method = "modelopt"
    BY DEF ModelOpt, Config
  <1>2. \A g \in Group0 : <<g, "scale">> \notin OfModelOpt
    BY KeysApart DEF OfModelOpt
  <1>3. OverlayExpert \subseteq OfModelOpt
    BY DEF OfModelOpt
  <1> QED BY <1>1, <1>2, <1>3 DEF ConfigDescribes

\* So is an H3 that validate_h3_provenance accepts.
LEMMA H3Usable ==
  ASSUME ChainInv, H3Reusable, "h3" \notin suspect
  PROVE  MadeH3 /\ HoldsItsTensors("h3") /\ ConfigDescribes("h3")
  <1>1. MadeH3
    BY StagesAre DEF H3Reusable, Complete, ChainInv, CompleteIsWhole, MadeH3, MadeWith,
                      SourceStages
  <1>2. dir["h3"].index = IndexH3(Pinned) /\ dir["h3"].config = ModelOpt("NVFP4")
    BY <1>1 DEF MadeH3, Whole, IndexOf, ConfigOf
  <1>3. Index("h3") = IndexH3(Pinned)
    BY <1>2 DEF Index
  <1>4. Expected("h3") = ExpectedH3
    BY DEF Expected, ExpectedH3
  <1>5. /\ DOMAIN ExpectedH3 = OfModelOpt
        /\ DOMAIN IndexH3(Pinned) = OfModelOpt
        /\ \A k \in OfModelOpt : /\ IndexH3(Pinned)[k] \in NamesH3
                                 /\ k \in DOMAIN HoldsH3(IndexH3(Pinned)[k])
                                 /\ HoldsH3(IndexH3(Pinned)[k])[k] = ExpectedH3[k]
    BY H3Right
  <1>6. \A n \in NamesH3 : Read("h3", n) = HoldsH3(n)
    BY <1>1, ReadsH3
  <1>7. HoldsItsTensors("h3")
    BY <1>3, <1>4, <1>5, <1>6 DEF HoldsItsTensors
  <1>8. ConfigDescribes("h3")
    BY <1>2, <1>3, <1>5, ModelOptConfig
  <1> QED BY <1>1, <1>7, <1>8

\* So is an H4 on such an H3, in every variant.
LEMMA H4Usable ==
  ASSUME ChainInv, suspect \cap {"h4", "h3"} = {}, H3Reusable,
         dir["h4"].manifest.status = "complete"
  PROVE  /\ MadeH4(dir["h4"].manifest.variant)
         /\ HoldsItsTensors("h4") /\ ConfigDescribes("h4")
  <1> DEFINE v == dir["h4"].manifest.variant
             I == IndexH4(v)
             names == NamesH3 \cup DOMAIN Deltas(v)
  <1>1. MadeH4(v)
    BY H3Usable, StagesAre DEF ChainInv, CompleteIsWhole, MadeH4
  <1>2. dir["h4"].index = I /\ dir["h4"].config = ModelOpt("NVFP4")
    BY <1>1 DEF MadeH4, Whole, IndexOf, ConfigOf
  <1>3. Index("h4") = I
    BY <1>2 DEF Index
  <1>4. Expected("h4") = ExpectedH4(v)
    BY DEF Expected, ExpectedH4
  <1>5. /\ DOMAIN I = OfModelOpt
        /\ \A k \in OfModelOpt : /\ I[k] \in names
                                 /\ k \in DOMAIN HoldsH4(v, I[k])
                                 /\ HoldsH4(v, I[k])[k] = ExpectedH4(v)[k]
    BY H4Right
  <1>6. \A n \in names : Read("h4", n) = HoldsH4(v, n)
    BY <1>1, ReadsH4
  <1>7. DOMAIN ExpectedH4(v) = OfModelOpt
    BY ExpectedH4Is
  <1> HIDE DEF v, I, names
  <1>8. HoldsItsTensors("h4")
    BY <1>3, <1>4, <1>5, <1>6, <1>7 DEF HoldsItsTensors
  <1>9. ConfigDescribes("h4")
    BY <1>2, <1>3, <1>5, ModelOptConfig
  <1> QED BY <1>1, <1>8, <1>9 DEF v

\* Valid goes through the stages of the chain up to the one that is asked for.
LEMMA ValidIs ==
  /\ \A s \in Stages : Valid(s) => H3Reusable
  /\ Valid("h5") => Complete("h4", Orca) /\ Complete("h5", Wanted.h5)
  /\ Valid("h6") => /\ Complete("h4", Orca) /\ Complete("h5", Wanted.h5)
                    /\ Complete("h6", Wanted.h6)
  <1>1. /\ DOMAIN Chain = 1..4 /\ Chain[1] = "h3" /\ Chain[2] = "h4" /\ Chain[3] = "h5"
        /\ Chain[4] = "h6" /\ Wanted["h4"] = Orca /\ Wanted["h5"] = Wanted.h5
        /\ Wanted["h6"] = Wanted.h6
    BY DEF Chain, Wanted, Orca
  <1>2. ASSUME NEW i \in 1..4, NEW j \in 1..4, i <= j, Valid(Chain[j])
        PROVE  Complete(Chain[i], Wanted[Chain[i]])
    BY <1>1, <1>2 DEF Valid
  <1>3. ASSUME Valid("h5")
        PROVE  Complete("h4", Orca) /\ Complete("h5", Wanted.h5)
    <2>1. Complete(Chain[2], Wanted[Chain[2]]) /\ Complete(Chain[3], Wanted[Chain[3]])
      BY <1>1, <1>2, <1>3
    <2> QED BY <1>1, <2>1
  <1>4. ASSUME Valid("h6")
        PROVE  Complete("h4", Orca) /\ Complete("h5", Wanted.h5) /\ Complete("h6", Wanted.h6)
    <2>1. /\ Complete(Chain[2], Wanted[Chain[2]]) /\ Complete(Chain[3], Wanted[Chain[3]])
          /\ Complete(Chain[4], Wanted[Chain[4]])
      BY <1>1, <1>2, <1>4
    <2> QED BY <1>1, <2>1
  <1>5. \A s \in Stages : Valid(s) => H3Reusable
    BY DEF Valid
  <1> QED BY <1>3, <1>4, <1>5

\* The last two stages have the same tensors.
LEMMA H5Holds ==
  ASSUME NEW s \in {"h5", "h6"}, Index(s) = IndexH5,
         \A n \in NamesH3 \cup DOMAIN Deltas(Orca) \cup DOMAIN NeutralFiles :
           Read(s, n) = HoldsH5(n)
  PROVE  HoldsItsTensors(s)
  <1>1. Expected(s) = ExpectedH5
    BY DEF Expected, ExpectedH5, ExpectedH4, Orca
  <1> DEFINE names == NamesH3 \cup DOMAIN Deltas(Orca) \cup DOMAIN NeutralFiles
  <1>2. /\ DOMAIN ExpectedH5 = OfModelOpt /\ DOMAIN IndexH5 = OfModelOpt
        /\ \A k \in OfModelOpt : /\ IndexH5[k] \in names
                                 /\ k \in DOMAIN HoldsH5(IndexH5[k])
                                 /\ HoldsH5(IndexH5[k])[k] = ExpectedH5[k]
    BY H5Right
  <1>3. \A n \in names : Read(s, n) = HoldsH5(n)
    OBVIOUS
  <1> HIDE DEF names
  <1> QED BY <1>1, <1>2, <1>3 DEF HoldsItsTensors

\* So is an H5 when the chain up to it is complete.
LEMMA H5Usable ==
  ASSUME ChainInv, suspect \cap {"h5", "h4", "h3"} = {}, H3Reusable, Complete("h4", Orca),
         Complete("h5", Wanted.h5)
  PROVE  MadeH5 /\ HoldsItsTensors("h5") /\ ConfigDescribes("h5")
  <1>1. MadeH5
    BY H4Usable, StagesAre DEF ChainInv, CompleteIsWhole, Complete, MadeH5
  <1>2. Index("h5") = IndexH5 /\ dir["h5"].config = ModelOpt("NVFP4")
    BY <1>1 DEF MadeH5, Whole, IndexOf, ConfigOf, Index
  <1>3. HoldsItsTensors("h5")
    BY <1>1, <1>2, ReadsH5, H5Holds
  <1>4. ConfigDescribes("h5")
    BY <1>2, H5Right, ModelOptConfig
  <1> QED BY <1>1, <1>3, <1>4

\* So is an H6 when all of the chain is.
LEMMA H6Usable ==
  ASSUME ChainInv, suspect \cap {"h6", "h5", "h4", "h3"} = {}, H3Reusable,
         Complete("h4", Orca), Complete("h5", Wanted.h5), Complete("h6", Wanted.h6)
  PROVE  HoldsItsTensors("h6") /\ ConfigDescribes("h6")
  <1>1. MadeH6
    BY H5Usable, StagesAre DEF ChainInv, CompleteIsWhole, Complete, MadeH6
  <1>2. Index("h6") = IndexH5 /\ dir["h6"].config = ModelOpt("W4A16_NVFP4")
    BY <1>1 DEF MadeH6, Whole, IndexOf, ConfigOf, Index
  <1>3. HoldsItsTensors("h6")
    BY <1>1, <1>2, ReadsH6, H5Holds
  <1>4. ConfigDescribes("h6")
    BY <1>2, H5Right, ModelOptConfig
  <1> QED BY <1>3, <1>4

\* The stages that a lineage goes through.
LEMMA TrustedAre ==
  /\ Trusted("bf16") => "bf16" \notin suspect
  /\ Trusted("h3") => "h3" \notin suspect
  /\ Trusted("h4") => suspect \cap {"h4", "h3"} = {}
  /\ Trusted("h5") => suspect \cap {"h5", "h4", "h3"} = {}
  /\ Trusted("h6") => suspect \cap {"h6", "h5", "h4", "h3"} = {}
  <1>1. \A s \in DOMAIN Lineage : Trusted(s) => \A i \in DOMAIN Lineage[s] : Lineage[s][i] \notin suspect
    BY DEF Trusted, ToSet
  <1> QED BY <1>1 DEF Lineage

\* The invariant says what every accepted stage holds.
LEMMA AcceptedFromInv ==
  ChainInv => AcceptedStageIsWhole /\ ConfigFitsTensors
  <1> SUFFICES ASSUME ChainInv
               PROVE  AcceptedStageIsWhole /\ ConfigFitsTensors
    OBVIOUS
  <1>1. ASSUME NEW s \in Stages, Usable(s), Trusted(s)
        PROVE  HoldsItsTensors(s) /\ ConfigDescribes(s)
    <2>1. s \in {"bf16", "h3", "h4", "h5", "h6"}
      BY StagesAre
    <2>2. CASE s = "bf16"
      BY <1>1, <2>2, TrustedAre, BFUsable
    <2>3. CASE s = "h3"
      <3>1. H3Reusable
        BY <1>1, <2>3 DEF Usable, Valid
      <3> QED BY <1>1, <2>3, <3>1, TrustedAre, H3Usable
    <2>4. CASE s = "h4"
      <3>1. H3Reusable /\ dir["h4"].manifest.status = "complete"
        BY <1>1, <2>4 DEF Usable, Valid
      <3> QED BY <1>1, <2>4, <3>1, TrustedAre, H4Usable
    <2>5. CASE s = "h5"
      <3>1. Valid("h5")
        BY <1>1, <2>5 DEF Usable
      <3> QED BY <1>1, <2>5, <3>1, TrustedAre, ValidIs, H5Usable
    <2>6. CASE s = "h6"
      <3>1. Valid("h6")
        BY <1>1, <2>6 DEF Usable
      <3> QED BY <1>1, <2>6, <3>1, TrustedAre, ValidIs, H6Usable
    <2> QED BY <2>1, <2>2, <2>3, <2>4, <2>5, <2>6
  <1> QED BY <1>1 DEF AcceptedStageIsWhole, ConfigFitsTensors
-----------------------------------------------------------------------------
(* What holds of every run, whatever the layout of the shards, the revisions of *)
(* the overlay and the builds that were killed.                                *)

(* A stage that says it is complete and is not suspect is exactly what its tools
   make of the two sources, file by file; a build on a stage that is not doubtful
   has written what is no longer on its list, and one on a doubtful stage makes
   its own suspect (build of the five tools). *)
THEOREM ChainOnCourse == Spec => []ChainInv
  <1>1. ChainInv /\ [Next]_vars => ChainInv'
    BY ChainInductive
  <1> QED BY <1>1, ChainStarts, PTL DEF Spec

(* Every accepted stage of which no stage it links to is suspect holds the tensors
   it promises, through all its links (build of the five tools,
   validate-orcarouter-hybrid.py). *)
THEOREM AcceptedStagesAreWhole == Spec => []AcceptedStageIsWhole
  <1>1. ChainInv => AcceptedStageIsWhole
    BY AcceptedFromInv
  <1> QED BY <1>1, ChainOnCourse, PTL

(* And its config says of its tensors what the loader will find: the FP8 targets are
   the modules with a scale, and ModelOpt's layout has all four tensors of every
   expert (target_modules, validate_quantization_configs). *)
THEOREM AcceptedConfigsFit == Spec => []ConfigFitsTensors
  <1>1. ChainInv => ConfigFitsTensors
    BY AcceptedFromInv
  <1> QED BY <1>1, ChainOnCourse, PTL
-----------------------------------------------------------------------------
(* Where the directories are. *)

\* After the rename and before it has been undone.
Moved == {"link_root", "unlink_legacy", "link_legacy", "inspect",
          "undo_root", "undo_legacy", "undo_rename"}

\* The place of a relocation is the place of the root.
RootPlaced ==
  /\ relocation.at \in Moved => "destination" \in exists
  /\ relocation.at = "undo_link" =>
       "source" \in exists /\ "destination" \notin exists /\ ~linked

\* ./model never points into a destination that is not there.
Pointed ==
  /\ legacy # "to_elsewhere"
  /\ relocation.found \notin {"to_elsewhere", "to_destination"}
  /\ legacy = "to_destination" =>
       "destination" \in exists /\ relocation.at # "undo_rename"

\* The complete checkpoint of a migration is still at ./model, or in a root.
Kept ==
  /\ migration.at # "idle" =>
       \/ legacy = "complete"
       \/ ~LegacyIsDir /\ \E r \in Roots : root[r]["orca"] = "complete"
  /\ migration.at = "aside" /\ migration.backup # NoName => legacy = "complete"

LocationsSafe == TypeOK /\ RootPlaced /\ Pointed /\ Kept

-----------------------------------------------------------------------------
(* Types. *)

\* The names and roots of the code are among those of the model.
LEMMA NamesType ==
  /\ "orca" \in Directories /\ "stage" \in Directories
  /\ BackupNames \subseteq Directories
  /\ NoName \notin BackupNames /\ "orca" \notin BackupNames
  /\ Source \in Roots
  BY BackupsAssumption DEF Directories, Source, Roots

\* Every set of numbers has a least one: the sets 1..i are ordered as the i are.
LEMMA LeastNumber ==
  ASSUME NEW S \in SUBSET Nat, S # {}
  PROVE  \E i \in S : \A j \in S : i <= j
  <1> DEFINE Upto == {1..i : i \in S}
  <1>1. \A i \in S : 1..i \in FiniteSubsetsOf(Nat)
    <2> TAKE i \in S
    <2>1. IsFiniteSet(1..i) BY FS_Interval
    <2>2. QED BY <2>1 DEF FiniteSubsetsOf
  <1>2. Upto \subseteq FiniteSubsetsOf(Nat) /\ Upto # {}
    BY <1>1
  <1>3. PICK T \in Upto : \A U \in Upto : <<U, T>> \notin StrictSubsetOrdering(Nat)
    <2> HIDE DEF Upto
    <2>1. IsWellFoundedOn(StrictSubsetOrdering(Nat), FiniteSubsetsOf(Nat))
      BY FS_StrictSubsetOrderingWellFounded
    <2>2. QED BY <1>2, <2>1, WFMin
  <1>4. PICK i \in S : T = 1..i
    OBVIOUS
  <1>5. ASSUME NEW j \in S, j < i PROVE FALSE
    <2>1. 1..j \subseteq 1..i /\ i \in 1..i /\ i \notin 1..j
      BY <1>5
    <2>2. <<1..j, 1..i>> \in StrictSubsetOrdering(Nat)
      BY <2>1 DEF StrictSubsetOrdering
    <2>3. QED BY <1>3, <1>4, <2>2
  <1>6. QED BY <1>5

\* The backup that the migration chooses is one of the names.
LEMMA BackupType == FreeBackup # {} => BackupCandidate \in BackupNames
  <1> SUFFICES ASSUME FreeBackup # {} PROVE BackupCandidate \in BackupNames
    OBVIOUS
  <1>1. FreeBackup \in SUBSET Nat /\ FreeBackup \subseteq DOMAIN Backups
    BY BackupsAssumption DEF FreeBackup
  <1>2. \E i \in FreeBackup : \A j \in FreeBackup : i <= j
    BY <1>1, LeastNumber
  <1>3. QED BY <1>1, <1>2 DEF BackupCandidate, BackupNames

\* The initial states have the types.
LEMMA LocationsTypeInit == LocationsInit => TypeOK
  <1> SUFFICES ASSUME LocationsInit PROVE TypeOK
    OBVIOUS
  <1> USE NamesType DEF LocationsInit, TypeOK
  <1>1. PICK orca \in Contents :
          root = [r \in Roots |-> IF r = "source" THEN [NoRoot EXCEPT !["orca"] = orca]
                                  ELSE NoRoot]
    OBVIOUS
  <1>2. NoRoot \in [Directories -> Contents] BY DEF NoRoot, Contents
  <1>3. root \in [Roots -> [Directories -> Contents]] BY <1>1, <1>2
  <1>4. \A r \in Roots : root[r] # NoRoot => r \in exists BY <1>1
  <1>5. QED BY <1>3, <1>4 DEF Roots

\* A directory that gets a new content keeps the type of the roots.
LEMMA RootType ==
  ASSUME TypeOK, NEW r \in Roots, NEW n \in Directories, NEW c \in Contents,
         root' = [root EXCEPT ![r][n] = c], exists' = exists \cup {r}
  PROVE  /\ root' \in [Roots -> [Directories -> Contents]]
         /\ \A q \in Roots : root'[q] # NoRoot => q \in exists'
  <1>1. root[r] \in [Directories -> Contents] BY DEF TypeOK
  <1>2. [root[r] EXCEPT ![n] = c] \in [Directories -> Contents] BY <1>1
  <1>3. root' = [root EXCEPT ![r] = [root[r] EXCEPT ![n] = c]] BY DEF TypeOK
  <1>4. QED BY <1>2, <1>3 DEF TypeOK

\* No step leaves them.
LEMMA LocationsTypeStep == TypeOK /\ [LocationsNext]_locationVars => TypeOK'
  <1> SUFFICES ASSUME TypeOK, [LocationsNext]_locationVars PROVE TypeOK'
    OBVIOUS
  <1>n. NoRoot \in [Directories -> Contents] BY DEF NoRoot, Contents
  <1> USE DEF TypeOK, places, MigrationGoes, RelocationGoes
  <1>1. CASE Migrate
    <2>1. CASE PlanMigration
      <3>1. PICK backup \in BackupNames \cup {NoName} :
              migration' = [at |-> "aside", backup |-> backup]
        BY <2>1, BackupType DEF PlanMigration, MoveAccepted
      <3>2. QED BY <2>1, <3>1 DEF PlanMigration
    <2>2. CASE MoveAside
      <3>1. CASE migration.backup = NoName
        BY <2>2, <3>1, NamesType DEF MoveAside, Source
      <3>2. CASE migration.backup # NoName
        <4>1. migration.backup \in Directories BY <3>2, NamesType
        <4>2. root[Source] \in [Directories -> Contents] /\ Canonical \in Contents
          BY NamesType DEF Canonical
        <4> DEFINE new == [root[Source] EXCEPT ![migration.backup] = Canonical,
                                               !["orca"] = "none"]
        <4>3. new \in [Directories -> Contents] BY <4>1, <4>2 DEF Contents
        <4>4. root' = [root EXCEPT ![Source] = new] BY <2>2, <3>2 DEF MoveAside
        <4> HIDE DEF new
        <4>5. /\ exists' = exists \cup {Source}
              /\ UNCHANGED <<linked, legacy, serving, relocation>>
          BY <2>2 DEF MoveAside
        <4>6. migration' = [at |-> "move", backup |-> migration.backup]
          BY <2>2 DEF MoveAside
        <4>7. linked' => "source" \notin exists' BY <4>5 DEF Source
        <4>8. QED BY <4>3, <4>4, <4>5, <4>6, <4>7, NamesType
      <3>3. QED BY <3>1, <3>2
    <2>3. CASE MoveCheckpoint
      <3>1. CASE LegacyReaches
        <4>1. exists' = exists \cup {Source} /\ legacy \in Contents
          BY <2>3, <3>1 DEF MoveCheckpoint, LegacyIsDir
        <4>2. /\ root' \in [Roots -> [Directories -> Contents]]
              /\ \A q \in Roots : root'[q] # NoRoot => q \in exists'
          BY <2>3, <3>1, <4>1, RootType, NamesType DEF MoveCheckpoint
        <4>3. QED BY <2>3, <3>1, <4>2 DEF MoveCheckpoint, Contents
      <3>2. CASE ~LegacyReaches BY <2>3, <3>2 DEF MoveCheckpoint
      <3>3. QED BY <3>1, <3>2
    <2>4. CASE LinkLegacy BY <2>4 DEF LinkLegacy, LinkTargets
    <2>5. CASE MigrationEnds BY <2>5 DEF MigrationEnds
    <2>6. QED BY <1>1, <2>1, <2>2, <2>3, <2>4, <2>5 DEF Migrate
  <1>2. CASE Relocate
    <2>1. CASE PlanRelocation
      <3>1. PICK to \in {"link_root", "rename"}, again \in BOOLEAN :
              relocation' = [at |-> to, found |-> "none", again |-> again]
        BY <2>1 DEF PlanRelocation
      <3>2. QED BY <2>1, <3>1 DEF PlanRelocation
    <2>2. CASE RenameRoot
      <3>1. root' \in [Roots -> [Directories -> Contents]] BY <1>n, <2>2 DEF RenameRoot, Roots
      <3>2. exists' \in SUBSET Roots BY <2>2 DEF RenameRoot, Roots
      <3>3. \A r \in Roots : root'[r] # NoRoot => r \in exists'
        BY <1>n, <2>2 DEF RenameRoot, Roots
      <3>4. relocation'.found \in LinkTargets \cup {"none"} /\ relocation'.at = "link_root"
        BY <2>2 DEF RenameRoot, LegacyIsLink
      <3>5. QED BY <2>2, <3>1, <3>2, <3>3, <3>4 DEF RenameRoot, LegacyIsLink
    <2>3. CASE LinkRoot BY <2>3 DEF LinkRoot
    <2>4. CASE UnlinkLegacy BY <2>4 DEF UnlinkLegacy, Contents
    <2>5. CASE RelinkLegacy BY <2>5 DEF RelinkLegacy, LinkTargets
    <2>6. CASE InspectMoved BY <2>6 DEF InspectMoved
    <2>7. CASE RelocationFails BY <2>7 DEF RelocationFails
    <2>8. CASE UndoRootLink BY <2>8 DEF UndoRootLink
    <2>9. CASE UndoLegacyLink BY <2>9 DEF UndoLegacyLink, Contents
    <2>10. CASE UndoRename
      <3>1. root' \in [Roots -> [Directories -> Contents]] BY <1>n, <2>10 DEF UndoRename, Roots
      <3>2. exists' \in SUBSET Roots BY <2>10 DEF UndoRename, Roots
      <3>3. \A r \in Roots : root'[r] # NoRoot => r \in exists'
        BY <1>n, <2>10 DEF UndoRename, Roots
      <3>4. QED BY <2>10, <3>1, <3>2, <3>3 DEF UndoRename
    <2>11. CASE UndoLegacyLoss BY <2>11 DEF UndoLegacyLoss
    <2>12. CASE RelocationDies BY <2>12 DEF RelocationDies
    <2>13. QED BY <1>2, <2>1, <2>2, <2>3, <2>4, <2>5, <2>6, <2>7, <2>8, <2>9, <2>10,
      <2>11, <2>12 DEF Relocate
  <1>3. CASE Download
    <2>1. PICK n \in Directories, c \in Contents : Keep(Source, n, c)
      BY <1>3, NamesType DEF Download, Contents
    <2>2. exists' = exists \cup {Source} BY <1>3 DEF Download
    <2>3. /\ root' \in [Roots -> [Directories -> Contents]]
          /\ \A q \in Roots : root'[q] # NoRoot => q \in exists'
      BY <2>1, <2>2, RootType, NamesType DEF Keep
    <2>4. linked' => "source" \notin exists' BY <1>3 DEF Download, Source
    <2>5. QED BY <1>3, <2>2, <2>3, <2>4, NamesType DEF Download
  <1>4. CASE ContainerStarts BY <1>4, NamesType DEF ContainerStarts
  <1>5. CASE ContainerStops BY <1>5 DEF ContainerStops
  <1>6. CASE UNCHANGED locationVars BY <1>6 DEF locationVars
  <1>7. QED BY <1>1, <1>2, <1>3, <1>4, <1>5, <1>6 DEF LocationsNext, Around

\* The variables keep their types, whichever steps of the two tools overlap: a root
\* is never a directory and a link at once.
THEOREM LocationsTypeCorrect == LocationsSpec => []TypeOK
  BY LocationsTypeInit, LocationsTypeStep, PTL DEF LocationsSpec

-----------------------------------------------------------------------------
(* The invariant. *)

\* Nothing has been moved or linked at first.
LEMMA LocationsSafeInit == LocationsInit => LocationsSafe
  <1> SUFFICES ASSUME LocationsInit PROVE LocationsSafe
    OBVIOUS
  <1>1. TypeOK BY LocationsTypeInit
  <1>2. legacy \in Contents BY DEF LocationsInit
  <1>3. RootPlaced /\ Pointed /\ Kept
    BY <1>2 DEF LocationsInit, RootPlaced, Pointed, Kept, Moved, Contents
  <1>4. QED BY <1>1, <1>3 DEF LocationsSafe

\* No step takes the root away from under a relocation.
LEMMA PlacedStep == LocationsSafe /\ [LocationsNext]_locationVars => RootPlaced'
  <1> SUFFICES ASSUME LocationsSafe, [LocationsNext]_locationVars PROVE RootPlaced'
    OBVIOUS
  <1> USE DEF LocationsSafe, TypeOK, RootPlaced, Moved, places, RelocationGoes
  <1>1. CASE Migrate
    BY <1>1 DEF Migrate, PlanMigration, MoveAside, MoveCheckpoint, LinkLegacy,
      MigrationEnds, Source
  <1>2. CASE Relocate
    <2>1. CASE PlanRelocation BY <2>1 DEF PlanRelocation, AlreadyRelocated
    <2>2. CASE RenameRoot BY <2>2 DEF RenameRoot
    <2>3. CASE LinkRoot BY <2>3 DEF LinkRoot
    <2>4. CASE UnlinkLegacy BY <2>4 DEF UnlinkLegacy
    <2>5. CASE RelinkLegacy BY <2>5 DEF RelinkLegacy
    <2>6. CASE InspectMoved BY <2>6 DEF InspectMoved
    <2>7. CASE RelocationFails BY <2>7 DEF RelocationFails
    <2>8. CASE UndoRootLink BY <2>8 DEF UndoRootLink
    <2>9. CASE UndoLegacyLink BY <2>9 DEF UndoLegacyLink
    <2>10. CASE UndoRename BY <2>10 DEF UndoRename
    <2>11. CASE UndoLegacyLoss BY <2>11 DEF UndoLegacyLoss
    <2>12. CASE RelocationDies BY <2>12 DEF RelocationDies
    <2>13. QED BY <1>2, <2>1, <2>2, <2>3, <2>4, <2>5, <2>6, <2>7, <2>8, <2>9, <2>10,
      <2>11, <2>12 DEF Relocate
  <1>3. CASE Around
    BY <1>3 DEF Around, Download, ContainerStarts, ContainerStops, Source
  <1>4. CASE UNCHANGED locationVars BY <1>4 DEF locationVars
  <1>5. QED BY <1>1, <1>2, <1>3, <1>4 DEF LocationsNext

\* No step leaves a link into a destination that has gone.
LEMMA PointedStep == LocationsSafe /\ [LocationsNext]_locationVars => Pointed'
  <1> SUFFICES ASSUME LocationsSafe, [LocationsNext]_locationVars PROVE Pointed'
    OBVIOUS
  <1> USE DEF LocationsSafe, TypeOK, RootPlaced, Moved, Pointed, places, RelocationGoes
  <1>1. CASE Migrate
    BY <1>1 DEF Migrate, PlanMigration, MoveAside, MoveCheckpoint, LinkLegacy,
      MigrationEnds, Source
  <1>2. CASE Relocate
    <2>1. CASE PlanRelocation BY <2>1 DEF PlanRelocation
    <2>2. CASE RenameRoot BY <2>2 DEF RenameRoot
    <2>3. CASE LinkRoot BY <2>3 DEF LinkRoot
    <2>4. CASE UnlinkLegacy BY <2>4 DEF UnlinkLegacy
    <2>5. CASE RelinkLegacy BY <2>5 DEF RelinkLegacy
    <2>6. CASE InspectMoved BY <2>6 DEF InspectMoved
    <2>7. CASE RelocationFails BY <2>7 DEF RelocationFails
    <2>8. CASE UndoRootLink BY <2>8 DEF UndoRootLink
    <2>9. CASE UndoLegacyLink BY <2>9 DEF UndoLegacyLink, LegacyIsLink, LinkTargets
    <2>10. CASE UndoRename BY <2>10 DEF UndoRename
    <2>11. CASE UndoLegacyLoss BY <2>11 DEF UndoLegacyLoss
    <2>12. CASE RelocationDies BY <2>12 DEF RelocationDies
    <2>13. QED BY <1>2, <2>1, <2>2, <2>3, <2>4, <2>5, <2>6, <2>7, <2>8, <2>9, <2>10,
      <2>11, <2>12 DEF Relocate
  <1>3. CASE Around
    BY <1>3 DEF Around, Download, ContainerStarts, ContainerStops, Source
  <1>4. CASE UNCHANGED locationVars BY <1>4 DEF locationVars
  <1>5. QED BY <1>1, <1>2, <1>3, <1>4 DEF LocationsNext

\* No step loses the complete checkpoint of a migration.
LEMMA KeptStep == LocationsSafe /\ [LocationsNext]_locationVars => Kept'
  <1> SUFFICES ASSUME LocationsSafe, [LocationsNext]_locationVars PROVE Kept'
    OBVIOUS
  <1> USE DEF LocationsSafe, TypeOK, Kept, LegacyIsDir, Contents, LinkTargets, Roots, places,
    RelocationGoes, MigrationGoes
  <1>1. CASE Migrate
    <2>1. CASE PlanMigration
      BY <2>1, NamesType
        DEF PlanMigration, OnlyLinkMissing, MoveAccepted, CompleteCheckpoint, Canonical
    <2>2. CASE MoveAside
      <3>1. CASE migration.backup = NoName BY <2>2, <3>1 DEF MoveAside
      <3>2. CASE migration.backup # NoName BY <2>2, <3>2 DEF MoveAside
      <3>3. QED BY <3>1, <3>2
    <2>3. CASE MoveCheckpoint
      <3>1. CASE LegacyReaches
        BY <2>3, <3>1, NamesType DEF MoveCheckpoint
      <3>2. CASE ~LegacyReaches BY <2>3, <3>2 DEF MoveCheckpoint
      <3>3. QED BY <3>1, <3>2
    <2>4. CASE LinkLegacy BY <2>4 DEF LinkLegacy
    <2>5. CASE MigrationEnds BY <2>5 DEF MigrationEnds
    <2>6. QED BY <1>1, <2>1, <2>2, <2>3, <2>4, <2>5 DEF Migrate
  <1>2. CASE Relocate
    <2>1. CASE PlanRelocation BY <2>1 DEF PlanRelocation
    <2>2. CASE RenameRoot BY <2>2 DEF RenameRoot, NoRoot
    <2>3. CASE LinkRoot BY <2>3 DEF LinkRoot
    <2>4. CASE UnlinkLegacy BY <2>4 DEF UnlinkLegacy
    <2>5. CASE RelinkLegacy BY <2>5 DEF RelinkLegacy
    <2>6. CASE InspectMoved BY <2>6 DEF InspectMoved
    <2>7. CASE RelocationFails BY <2>7 DEF RelocationFails
    <2>8. CASE UndoRootLink BY <2>8 DEF UndoRootLink
    <2>9. CASE UndoLegacyLink BY <2>9 DEF UndoLegacyLink, LegacyIsLink
    <2>10. CASE UndoRename BY <2>10 DEF UndoRename, NoRoot
    <2>11. CASE UndoLegacyLoss BY <2>11 DEF UndoLegacyLoss
    <2>12. CASE RelocationDies BY <2>12 DEF RelocationDies
    <2>13. QED BY <1>2, <2>1, <2>2, <2>3, <2>4, <2>5, <2>6, <2>7, <2>8, <2>9, <2>10,
      <2>11, <2>12 DEF Relocate
  <1>3. CASE Download
    BY <1>3, NamesType DEF Download, Keep, Canonical
  <1>4. CASE ContainerStarts \/ ContainerStops
    BY <1>4 DEF ContainerStarts, ContainerStops
  <1>5. CASE UNCHANGED locationVars BY <1>5 DEF locationVars
  <1>6. QED BY <1>1, <1>2, <1>3, <1>4, <1>5 DEF LocationsNext, Around

\* Every reachable state satisfies the inductive invariant.
THEOREM LocationsSafeHolds == LocationsSpec => []LocationsSafe
  <1>1. LocationsSafe /\ [LocationsNext]_locationVars => LocationsSafe'
    BY LocationsTypeStep, PlacedStep, PointedStep, KeptStep DEF LocationsSafe
  <1>2. QED BY <1>1, LocationsSafeInit, PTL DEF LocationsSpec

\* A migration that was killed, or that failed, anywhere can be run again.
THEOREM MigrationsCanResume == LocationsSpec => []MigrationCanResume
  <1>1. LocationsSafe => MigrationCanResume
    <2> SUFFICES ASSUME LocationsSafe,
                        migration.at # "idle", serving = "nothing",
                        ~linked, "destination" \notin exists,
                        legacy = "complete" => FreeBackup # {},
                        ~(legacy = "complete" /\ Canonical \in {"complete", "broken"})
                 PROVE  PlanAccepted
      BY DEF MigrationCanResume
    <2> USE DEF LocationsSafe, TypeOK, CompleteCheckpoint
    <2>1. Source = "source" BY DEF Source
    <2>2. Canonical \in Contents
      BY <2>1, NamesType DEF Canonical, Roots
    <2>3. CASE legacy = "complete"
      <3>1. Canonical \in {"none", "downloading"} BY <2>2, <2>3 DEF Contents
      <3>2. QED
        BY <2>1, <2>3, <3>1 DEF PlanAccepted, MoveAccepted, MountedBy, CanonicalExists
    <2>4. CASE legacy # "complete"
      <3>1. ~LegacyIsDir /\ \E r \in Roots : root[r]["orca"] = "complete"
        BY <2>4 DEF Kept
      <3>2. root["destination"] = NoRoot BY DEF Roots
      <3>3. root["source"]["orca"] = "complete"
        BY <3>1, <3>2, NamesType DEF Roots, NoRoot
      <3>4. "source" \in exists /\ Canonical = "complete"
        BY <2>1, <3>3, NamesType DEF Roots, NoRoot, Canonical
      <3>5. legacy \in {"none", "to_canonical"}
        BY <3>1 DEF Pointed, LegacyIsDir, LinkTargets
      <3>6. QED
        BY <2>1, <3>4, <3>5
          DEF PlanAccepted, AlreadyMigrated, OnlyLinkMissing, CanonicalExists
    <2>5. QED BY <2>3, <2>4
  <1>2. QED BY <1>1, LocationsSafeHolds, PTL

\* A relocation that fails after the rename ends where it began.
THEOREM FailedMovesAreUndone == LocationsSpec => FailedMoveIsUndone
  <1> DEFINE Undone ==
        relocation.at = "undo_link" /\ relocation'.at = "restored" =>
          /\ "source" \in exists' /\ "destination" \notin exists' /\ ~linked'
          /\ (relocation.found # "none" => legacy' = relocation.found)
  <1>1. LocationsSafe /\ [LocationsNext]_locationVars => [Undone]_locationVars
    <2> SUFFICES ASSUME LocationsSafe, LocationsNext,
                        relocation.at = "undo_link", relocation'.at = "restored"
                 PROVE  Undone
      OBVIOUS
    <2>1. CASE UndoLegacyLoss
      BY <2>1 DEF UndoLegacyLoss, LocationsSafe, RootPlaced
    <2>2. CASE Relocate /\ ~UndoLegacyLoss
      BY <2>2
        DEF Relocate, PlanRelocation, Settled, RenameRoot, LinkRoot, UnlinkLegacy,
          RelinkLegacy, InspectMoved, RelocationFails, UndoRootLink, UndoLegacyLink,
          UndoRename, RelocationDies, RelocationGoes, LocationsSafe, TypeOK
    <2>3. CASE Migrate \/ Around
      BY <2>3
        DEF Migrate, PlanMigration, MoveAside, MoveCheckpoint, LinkLegacy, MigrationEnds,
          Around, Download, ContainerStarts, ContainerStops
    <2>4. QED BY <2>1, <2>2, <2>3 DEF LocationsNext, Relocate
  <1>2. QED BY <1>1, LocationsSafeHolds, PTL DEF LocationsSpec, FailedMoveIsUndone

-----------------------------------------------------------------------------
(* Moving loses nothing. *)

\* Where the roots hold a content.
PlacesOf(content) == {p \in Roots \X Directories : root[p[1]][p[2]] = content}

\* There are finitely many places.
LEMMA HoldingFinite == \A c : IsFiniteSet(PlacesOf(c))
  <1>1. IsFiniteSet(BackupNames)
    <2>1. IsFiniteSet(DOMAIN Backups) BY BackupsAssumption, FS_Interval
    <2>2. Backups \in Surjection(DOMAIN Backups, BackupNames)
      BY BackupsAssumption DEF Surjection, BackupNames
    <2>3. QED BY <2>1, <2>2, FS_Surjection
  <1>2. IsFiniteSet((BackupNames \cup {"orca"}) \cup {"stage"})
    BY <1>1, FS_AddElement
  <1>3. IsFiniteSet(Directories)
    <2>1. Directories = (BackupNames \cup {"orca"}) \cup {"stage"} BY DEF Directories
    <2>2. QED BY <1>2, <2>1
  <1>4. IsFiniteSet(Roots)
    <2>1. Roots = {"source"} \cup {"destination"} BY DEF Roots
    <2>2. QED BY <2>1, FS_Singleton, FS_AddElement
  <1>5. IsFiniteSet(Roots \X Directories) BY <1>3, <1>4, FS_Product
  <1>6. TAKE c
  <1>7. PlacesOf(c) \in SUBSET (Roots \X Directories) BY DEF PlacesOf
  <1>8. QED BY <1>5, <1>7, FS_Subset

\* A directory renamed to a free name is counted as before.
LEMMA RenamedCount ==
  ASSUME TypeOK, NEW r \in Roots, NEW m \in Directories, NEW n \in Directories,
         root[r][m] # "none", root[r][n] = "none", UNCHANGED legacy,
         root' = [root EXCEPT ![r] = [@ EXCEPT ![n] = root[r][m], ![m] = "none"]],
         NEW c \in Contents \ {"none"}
  PROVE  Count(c)' = Count(c)
  <1>1. /\ root \in [Roots -> [Directories -> Contents]]
        /\ root[r] \in [Directories -> Contents]
    BY DEF TypeOK
  <1>2. \A q \in Roots, k \in Directories :
          root'[q][k] = IF q # r THEN root[q][k]
                        ELSE IF k = m THEN "none"
                        ELSE IF k = n THEN root[r][m] ELSE root[q][k]
    BY <1>1
  <1>3. CASE root[r][m] # c
    <2>1. PlacesOf(c)' = PlacesOf(c) BY <1>1, <1>2, <1>3 DEF PlacesOf
    <2>2. QED BY <2>1 DEF Count, PlacesOf
  <1>4. CASE root[r][m] = c
    <2> DEFINE rest == PlacesOf(c) \ {<<r, m>>}
    <2>1. <<r, m>> \in PlacesOf(c) /\ <<r, n>> \notin PlacesOf(c)
      BY <1>4 DEF PlacesOf
    <2>2. PlacesOf(c)' = rest \cup {<<r, n>>} BY <1>1, <1>2, <1>4 DEF PlacesOf
    <2>3. IsFiniteSet(PlacesOf(c)) BY HoldingFinite
    <2>4. IsFiniteSet(rest) /\ Cardinality(rest) = Cardinality(PlacesOf(c)) - 1
      BY <2>1, <2>3, FS_RemoveElement
    <2>5. Cardinality(PlacesOf(c)') = Cardinality(rest) + 1
      BY <2>1, <2>2, <2>4, FS_AddElement
    <2>6. Cardinality(PlacesOf(c)) \in Nat BY <2>3, FS_CardinalityType
    <2>7. Cardinality(PlacesOf(c)') = Cardinality(PlacesOf(c)) BY <2>4, <2>5, <2>6
    <2>8. QED BY <2>7 DEF Count, PlacesOf
  <1>5. QED BY <1>3, <1>4

\* The checkpoint that is moved from ./model is counted where it comes.
LEMMA MovedCount ==
  ASSUME TypeOK, NEW r \in Roots, NEW n \in Directories,
         legacy \in Contents \ {"none"}, root[r][n] = "none",
         root' = [root EXCEPT ![r][n] = legacy], legacy' = "none",
         NEW c \in Contents \ {"none"}
  PROVE  Count(c)' = Count(c)
  <1>1. /\ root \in [Roots -> [Directories -> Contents]]
        /\ root[r] \in [Directories -> Contents]
    BY DEF TypeOK
  <1>2. \A q \in Roots, k \in Directories :
          root'[q][k] = IF q = r /\ k = n THEN legacy ELSE root[q][k]
    BY <1>1
  <1>3. CASE legacy # c
    <2>1. PlacesOf(c)' = PlacesOf(c) BY <1>1, <1>2, <1>3 DEF PlacesOf
    <2>2. QED BY <1>3, <2>1 DEF Count, PlacesOf
  <1>4. CASE legacy = c
    <2>1. <<r, n>> \notin PlacesOf(c) BY DEF PlacesOf
    <2>2. PlacesOf(c)' = PlacesOf(c) \cup {<<r, n>>} BY <1>1, <1>2, <1>4 DEF PlacesOf
    <2>3. IsFiniteSet(PlacesOf(c)) BY HoldingFinite
    <2>4. Cardinality(PlacesOf(c)') = Cardinality(PlacesOf(c)) + 1
      BY <2>1, <2>2, <2>3, FS_AddElement
    <2>5. Cardinality(PlacesOf(c)) \in Nat BY <2>3, FS_CardinalityType
    <2>6. QED BY <1>4, <2>4, <2>5 DEF Count, PlacesOf
  <1>5. QED BY <1>3, <1>4

\* A root that is renamed takes everything with it.
LEMMA RootCount ==
  ASSUME TypeOK, NEW from \in Roots, NEW to \in Roots, from # to,
         root[to] = NoRoot, root'[from] = NoRoot, root'[to] = root[from],
         UNCHANGED legacy, NEW c \in Contents \ {"none"}
  PROVE  Count(c)' = Count(c)
  <1>1. \A r \in Roots : r = from \/ r = to BY DEF Roots
  <1>2. \A n \in Directories : root[to][n] # c /\ root'[from][n] # c BY DEF NoRoot
  <1> DEFINE f == [p \in PlacesOf(c) |-> <<to, p[2]>>]
  <1>3. \A p \in PlacesOf(c) : p = <<from, p[2]>> /\ p[2] \in Directories /\ root[from][p[2]] = c
    BY <1>1, <1>2 DEF PlacesOf
  <1>4. \A p \in PlacesOf(c)' : p = <<to, p[2]>> /\ p[2] \in Directories /\ root[from][p[2]] = c
    BY <1>1, <1>2 DEF PlacesOf
  <1>5. \A n \in Directories : root[from][n] = c =>
          <<from, n>> \in PlacesOf(c) /\ <<to, n>> \in PlacesOf(c)'
    BY DEF PlacesOf
  <1>6. f \in [PlacesOf(c) -> PlacesOf(c)']
    BY <1>3, <1>5
  <1>7. \A p, q \in PlacesOf(c) : f[p] = f[q] => p = q
    BY <1>3
  <1>8. \A q \in PlacesOf(c)' : \E p \in PlacesOf(c) : f[p] = q
    <2> TAKE q \in PlacesOf(c)'
    <2>1. <<from, q[2]>> \in PlacesOf(c) BY <1>4, <1>5
    <2>2. f[<<from, q[2]>>] = q BY <1>4, <2>1
    <2>3. QED BY <2>1, <2>2
  <1>9. ExistsBijection(PlacesOf(c), PlacesOf(c)')
    <2> HIDE DEF f
    <2>1. f \in Injection(PlacesOf(c), PlacesOf(c)')
      BY <1>6, <1>7 DEF Injection, IsInjective
    <2>2. f \in Surjection(PlacesOf(c), PlacesOf(c)')
      BY <1>6, <1>8 DEF Surjection
    <2>3. QED BY <2>1, <2>2 DEF ExistsBijection, Bijection
  <1>10. Cardinality(PlacesOf(c)') = Cardinality(PlacesOf(c))
    BY <1>9, HoldingFinite, FS_Bijection
  <1>11. QED BY <1>10 DEF Count, PlacesOf

\* Whatever the two tools do to each other, and wherever they are stopped, no
\* checkpoint is lost: neither a complete one nor one that is being downloaded.
THEOREM NothingIsLost == LocationsSpec => NothingLost
  <1> DEFINE Kind == Contents \ {"none"}
  <1> DEFINE Same == Migrate \/ Relocate => \A c \in Kind : Count(c)' = Count(c)
  <1>1. TypeOK /\ [LocationsNext]_locationVars => [Same]_locationVars
    <2> SUFFICES ASSUME TypeOK, NEW c \in Kind, Migrate \/ Relocate
                 PROVE  Count(c)' = Count(c)
      OBVIOUS
    <2>s. UNCHANGED root /\ (legacy = c <=> legacy' = c) => Count(c)' = Count(c)
      BY DEF Count
    <2> USE DEF places, LegacyIsDir, Contents, LinkTargets
    <2>1. CASE MoveAside
      <3>1. CASE migration.backup = NoName
        BY <2>1, <2>s, <3>1 DEF MoveAside
      <3>2. CASE migration.backup # NoName
        <4>1. migration.backup \in Directories BY <3>2, NamesType DEF TypeOK
        <4>2. QED
          BY <2>1, <3>2, <4>1, NamesType, RenamedCount
            DEF MoveAside, CanonicalExists, Canonical
      <3>3. QED BY <3>1, <3>2
    <2>2. CASE MoveCheckpoint
      <3>1. CASE LegacyReaches
        BY <2>2, <3>1, NamesType, MovedCount DEF MoveCheckpoint, Canonical
      <3>2. CASE ~LegacyReaches BY <2>2, <2>s, <3>2 DEF MoveCheckpoint
      <3>3. QED BY <3>1, <3>2
    <2>3. CASE PlanMigration \/ LinkLegacy \/ MigrationEnds
      BY <2>3, <2>s DEF PlanMigration, LinkLegacy, MigrationEnds
    <2>4. CASE RenameRoot
      <3>1. "source" \in Roots /\ "destination" \in Roots BY DEF Roots
      <3>2. root["destination"] = NoRoot BY <2>4, <3>1 DEF RenameRoot, TypeOK
      <3>3. root'["source"] = NoRoot /\ root'["destination"] = root["source"]
        BY <2>4, <3>1 DEF RenameRoot, TypeOK
      <3>4. QED BY <2>4, <3>1, <3>2, <3>3, RootCount DEF RenameRoot
    <2>5. CASE UndoRename
      <3>1. "source" \in Roots /\ "destination" \in Roots BY DEF Roots
      <3>2. root'["destination"] = NoRoot /\ root'["source"] = root["destination"]
        BY <2>5, <3>1 DEF UndoRename, TypeOK
      <3>3. QED BY <2>5, <3>1, <3>2, RootCount DEF UndoRename
    <2>6. CASE PlanRelocation \/ LinkRoot \/ InspectMoved \/ RelocationFails
               \/ UndoRootLink \/ RelocationDies
      BY <2>6, <2>s
        DEF PlanRelocation, LinkRoot, InspectMoved, RelocationFails, UndoRootLink,
          RelocationDies
    <2>7. CASE UnlinkLegacy \/ RelinkLegacy \/ UndoLegacyLink
      BY <2>7, <2>s DEF UnlinkLegacy, RelinkLegacy, UndoLegacyLink, LegacyIsLink, TypeOK
    <2>8. CASE UndoLegacyLoss
      BY <2>8, <2>s DEF UndoLegacyLoss, TypeOK
    <2>9. QED
      BY <2>1, <2>2, <2>3, <2>4, <2>5, <2>6, <2>7, <2>8 DEF Migrate, Relocate
  <1>2. QED BY <1>1, LocationsTypeCorrect, PTL DEF LocationsSpec, NothingLost
=============================================================================
