---------------------------- MODULE CheckpointChain ----------------------------
(***************************************************************************)
(* The hybrid checkpoints.  prepare-hybrid-checkpoint.py makes one with    *)
(* BF16 modules of mazinb (overlay) in OrcaRouter (base); a chain of four  *)
(* tools makes the installer's one, each stage a thin delta on the one     *)
(* before: H3 takes mazinb's layout and experts, H4 puts OrcaRouter's      *)
(* experts back under mazinb's names, H5 neutralises the input scales, H6  *)
(* changes the config.  What a stage does not rewrite is a symbolic link   *)
(* to the stage before, so a tensor is found through the index of the last *)
(* stage and up to five directories.  A build writes file after file into  *)
(* its directory and may be killed in between; prepare-orcarouter-hybrid.sh*)
(* reuses what validate-orcarouter-hybrid.py accepts.                      *)
(***************************************************************************)
EXTENDS Naturals, FiniteSets, SequencesExt

CONSTANTS
  Group0,          \* modules that are FP8 in the base and BF16 in the overlay
  Residual,        \* those of them that write to the residual stream
  Shards,          \* numbers of the shards of base and overlay
  BaseShard,       \* the shard of each tensor of the base
  OverlayShard,    \* the same for each revision of the overlay
  Together,        \* bound: the sets of stages that may exist side by side
  MaxStops,        \* bound: how many builds fail or are killed
  MaxLost          \* bound: how many entries a build that is killed while it
                   \* empties its stage has removed

\* f, and g where f says nothing.
Over(f, g) == [x \in DOMAIN f \cup DOMAIN g |-> IF x \in DOMAIN f THEN f[x] ELSE g[x]]

Experts == {"down", "gate", "up"}
Weight(M) == M \X {"weight"}
Scale(M) == M \X {"scale"}
BaseExpert == Experts \X {"packed", "scale", "global"}
OverlayExpert == Experts \X {"weight", "scale", "scale2", "input"}
InputScales == Experts \X {"input"}
Others == Weight({"mtp", "rest"})
BaseKeys == Weight(Group0) \cup Scale(Group0) \cup BaseExpert \cup Others
OverlayKeys == Weight(Group0) \cup OverlayExpert

Revisions == DOMAIN OverlayShard
Pinned == "pinned"

ASSUME ChainAssumption ==
  /\ Residual \subseteq Group0 /\ Group0 \cap (Experts \cup {"mtp", "rest"}) = {}
  /\ Shards \subseteq Nat
  /\ BaseShard \in [BaseKeys -> Shards]
  /\ \A r \in Revisions : OverlayShard[r] \in [OverlayKeys -> Shards]
  /\ MaxStops \in Nat /\ MaxLost \in Nat

Chain == <<"h3", "h4", "h5", "h6">>
Stages == ToSet(Chain) \cup {"bf16"}
Dirs == Stages \cup {"base"}
Parent == [bf16 |-> "base", h3 |-> "base", h4 |-> "h3", h5 |-> "h4", h6 |-> "h5"]

VARIABLES
  base,      \* the base is there
  overlay,   \* the revision of the overlay, or "none"
  globals,   \* "paired", "unpaired" or "zero": OrcaRouter's global scales
  dir,       \* the stages' directories
  job,       \* the tool that runs and what it has still to write
  chain,     \* where prepare-orcarouter-hybrid.sh is
  stops,     \* how many builds were cut short
  suspect    \* history: the stages that were half emptied, or made of such a
             \* stage or of an H3 with another revision than the pinned one

vars == <<base, overlay, globals, dir, job, chain, stops, suspect>>

Config(method, algo, M) == [method |-> method, algo |-> algo, targets |-> M]
Empty == [files |-> <<>>, index |-> <<>>, config |-> Config("none", "none", {}),
          manifest |-> [status |-> "none", variant |-> "none", overlay |-> "none"]]
NoJob == [stage |-> "none", variant |-> "none", todo |-> <<>>]

\* Shards are named by what made them and the shard they come from.
Name(kind, s) == <<kind, s>>
Link == [kind |-> "link", holds |-> <<>>]
File(kind, holds) == [kind |-> kind, holds |-> holds]
From(where, key) == <<where, key>>

NonEmpty(d) == dir[d] # Empty
Index(d) == IF d = "base" THEN [k \in BaseKeys |-> Name("", BaseShard[k])] ELSE dir[d].index
Names(d) ==
  IF d = "base" THEN {Name("", s) : s \in Shards} ELSE DOMAIN dir[d].files
Complete(d, variant) ==
  dir[d].manifest.status = "complete" /\ dir[d].manifest.variant = variant /\ Index(d) # <<>>

-------------------------------------------------------------------------------
(* What each tool writes *)

KeysIn(s) == {k \in BaseKeys : BaseShard[k] = s}
Holding(keys, shard) == {shard[k] : k \in keys}

\* prepare-hybrid-checkpoint.py, target_modules
Modules(variant) == IF variant = "residual-bf16" THEN Residual ELSE Group0

\* A rewritten shard of the base: scales and experts out, BF16 weights in.
Rewritten(M, removed, s) ==
  [k \in KeysIn(s) \ (Scale(M) \cup removed) |->
     IF k \in Weight(M) THEN From(overlay, k) ELSE From("base", k)]

Rewrites(M, removed) ==
  [n \in {Name("", s) : s \in Holding(Weight(M) \cup Scale(M) \cup removed, BaseShard)} |->
     Rewritten(M, removed, n[2])]

\* The overlay's experts, in files of their own.
Extracts ==
  LET shard == OverlayShard[overlay]
  IN [n \in {Name("expert", s) : s \in Holding(OverlayExpert, shard)} |->
        [k \in {e \in OverlayExpert : shard[e] = n[2]} |-> From(overlay, k)]]

\* prepare-h4-expert-ab.py, selected_modules
Selected(variant) ==
  CASE variant = "h4-orca-down" -> {"down"}
    [] variant = "h4-orca-gate-up" -> {"gate", "up"}
    [] OTHER -> Experts

SelectedKeys(variant) == {k \in BaseExpert : k[1] \in Selected(variant)}

\* OrcaRouter's names become ModelOpt's.
Renamed(k) ==
  <<k[1], CASE k[2] = "packed" -> "weight" [] k[2] = "global" -> "scale2" [] OTHER -> k[2]>>

Normalized(k) == From(IF k[2] = "global" THEN "reciprocal" ELSE "base", k)

Deltas(variant) ==
  [n \in {Name("h4", s) : s \in Holding(SelectedKeys(variant), BaseShard)} |->
     LET keys == {k \in SelectedKeys(variant) : BaseShard[k] = n[2]}
     IN [d \in {Renamed(k) : k \in keys} |->
           Normalized(CHOOSE k \in keys : Renamed(k) = d)]]

Neutral ==
  [n \in {Name("h5", Index("h4")[k]) : k \in InputScales} |->
     [k \in {i \in InputScales : Index("h4")[i] = n[2]} |-> From("ones", k)]]

NewFiles(stage, variant) ==
  CASE stage = "bf16" -> Rewrites(Modules(variant), {})
    [] stage = "h3" -> Over(Rewrites(Group0, BaseExpert), Extracts)
    [] stage = "h4" -> Deltas(variant)
    [] stage = "h5" -> Neutral
    [] OTHER -> <<>>

\* The file of each tensor that is in one of the new files.
Placed(files) ==
  [k \in UNION {DOMAIN files[n] : n \in DOMAIN files} |->
     CHOOSE n \in DOMAIN files : k \in DOMAIN files[n]]
Without(index, keys) == Restrict(index, DOMAIN index \ keys)

Bf16Index(variant) == Without(Index("base"), Scale(Modules(variant)))

\* MUTANT: the base's experts are dropped last, and the scales of both with them.
H3IndexDropLast ==
  Without(Over(Placed(Extracts), Index("base")), BaseExpert \cup Scale(Group0))

H3Index == Over(Placed(Extracts), Without(Index("base"), BaseExpert \cup Scale(Group0)))
H4Index(variant) == Over(Placed(Deltas(variant)), Index("h3"))
H5Index == Over(Placed(Neutral), Index("h4"))

NewIndex(stage, variant) ==
  CASE stage = "bf16" -> Bf16Index(variant)
    [] stage = "h3" -> H3Index
    [] stage = "h4" -> H4Index(variant)
    [] stage = "h5" -> H5Index
    [] OTHER -> Index("h5")

\* The quantization config: the FP8 targets that are left, or ModelOpt's.
FP8(M) == Config("compressed-tensors", "none", M)
ModelOpt(algo) == Config("modelopt", algo, {})

\* MUTANT: the targets stay as the base has them.
Bf16ConfigUnchanged(variant) == FP8(Group0)

Bf16Config(variant) == FP8(Group0 \ Modules(variant))
H3Config == ModelOpt("NVFP4")
H6Config == [dir["h5"].config EXCEPT !.algo = "W4A16_NVFP4"]

NewConfig(stage, variant) ==
  CASE stage = "bf16" -> Bf16Config(variant)
    [] stage = "h3" -> H3Config
    [] stage = "h6" -> H6Config
    [] OTHER -> dir[Parent[stage]].config

\* The writes of a build in the order of its tool, those of a loop together.
Each(what, names) == IF names = {} THEN <<>> ELSE <<[what |-> what, names |-> names]>>
One(what) == Each(what, {"none"})
NewShards(stage, variant) == Each("shard", DOMAIN NewFiles(stage, variant))
Links(stage, variant) == Each("link", Names(Parent[stage]) \ DOMAIN NewFiles(stage, variant))

\* From the two sources: a manifest that says "building" comes first.
SourceWrites(stage, variant) ==
  One("clear") \o One("building") \o NewShards(stage, variant) \o Links(stage, variant) \o
  One("config") \o One("index") \o One("complete")

\* On a stage before: the manifest is written once, at the end.
DeltaWrites(stage, variant) ==
  One("clear") \o NewShards(stage, variant) \o One("config") \o One("index") \o
  Links(stage, variant) \o One("complete")

Writes(stage, variant) ==
  IF stage \in {"bf16", "h3"} THEN SourceWrites(stage, variant) ELSE DeltaWrites(stage, variant)

-------------------------------------------------------------------------------
(* The checks *)

\* The sources have the tensors a tool is going to take from them.
Sources(M) ==
  /\ base /\ overlay # "none"
  /\ Weight(M) \cup Scale(M) \subseteq BaseKeys /\ Weight(M) \subseteq OverlayKeys

Bf16Accepted(variant) == Sources(Modules(variant))
H3Accepted == Sources(Group0) /\ BaseExpert \subseteq BaseKeys /\ OverlayExpert \subseteq OverlayKeys

\* A gate and its up must share the global scale that Marlin fuses.
PairsAgree(variant) == "gate" \in Selected(variant) => globals # "unpaired"

H4Accepted(variant) ==
  /\ base /\ Complete("h3", "quant-layout-mazinb-experts")
  /\ dir["h3"].config.method = "modelopt"
  /\ {Renamed(k) : k \in SelectedKeys(variant)} \cup InputScales \subseteq DOMAIN Index("h3")
  /\ PairsAgree(variant)

H5Accepted ==
  /\ Complete("h4", "h4-orca-all") /\ dir["h4"].config.method = "modelopt"
  /\ InputScales \subseteq DOMAIN Index("h4")

H6Accepted == Complete("h5", "h5-neutral-input-scale") /\ dir["h5"].config = ModelOpt("NVFP4")

Accepted(stage, variant) ==
  CASE stage = "bf16" -> Bf16Accepted(variant)
    [] stage = "h3" -> H3Accepted
    [] stage = "h4" -> H4Accepted(variant)
    [] stage = "h5" -> H5Accepted
    [] OTHER -> H6Accepted

Variants(stage) ==
  CASE stage = "bf16" -> {"residual-bf16", "group0-bf16"}
    [] stage = "h3" -> {"quant-layout-mazinb-experts"}
    [] stage = "h4" -> {"h4-orca-down", "h4-orca-gate-up", "h4-orca-all"}
    [] stage = "h5" -> {"h5-neutral-input-scale"}
    [] OTHER -> {"h6-modelopt-w4a16"}

\* The stage of the chain that the validator wants.
Wanted == [h3 |-> "quant-layout-mazinb-experts", h4 |-> "h4-orca-all",
           h5 |-> "h5-neutral-input-scale", h6 |-> "h6-modelopt-w4a16"]

\* validate_h3_provenance
H3Reusable == Complete("h3", Wanted.h3) /\ dir["h3"].manifest.overlay = Pinned

\* validate --through; the overlay is looked at only when it is there.
Valid(stage) ==
  /\ base /\ H3Reusable
  /\ overlay # "none" => overlay = Pinned
  /\ \A i \in DOMAIN Chain :
       (\E j \in DOMAIN Chain : i <= j /\ Chain[j] = stage) => Complete(Chain[i], Wanted[Chain[i]])
  /\ stage = "h6" => dir["h6"].config = ModelOpt("W4A16_NVFP4")

-------------------------------------------------------------------------------
Init ==
  /\ base = TRUE /\ overlay \in Revisions
  /\ globals \in {"paired", "unpaired", "zero"}
  /\ dir = [s \in Stages |-> Empty]
  /\ job = NoJob /\ chain = "off" /\ stops = 0 /\ suspect = {}

Idle == job = NoJob /\ chain = "off"
Job(stage, variant) == [stage |-> stage, variant |-> variant, todo |-> Writes(stage, variant)]

Fits(new) == \E all \in Together : {s \in Stages : NonEmpty(s)} \cup new \subseteq all

\* One of the tools by hand; clear_output refuses a directory with content
\* unless --force is given.
StartTool(stage, variant, force) ==
  /\ Idle
  /\ Accepted(stage, variant) /\ Fits({stage})
  /\ NonEmpty(stage) => force
  /\ job' = Job(stage, variant)
  /\ UNCHANGED <<base, overlay, globals, dir, chain, stops, suspect>>

\* prepare-orcarouter-hybrid.sh build
StartChain ==
  /\ Idle
  /\ Fits(ToSet(Chain))
  /\ base /\ (H3Reusable \/ overlay # "none") /\ ~Valid("h6")
  /\ chain' = "h3"
  /\ UNCHANGED <<base, overlay, globals, dir, job, stops, suspect>>

After(stage) == IF stage = "h6" THEN "off" ELSE Chain[1 + CHOOSE i \in 1..3 : Chain[i] = stage]

\* require_empty_or_stage: a valid stage is reused, an empty one is built, and
\* anything else ends the script.
ChainStage ==
  /\ chain # "off" /\ job = NoJob
  /\ \/ Valid(chain) /\ chain' = After(chain) /\ UNCHANGED job
     \/ /\ ~Valid(chain) /\ ~NonEmpty(chain) /\ Accepted(chain, Wanted[chain])
        /\ job' = Job(chain, Wanted[chain]) /\ UNCHANGED chain
     \/ /\ ~Valid(chain)
        /\ NonEmpty(chain) \/ ~Accepted(chain, Wanted[chain])
        /\ chain' = "off" /\ UNCHANGED job
  /\ UNCHANGED <<base, overlay, globals, dir, stops, suspect>>

Stage == dir[job.stage]
Put(name, file) == [Stage EXCEPT !.files = Over([n \in {name} |-> file], @)]
Manifest(status) ==
  [status |-> status, variant |-> job.variant,
   overlay |-> IF job.stage \in {"bf16", "h3"} THEN overlay ELSE "none"]

Todo(what) == job.todo # <<>> /\ Head(job.todo).what = what
This == CHOOSE n \in Head(job.todo).names : TRUE
Rest ==
  Each(Head(job.todo).what, Head(job.todo).names \ {This}) \o Tail(job.todo)
Done ==
  /\ job' = [job EXCEPT !.todo = Rest]
  /\ UNCHANGED <<base, overlay, globals, chain, stops>>
Write(what, stage) ==
  Todo(what) /\ dir' = [dir EXCEPT ![job.stage] = stage] /\ Done /\ UNCHANGED suspect

\* What a stage made on d takes over is not what the chain is to have.
Doubtful(d) == d \in suspect \/ (d = "h3" /\ dir["h3"].manifest.overlay # Pinned)

\* clear_output; the stage is made anew, of the one before as that is now.
Clear ==
  /\ Todo("clear")
  /\ dir' = [dir EXCEPT ![job.stage] = Empty]
  /\ suspect' = {s \in suspect \cup {job.stage} :
                   s = job.stage => Doubtful(Parent[job.stage])}
  /\ Done

WriteBuilding == Write("building", [Stage EXCEPT !.manifest = Manifest("building")])

\* save_file opens the shard and fills it; a zero global scale is noticed there.
OpenShard ==
  /\ Todo("shard")
  /\ This \notin DOMAIN Stage.files
  /\ dir' = [dir EXCEPT ![job.stage] = Put(This, File("torn", <<>>))]
  /\ UNCHANGED <<base, overlay, globals, job, chain, stops, suspect>>

FillShard ==
  /\ Todo("shard")
  /\ ~(job.stage = "h4" /\ globals = "zero")
  /\ This \in DOMAIN Stage.files
  /\ dir' = [dir EXCEPT ![job.stage] =
                Put(This, File("whole", NewFiles(job.stage, job.variant)[This]))]
  /\ Done /\ UNCHANGED suspect

WriteLink == Write("link", Put(This, Link))
WriteConfig == Write("config", [Stage EXCEPT !.config = NewConfig(job.stage, job.variant)])
WriteIndex == Write("index", [Stage EXCEPT !.index = NewIndex(job.stage, job.variant)])

\* The manifest is the last file; the script goes on with the next stage.
WriteComplete ==
  /\ Todo("complete")
  /\ dir' = [dir EXCEPT ![job.stage] = [@ EXCEPT !.manifest = Manifest("complete")]]
  /\ job' = NoJob
  /\ chain' = IF chain = "off" THEN "off" ELSE After(chain)
  /\ UNCHANGED <<base, overlay, globals, stops, suspect>>

\* What is left of a stage that is being emptied, in the order of its directory.
Partly ==
  LET entries == DOMAIN Stage.files \cup {<<"config">>, <<"index">>, <<"manifest">>}
  IN {[files |-> Restrict(Stage.files, DOMAIN Stage.files \ gone),
       index |-> IF <<"index">> \in gone THEN Empty.index ELSE Stage.index,
       config |-> IF <<"config">> \in gone THEN Empty.config ELSE Stage.config,
       manifest |-> IF <<"manifest">> \in gone THEN Empty.manifest ELSE Stage.manifest] :
         gone \in {g \in SUBSET entries : Cardinality(g) <= MaxLost}}

\* A failed check, a full disk, or a kill between two writes.
Stop ==
  /\ job # NoJob
  /\ stops < MaxStops \/ (Todo("shard") /\ job.stage = "h4" /\ globals = "zero")
  /\ \E left \in IF Todo("clear") THEN Partly ELSE {Stage} :
       /\ dir' = [dir EXCEPT ![job.stage] = left]
       /\ suspect' = suspect \cup (IF left = Stage THEN {} ELSE {job.stage})
  /\ job' = NoJob /\ chain' = "off"
  /\ stops' = IF stops < MaxStops THEN stops + 1 ELSE stops
  /\ UNCHANGED <<base, overlay, globals>>

\* Between builds the operator removes stages and sources and fetches them again.
RemoveStage(s) ==
  /\ Idle /\ NonEmpty(s)
  /\ dir' = [dir EXCEPT ![s] = Empty] /\ suspect' = suspect \ {s}
  /\ UNCHANGED <<base, overlay, globals, job, chain, stops>>

ChangeSources ==
  /\ Idle
  /\ \/ base' = ~base /\ UNCHANGED overlay
     \/ overlay' \in (Revisions \cup {"none"}) \ {overlay} /\ UNCHANGED base
  /\ UNCHANGED <<globals, dir, job, chain, stops, suspect>>

Tool == \E s \in Stages, force \in BOOLEAN : \E v \in Variants(s) : StartTool(s, v, force)
Build ==
  \/ Clear \/ WriteBuilding \/ OpenShard \/ FillShard
  \/ WriteLink \/ WriteConfig \/ WriteIndex \/ WriteComplete
Next ==
  \/ Tool \/ StartChain \/ ChainStage \/ Build \/ Stop
  \/ (\E s \in Stages : RemoveStage(s)) \/ ChangeSources

Spec == Init /\ [][Next]_vars
-------------------------------------------------------------------------------
(* What a stage is to hold, tensor by tensor, said without shards. *)
BaseTensors(keys) == [k \in keys |-> From("base", k)]
GroupTensors == [k \in Weight(Group0) |-> From(Pinned, k)]
ExpertsOfH3 == [k \in OverlayExpert |-> From(Pinned, k)]
ExpertsOfH4(variant) ==
  Over([k \in {Renamed(b) : b \in SelectedKeys(variant)} |->
          Normalized(CHOOSE b \in BaseExpert : Renamed(b) = k)], ExpertsOfH3)

Expected(stage) ==
  LET variant == dir[stage].manifest.variant
      mixed == [k \in Weight(Modules(variant)) |-> From(dir[stage].manifest.overlay, k)]
      rest == Over(BaseTensors(Others), GroupTensors)
  IN CASE stage = "bf16" -> Over(mixed, BaseTensors(BaseKeys \ Scale(Modules(variant))))
       [] stage = "h3" -> Over(ExpertsOfH3, rest)
       [] stage = "h4" -> Over(ExpertsOfH4(variant), rest)
       [] OTHER -> Over([k \in InputScales |-> From("ones", k)],
                        Over(ExpertsOfH4("h4-orca-all"), rest))

\* A container has every stage of the chain mounted where the links point.
Lineage == [bf16 |-> <<"bf16">>, h3 |-> <<"h3">>, h4 |-> <<"h4", "h3">>,
            h5 |-> <<"h5", "h4", "h3">>, h6 |-> <<"h6", "h5", "h4", "h3">>]
BaseFile(name) == [k \in KeysIn(name[2]) |-> From("base", k)]
Linked(d, name) == name \in DOMAIN dir[d].files /\ dir[d].files[name].kind = "link"
Read(stage, name) ==
  LET at == {i \in DOMAIN Lineage[stage] :
               /\ ~Linked(Lineage[stage][i], name)
               /\ \A j \in 1..(i - 1) : Linked(Lineage[stage][j], name)}
  IN IF at = {} THEN BaseFile(name)
     ELSE LET d == Lineage[stage][CHOOSE i \in at : TRUE]
          IN IF name \in DOMAIN dir[d].files THEN dir[d].files[name].holds ELSE <<>>

Usable(stage) ==
  CASE stage = "bf16" -> base /\ dir["bf16"].manifest.status = "complete"
    [] stage = "h4" -> Valid("h3") /\ dir["h4"].manifest.status = "complete"
    [] OTHER -> Valid(stage)

HoldsItsTensors(stage) ==
  LET index == Index(stage)
  IN /\ DOMAIN index = DOMAIN Expected(stage)
     /\ \A k \in DOMAIN index :
          /\ k \in DOMAIN Read(stage, index[k])
          /\ Read(stage, index[k])[k] = Expected(stage)[k]

ConfigDescribes(stage) ==
  LET config == dir[stage].config
  IN /\ config.targets = {g \in Group0 : <<g, "scale">> \in DOMAIN Index(stage)}
     /\ config.method = "modelopt" <=> OverlayExpert \subseteq DOMAIN Index(stage)

Trusted(stage) == ToSet(Lineage[stage]) \cap suspect = {}

(* A stage that is accepted holds what it promises: its index names every
   tensor it should have and no other, and through all the links each is
   found, whole and from the checkpoint it is to come from, whatever builds
   failed or were killed, removed, forced or mixed with builds by hand and other
   revisions before.  Two things the manifests do not tell are excepted, and
   nothing else: a stage of its lineage was left half emptied by a forced build,
   or was made of such a stage or of an H3 with another revision of the overlay
   (build of the five tools, validate-orcarouter-hybrid.py). *)
AcceptedStageIsWhole == \A s \in Stages : Usable(s) /\ Trusted(s) => HoldsItsTensors(s)

(* The config of an accepted stage describes its tensors, with the same two
   exceptions: exactly the FP8 targets have a scale and, under ModelOpt, every
   expert has the four tensors the loader wants (target_modules,
   validate_quantization_configs). *)
ConfigFitsTensors == \A s \in Stages : Usable(s) /\ Trusted(s) => ConfigDescribes(s)
===============================================================================
