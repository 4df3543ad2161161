---------------------------- MODULE CanonicalOrder ----------------------------
(***************************************************************************)
(* The repair of the token order in the Marlin experts.  Each pass of a    *)
(* layer groups its routed tokens by expert, in blocks of one expert each, *)
(* padded to full blocks; the kernel leaves the tokens of an expert in any *)
(* order and the rest of its buffer as it was.  The patches sort the       *)
(* tokens within each expert before the weights are applied.  The recorder *)
(* of the probe compares two passes and says if only that order differs.   *)
(***************************************************************************)
EXTENDS Integers, FiniteSets, SequencesExt

CONSTANTS
  Experts,      \* the experts of this rank, numbers from 0 on
  MaxTokens,    \* bound on the routed tokens of a pass
  BlockSizes,   \* the block sizes that the kernel chooses from
  Garbage       \* what the buffer may hold after the last block

ASSUME OrderAssumption ==
  /\ Experts \subseteq Nat /\ IsFiniteSet(Experts) /\ Experts # {}
  /\ MaxTokens \in Nat \ {0} /\ BlockSizes \subseteq Nat \ {0} /\ Garbage \subseteq Nat

VARIABLES
  build,    \* the patch that is installed, with its scope
  layer,    \* the layer whose passes are looked at
  fill,     \* the expert that the kernel names for blocks that are not used
  previous, \* the pass that the recorder kept
  pass      \* the latest pass

vars == <<build, layer, fill, previous, pass>>

Builds == {"minimal", "decoder", "off", "target", "all"}
Untagged == -1
Target == 15
Layers == {Untagged, 14, Target}
Elsewhere == -1
NoPass == [routing |-> <<>>, block |-> 0,
           given |-> <<>>, sorted |-> <<>>, experts |-> <<>>, post |-> 0]

Times(n, x) == [i \in 1..n |-> x]
RoundUp(n, b) == ((n + b - 1) \div b) * b

-------------------------------------------------------------------------------
(* moe_align_block_size: token t, counted from 0, is routed to routing[t + 1].
   Tokens whose expert is on another rank are left out. *)

TokensOf(routing, e) == {t \in 0..(Len(routing) - 1) : routing[t + 1] = e}
Used(routing) == SetToSortSeq({e \in Experts : TokensOf(routing, e) # {}}, <)

\* How the kernel may leave the buffer: order[e] are the tokens of e.
Orders(routing) ==
  {order \in [ToSet(Used(routing)) -> UNION {SetToSeqs(TokensOf(routing, e)) : e \in Experts}] :
     \A e \in DOMAIN order : ToSet(order[e]) = TokensOf(routing, e)}

Padded(tokens, block, total) == tokens \o Times(RoundUp(Len(tokens), block) - Len(tokens), total)

\* The blocks of all experts, each with the tokens in the order given for it.
Grouped(routing, block, order) ==
  FlattenSeq([i \in DOMAIN Used(routing) |-> Padded(order[Used(routing)[i]], block, Len(routing))])

BlockExperts(routing, block) ==
  FlattenSeq([i \in DOMAIN Used(routing) |->
    LET e == Used(routing)[i]
    IN Times(RoundUp(Cardinality(TokensOf(routing, e)), block) \div block, e)])

Capacity(routing, block) == Len(routing) + Cardinality(Experts) * (block - 1)

Aligned(routing, block, order, garbage) ==
  LET grouped == Grouped(routing, block, order)
      experts == BlockExperts(routing, block)
      capacity == Capacity(routing, block)
  IN [sorted |-> grouped \o Times(capacity - Len(grouped), garbage),
      experts |-> experts \o Times((RoundUp(capacity, block) \div block) - Len(experts), fill),
      post |-> Len(grouped)]

-------------------------------------------------------------------------------
(* _qwen38_canonicalize_marlin_sorted_tokens: a stable sort by group and
   token of the full blocks; positions count from 0 as in the code. *)

Repairs ==
  CASE build = "minimal" -> TRUE
    [] build \in {"decoder", "all"} -> layer >= 0
    [] build = "target" -> layer = Target
    [] build = "off" -> FALSE

\* Successive blocks of one expert have the same rank.
GroupRank(experts, k) == Cardinality({i \in 2..k : experts[i] # experts[i - 1]})

\* MUTANT: the position after the last valid one is sorted with them.
IsValidOrNext(position, post) == position <= post
IsValid(position, post) == position < post

Key(sorted, experts, post, block, total, position) ==
  LET blocks == Len(sorted) \div block
      base == total + 1
      token == sorted[position + 1]
      group == GroupRank(experts, (position \div block) + 1)
  IN IF IsValid(position, post) THEN group * base + (IF token \in 0..(total - 1) THEN token ELSE total)
     ELSE (GroupRank(experts, blocks) + 2) * base + position

Canonicalize(sorted, experts, post, block, total) ==
  LET prefix == (Len(sorted) \div block) * block
      key == [p \in 1..prefix |-> Key(sorted, experts, post, block, total, p - 1)]
      order == SortSeq([p \in 1..prefix |-> p],
                       LAMBDA p, q : key[p] < key[q] \/ (key[p] = key[q] /\ p < q))
  IN IF prefix = 0 \/ Len(experts) < prefix \div block THEN sorted
     ELSE [p \in 1..Len(sorted) |-> sorted[IF p <= prefix THEN order[p] ELSE p]]

-------------------------------------------------------------------------------
(* The recorder's comparison of two passes (commit, sorted_detail and
   expert_layout_detail). *)

Recorded == build \in {"off", "target", "all"} /\ layer = Target

Valid(p) == SubSeq(p.sorted, 1, p.post)
Count(p, e, t) ==
  Cardinality({i \in 1..p.post : p.experts[((i - 1) \div p.block) + 1] = e /\ p.sorted[i] = t})

\* MUTANT: the tokens of all experts are compared together.
SameTokens(p, q) ==
  /\ Len(p.routing) = Len(q.routing) /\ p.post = q.post /\ p.block = q.block
  /\ \A t \in 0..(Len(p.routing) - 1) : (t \in ToSet(Valid(p))) = (t \in ToSet(Valid(q)))

\* Each expert has the same tokens, in whatever order.
SameMembership(p, q) ==
  /\ Len(p.routing) = Len(q.routing) /\ p.post = q.post /\ p.block = q.block
  /\ \A e \in ToSet(p.experts) \cup ToSet(q.experts), t \in 0..(Len(p.routing) - 1) :
       Count(p, e, t) = Count(q, e, t)

ValidEqual(p, q) ==
  Len(p.sorted) = Len(q.sorted) /\ p.post = q.post /\ Valid(p) = Valid(q)

\* alignment_order_only_divergence
OrderOnly(p, q) ==
  /\ ~ValidEqual(p, q)
  /\ SameMembership(p, q)
  /\ p.experts = q.experts /\ p.post = q.post
  /\ p.block = q.block

-------------------------------------------------------------------------------
Init ==
  /\ build \in Builds /\ layer \in Layers /\ fill \in {Elsewhere, 0}
  /\ previous = NoPass /\ pass = NoPass

Routings == UNION {[1..n -> Experts \cup {Elsewhere}] : n \in 1..MaxTokens}

(* A pass of the layer: align, repair where the patch does, record.  Two
   passes are enough for every comparison. *)
Pass ==
  /\ previous = NoPass
  /\ previous' = IF Recorded THEN pass ELSE previous
  /\ \E routing \in Routings :
       \E order \in Orders(routing), block \in BlockSizes, garbage \in Garbage :
         LET a == Aligned(routing, block, order, garbage)
         IN pass' = [routing |-> routing, block |-> block, given |-> a.sorted,
                     sorted |-> IF Repairs
                                THEN Canonicalize(a.sorted, a.experts, a.post, block, Len(routing))
                                ELSE a.sorted,
                     experts |-> a.experts, post |-> a.post]
  /\ UNCHANGED <<build, layer, fill>>

Next == Pass

Spec == Init /\ [][Next]_vars
-------------------------------------------------------------------------------
Canonical(routing, block) ==
  Grouped(routing, block,
          [e \in ToSet(Used(routing)) |-> SetToSortSeq(TokensOf(routing, e), <)])

(* Where a patch repairs a layer, the order that the weights are applied in
   is a function of the routing alone: the tokens of each expert ascending,
   its padding after them, whatever order the kernel left and whatever the
   buffer holds after the last block, which stays in its place
   (_qwen38_canonicalize_marlin_sorted_tokens; the tests only look for its
   text in the patched file). *)
RepairedOrderIsCanonical ==
  pass # NoPass /\ Repairs =>
    /\ Valid(pass) = Canonical(pass.routing, pass.block)
    /\ \A p \in (pass.post + 1)..Len(pass.given) : pass.sorted[p] = pass.given[p]

(* The recorder reports a divergence of the order alone for exactly the pairs
   of passes that have the same routing and blocks and apply the weights in
   different orders: a token of another expert, another count or an unused
   part of the buffer never looks like one, and where the recorded layer is
   repaired there is none (alignment_order_only_divergence of
   _qwen38_h20m_commit). *)
OrderOnlyIsExact ==
  previous # NoPass =>
    /\ OrderOnly(previous, pass) <=>
         /\ previous.routing = pass.routing /\ previous.block = pass.block
         /\ Valid(previous) # Valid(pass)
    /\ Repairs => ~OrderOnly(previous, pass)
===============================================================================
