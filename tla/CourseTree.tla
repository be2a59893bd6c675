----------------------------- MODULE CourseTree -----------------------------
(***************************************************************************)
(* The content of one course and everything that rewrites it: building it  *)
(* from an LLM answer (domain/builder.go, modules.go), opening a built-in  *)
(* pack and tailoring it (personalizer.go), extending it (extender.go),    *)
(* auditing and optimizing it (auditor.go, optimizer.go), regenerating it  *)
(* or merging it into a root course with the progress migrated by key or   *)
(* title (compose.go, storage/progress_migrate.go).  Each operation is one *)
(* step here; CourseStore interleaves them.                                *)
(*                                                                         *)
(* A node is a key; keys are numbers, in the order repairModules sorts.    *)
(* What a spec says is how well each of its fields is filled, its          *)
(* prerequisites and whether it names core concepts.  An LLM answer is one *)
(* of the given outputs: names, goals, times and prompts are abstracted.   *)
(***************************************************************************)
EXTENDS Integers, FiniteSets, Sequences, SequencesExt, Places

CONSTANTS
  Keys,           \* node keys, numbers
  Fields,         \* fields of a spec that are looked at
  BuildOutputs,   \* answers to the tree prompt
  ExtendOutputs,  \* answers to the extension prompt
  Selections,     \* answers to the tailoring prompt
  Pack,           \* a built-in course: layers, title, mods, specs
  MaxOffers       \* bound: optimize jobs with patches at a time

VARIABLES
  origin,  \* "none", "generated", "merged", "skill_pack", "personalized"
  tree,    \* tree_json: layers, title, requires, mods
  specs,   \* nodes_json
  chosen,  \* selection_json of a personalized course
  lit,     \* completed rows of user_progress of the course
  offers   \* patches of the optimize jobs that are done, as read back from JSON

treeVars == <<origin, tree, specs, chosen, lit, offers>>

Layers == <<"entry", "intermediate", "advanced">>
\* Ideas may be too few, and beats may miss a concept.
Thinnable == {"exercise_ideas", "teaching_beats"}
Contents == {has \in [Fields -> {"empty", "thin", "full"}] :
               \A f \in Fields \ Thinnable : has[f] # "thin"}

Module == [order : Int, named : BOOLEAN, nodes : SUBSET Keys]

\* What parsing leaves of an answer, or of the files of a pack.
Parsed(out) ==
  out.layers \in [Range(Layers) -> Seq(Keys)] /\ out.mods \in Seq(Module)

ASSUME KeysAssumption ==
  /\ IsFiniteSet(Keys) /\ Keys \subseteq Nat \ {0} /\ MaxOffers \in Nat
  /\ \A out \in BuildOutputs \cup ExtendOutputs \cup {Pack} : Parsed(out)
  /\ \A answer \in Selections : answer.order \in Seq(Keys)
  /\ Fields \subseteq Thinnable \cup {"boundaries", "common_mistakes", "grading_hints"}

NodeSeq(layers) ==
  layers["entry"] \o layers["intermediate"] \o layers["advanced"]
NodesOf(t) == Range(NodeSeq(t.layers))
NoSpecs == [k \in {} |-> 0]

\* The modules that are left when empty ones are dropped; the keys of a layer
\* that are kept.
NonEmpty(mods) == Pick(mods, {i \in DOMAIN mods : mods[i].nodes # {}})
Kept(seq, keys) == Pick(seq, {i \in DOMAIN seq : seq[i] \in keys})
-----------------------------------------------------------------------------
(* Building.                                                               *)

\* A spec without requires never clears those of the tree.
MergeNodeRequires(t, nodes) ==
  [t EXCEPT !.requires =
     [k \in Keys |-> IF /\ k \in NodesOf(t) \cap DOMAIN nodes
                        /\ nodes[k].requires # {}
                     THEN nodes[k].requires ELSE t.requires[k]]]

\* Orphans go to the module with the fewest nodes, then the lowest order.
SmallestModule(mods) ==
  CHOOSE i \in DOMAIN mods : \A j \in DOMAIN mods :
    LET ci == Cardinality(mods[i].nodes)
        cj == Cardinality(mods[j].nodes)
    IN \/ ci < cj
       \/ ci = cj /\ mods[i].order < mods[j].order
       \/ ci = cj /\ mods[i].order = mods[j].order /\ i <= j

AdoptOrphan(mods, k) ==
  IF mods = <<>> THEN mods
  ELSE [mods EXCEPT ![SmallestModule(mods)].nodes = @ \cup {k}]

\* Ghosts and second memberships are dropped, then empty modules.
RepairModules(mods, keys) ==
  LET drafts == [i \in DOMAIN mods |->
        [mods[i] EXCEPT
          !.order = IF @ = 0 THEN i ELSE @,
          !.nodes = {k \in @ \cap keys :
                       \A j \in 1..(i - 1) : k \notin mods[j].nodes}]]
      orphans == keys \ UNION {mods[i].nodes : i \in DOMAIN mods}
      adopted[n \in 0 .. Cardinality(orphans)] ==
        IF n = 0 THEN NonEmpty(drafts)
        ELSE AdoptOrphan(adopted[n - 1], InOrder(orphans)[n])
  IN IF mods = <<>> THEN mods ELSE adopted[Cardinality(orphans)]

PartitionOf(mods, keys) ==
  /\ \A i \in DOMAIN mods : mods[i].nodes # {}
  /\ \A i, j \in DOMAIN mods : i # j => mods[i].nodes \cap mods[j].nodes = {}
  /\ UNION {mods[i].nodes : i \in DOMAIN mods} = keys

ValidateModules(mods, keys) ==
  /\ Len(mods) \in 2..8
  /\ \A i \in DOMAIN mods : mods[i].named
  /\ PartitionOf(mods, keys)

ValidateBuildOutput(out) ==
  LET keys == NodesOf(out)
  IN /\ \A l \in Range(Layers) : out.layers[l] # <<>>
     /\ DOMAIN out.specs = keys
     /\ \A k \in keys : out.specs[k].concepts
     /\ ValidateModules(RepairModules(out.mods, keys), keys)

\* Retries and the critique's second attempt end in some valid output.
GenerateAndValidate == {out \in BuildOutputs : ValidateBuildOutput(out)}

BuiltTree(out) ==
  MergeNodeRequires(
    [layers |-> out.layers, title |-> out.title,
     requires |-> [k \in Keys |-> {}],
     mods |-> RepairModules(out.mods, NodesOf(out))], out.specs)
-----------------------------------------------------------------------------
(* Built-in packs and tailoring.                                           *)

PackTree ==
  [layers |-> Pack.layers, title |-> Pack.title,
   requires |-> [k \in Keys |-> {}], mods |-> Pack.mods]

\* Keys that are no nodes are dropped; nothing left means the first three.
Personalize(answer) ==
  LET all == NodeSeq(Pack.layers)
      cleaned == answer.selected \cap Range(all)
      picked == IF cleaned # {} THEN cleaned ELSE Range(SubSeq(all, 1, 3))
      ordered == Kept(answer.order, picked)
      rest == Kept(all, picked \ Range(ordered))
  IN [selected |-> picked, order |-> ordered \o rest]

ApplySelection(t, sel) ==
  [t EXCEPT
     !.layers = [l \in Range(Layers) |-> Kept(sel.order, Range(t.layers[l]))],
     !.mods = NonEmpty(
       [i \in DOMAIN t.mods |-> [t.mods[i] EXCEPT !.nodes = @ \cap sel.selected]])]

FromPack == origin \in {"skill_pack", "personalized"}

\* What the course page shows: personalized courses are recomputed.
ResolveTree ==
  IF origin = "personalized" THEN ApplySelection(PackTree, chosen) ELSE tree

\* The pack's files win over nodes_json, as a whole ...
LoadDomainNodes == IF FromPack THEN Pack.specs ELSE specs

\* ... except for a single node, which is looked up in both.
HasNode(k) == k \in DOMAIN specs \/ (FromPack /\ k \in DOMAIN Pack.specs)
-----------------------------------------------------------------------------
(* Extending.                                                              *)

InferScopeFromTree(t) ==
  LET n == Len(NodeSeq(t.layers))
  IN IF n <= 9 THEN "narrow" ELSE IF n >= 14 THEN "broad" ELSE "moderate"

ExtendEligible == 5 * Cardinality(lit) >= 4 * Len(NodeSeq(tree.layers))

ExtendNodeLimit(scope, completed, total) ==
  LET scaled == Max({3 + completed \div 5, 3 + total \div 5})
  IN Min({scaled, IF scope = "narrow" THEN 5 ELSE 8})

\* When nodes were cut off, modules keep what is left and the last one adopts
\* the nodes that lost theirs.
FilterExtendModules(mods, kept) ==
  LET out == NonEmpty([i \in DOMAIN mods |-> [mods[i] EXCEPT !.nodes = @ \cap kept]])
      orphans == kept \ UNION {out[i].nodes : i \in DOMAIN out}
  IN IF orphans = {} THEN out
     ELSE IF out = <<>> THEN <<[order |-> 0, named |-> TRUE, nodes |-> orphans]>>
     ELSE [out EXCEPT ![Len(out)].nodes = @ \cup orphans]

\* The accepted part of an answer, given the limit.
ExtendDelta(out, limit) ==
  LET added == NodeSeq(out.layers)
      kept == Range(SubSeq(added, 1, Min({limit, Len(added)})))
  IN [layers |-> [l \in Range(Layers) |-> Kept(out.layers[l], kept)],
      keys |-> kept,
      mods |-> IF Len(added) > limit
               THEN FilterExtendModules(out.mods, kept) ELSE out.mods]

\* The new modules share out the new nodes among them.
ValidateExtendModules(mods, keys) ==
  /\ \A i \in DOMAIN mods : mods[i].named
  /\ PartitionOf(mods, keys)

ValidateExtendOutput(existing, out, limit) ==
  LET added == NodeSeq(out.layers)
      delta == ExtendDelta(out, limit)
  IN /\ added # <<>>
     /\ Cardinality(Range(added)) = Len(added)
     /\ Range(added) \cap existing = {}
     /\ delta.keys \subseteq DOMAIN out.specs
     /\ \A k \in delta.keys : out.specs[k].concepts
     /\ delta.mods # <<>> => ValidateExtendModules(delta.mods, delta.keys)

MergeWithoutAdopting(t, nodes, out, delta) ==    \* mutant: new nodes that come without modules join none
  MergeNodeRequires(
    [t EXCEPT !.layers = [l \in Range(Layers) |-> @[l] \o delta.layers[l]],
              !.mods = @ \o delta.mods], nodes)

MergeExtendIntoTree(t, nodes, out, delta) ==
  LET merged == [t EXCEPT
        !.layers = [l \in Range(Layers) |-> t.layers[l] \o delta.layers[l]],
        !.title = [k \in Keys |->
                     IF k \in delta.keys THEN out.title[k] ELSE t.title[k]],
        !.mods = IF delta.mods # <<>> THEN t.mods \o delta.mods
                 ELSE IF t.mods = <<>> THEN t.mods
                 ELSE [t.mods EXCEPT ![Len(t.mods)].nodes = @ \cup delta.keys]]
  IN MergeNodeRequires(merged, nodes)

WithAllSpecs(nodes, more, keys) ==    \* mutant: every spec of the answer is taken
  [k \in DOMAIN nodes \cup DOMAIN more |-> IF k \in DOMAIN more THEN more[k] ELSE nodes[k]]

WithSpecs(nodes, more, keys) ==
  [k \in DOMAIN nodes \cup keys |-> IF k \in keys THEN more[k] ELSE nodes[k]]
-----------------------------------------------------------------------------
(* Auditing and optimizing.                                                *)

NodeCountBounds(scope) ==
  CASE scope = "narrow" -> 5..9
    [] scope = "broad" -> 12..20
    [] OTHER -> 8..14

ModuleCountBounds(scope) ==
  CASE scope = "narrow" -> 2..3
    [] scope = "broad" -> 3..6
    [] OTHER -> 3..5

LayerBounds == [entry |-> 2..5, intermediate |-> 2..6, advanced |-> 1..5]

\* Without core concepts few fields are missed.
Wanting(spec) ==
  {f \in Fields :
     /\ spec.has[f] # "full"
     /\ \/ spec.concepts \/ f \in {"boundaries", "common_mistakes"}
        \/ f = "teaching_beats" /\ spec.has[f] = "thin"}

\* The concept-by-concept checks are one: beats that do not fit are thin.
CollectStructuredFindings(t, nodes) ==
  LET scope == InferScopeFromTree(t)
      total == Len(NodeSeq(t.layers))
      skewed == {l \in Range(Layers) : /\ t.layers[l] # <<>>
                                       /\ Len(t.layers[l]) \notin LayerBounds[l]}
      structure ==
        (IF total \in NodeCountBounds(scope) THEN {} ELSE {"NODE_COUNT"})
        \cup (IF Len(t.mods) \in ModuleCountBounds(scope) \cup {0}
              THEN {} ELSE {"MODULE_COUNT"})
        \cup skewed
  IN {[code |-> c, node |-> 0, fix |-> "manual"] : c \in structure}
     \cup UNION {{[code |-> f, node |-> k, fix |-> "enrich_node"] :
        f \in Wanting(nodes[k])} : k \in DOMAIN nodes}
     \cup {[code |-> "INVALID_REQUIRES", node |-> k, fix |-> "fix_requires"] :
        k \in {j \in DOMAIN nodes : ~(nodes[j].requires \subseteq DOMAIN nodes)}}

FilterValidRequires(nodes, k) == nodes[k].requires \cap DOMAIN nodes

\* Fields that say something replace those there are, whatever these say.
Overwritten(has, more) ==
  [f \in Fields |-> IF more[f] = "empty" THEN has[f] ELSE more[f]]

NothingSaid == [f \in Fields |-> "empty"]

\* The node after the fix: the LLM was asked about some nodes and gave fields
\* as it liked, whether asked for or not; prerequisites are repaired.
PatchedSpec(nodes, findings, given, k) ==
  [has |-> IF k \in DOMAIN given THEN Overwritten(nodes[k].has, given[k])
           ELSE nodes[k].has,
   requires |-> IF \E f \in findings : f.node = k /\ f.fix = "fix_requires"
                THEN FilterValidRequires(nodes, k) ELSE nodes[k].requires]

\* Nodes whose LLM call failed, and nodes left as they were, get no patch.  A
\* patch has all fields of the node, those that are not changed too.
BuildOptimizePatch(nodes, findings, failed, given) ==
  LET targets == {f.node : f \in findings} \ failed
      changed == {k \in targets :
        \/ k \in DOMAIN given /\ given[k] # NothingSaid
        \/ PatchedSpec(nodes, findings, given, k).requires # nodes[k].requires}
  IN [k \in changed |-> PatchedSpec(nodes, findings, given, k)]

ApplyWholePatch(spec, patch) ==    \* mutant: fields that the patch leaves empty are written too
  [has |-> patch.has,
   requires |-> IF patch.requires = {} THEN spec.requires ELSE patch.requires,
   concepts |-> spec.concepts]

\* Fields empty in the patch leave the spec as it is, and so do prerequisites
\* that the fix emptied: omitempty drops them from the stored patch.
ApplyPatchFields(spec, patch) ==
  [has |-> Overwritten(spec.has, patch.has),
   requires |-> IF patch.requires = {} THEN spec.requires ELSE patch.requires,
   concepts |-> spec.concepts]

ApplyOptimizePatches(nodes, patches, wanted) ==
  [k \in DOMAIN nodes |-> IF k \in wanted
                          THEN ApplyPatchFields(nodes[k], patches[k]) ELSE nodes[k]]
-----------------------------------------------------------------------------
(* Regenerating and merging.                                               *)

KeepsAnyKey(k, valid, old, new) == {k}    \* mutant: a row is moved, valid or not

\* The key itself if it is still valid, else the first valid node of the new
\* tree with the title the key has in the old one.
ResolveMigratedNodeKey(k, valid, old, new) ==
  LET all == NodeSeq(new.layers)
      sameTitle == {i \in DOMAIN all : /\ all[i] \in valid
                                       /\ new.title[all[i]] = old.title[k]}
  IN IF k \in valid THEN {k}
     ELSE IF k \in NodesOf(old) /\ sameTitle # {} THEN {all[Min(sameTitle)]}
     ELSE {}

MigrateBySameKey(done, valid, old, new) == done \cap valid    \* mutant: titles are not looked at

MigrateProgressByNodeKey(done, valid, old, new) ==
  UNION {ResolveMigratedNodeKey(k, valid, old, new) : k \in done}

\* The nodes of the other course join their layers, but no module.
MergeDomainIntoTree(root, other) ==
  LET new(l) == Kept(other.layers[l], Range(other.layers[l]) \ NodesOf(root))
  IN [root EXCEPT
        !.layers = [l \in Range(Layers) |-> root.layers[l] \o new(l)],
        !.title = [k \in Keys |-> IF k \in NodesOf(other) \ NodesOf(root)
                                  THEN other.title[k] ELSE root.title[k]],
        !.requires = [k \in Keys |-> IF k \in NodesOf(other) \ NodesOf(root)
                                     THEN other.requires[k] ELSE root.requires[k]]]
-----------------------------------------------------------------------------
(* The life of a course.                                                   *)

TreeInit ==
  /\ origin = "none"
  /\ tree = [PackTree EXCEPT !.layers = [l \in Range(Layers) |-> <<>>],
                             !.mods = <<>>]
  /\ specs = NoSpecs
  /\ chosen = [selected |-> {}, order |-> <<>>]
  /\ lit = {}
  /\ offers = {}

BuildTree ==
  /\ origin = "none"
  /\ \E out \in GenerateAndValidate :
       tree' = BuiltTree(out) /\ specs' = out.specs
  /\ origin' = "generated"
  /\ UNCHANGED <<chosen, lit, offers>>

\* Without a profile, or when tailoring fails, the pack is stored as it is.
OpenPack ==
  /\ origin = "none"
  /\ origin' = "skill_pack"
  /\ tree' = PackTree
  /\ specs' = Pack.specs
  /\ UNCHANGED <<chosen, lit, offers>>

CreatePersonalizedDomain ==
  /\ origin = "none"
  /\ origin' = "personalized"
  /\ \E answer \in Selections : chosen' = Personalize(answer)
  /\ tree' = ApplySelection(PackTree, chosen')
  /\ UNCHANGED <<specs, lit, offers>>

\* Asking for the same built-in course again with action "merge".
UpdatePersonalizedDomain ==
  /\ FromPack
  /\ origin' = "personalized"
  /\ \E answer \in Selections : chosen' = Personalize(answer)
  /\ tree' = ApplySelection(PackTree, chosen')
  /\ UNCHANGED <<specs, lit, offers>>

LightNodeOf(k) ==
  /\ k \in NodesOf(tree) \ lit
  /\ HasNode(k)
  /\ lit' = lit \cup {k}
  /\ UNCHANGED <<origin, tree, specs, chosen, offers>>

ExtendDomain ==
  /\ origin # "none"
  /\ ExtendEligible
  /\ UNCHANGED <<origin, chosen, lit, offers>>
  /\ \E out \in ExtendOutputs :
       LET limit == ExtendNodeLimit(InferScopeFromTree(tree),
                                    Cardinality(lit), Len(NodeSeq(tree.layers)))
           delta == ExtendDelta(out, limit)
           nodes == WithSpecs(LoadDomainNodes, out.specs, delta.keys)
       IN /\ ValidateExtendOutput(NodesOf(tree), out, limit)
          /\ tree' = MergeExtendIntoTree(tree, nodes, out, delta)
          /\ specs' = nodes

\* An optimize job; it fails when no patch is left and some call failed.
OptimizeDomain ==
  /\ origin # "none"
  /\ Cardinality(offers) < MaxOffers
  /\ LET nodes == LoadDomainNodes
         fixable == {f \in CollectStructuredFindings(tree, nodes) :
                       f.fix # "manual"}
     IN \E findings \in SUBSET fixable \ {{}} :
          LET asked == {f.node : f \in {g \in findings : g.fix = "enrich_node"}}
          IN \E failed \in SUBSET asked : \E given \in [asked \ failed -> Contents] :
               LET patches == BuildOptimizePatch(nodes, findings, failed, given)
               IN /\ DOMAIN patches # {} \/ failed = {}
                  /\ offers' = offers \cup ({patches} \ {NoSpecs})
  /\ UNCHANGED <<origin, tree, specs, chosen, lit>>

\* Patches of any job that is done are applied to what the course has become.
ApplyPlan ==
  /\ UNCHANGED <<origin, tree, chosen, lit, offers>>
  /\ \E patches \in offers : \E wanted \in SUBSET DOMAIN patches :
       /\ wanted \subseteq DOMAIN LoadDomainNodes
       /\ specs' = ApplyOptimizePatches(LoadDomainNodes, patches, wanted)

\* A new course replaces the old one, with the progress that can be placed.
RegenerateTree ==
  /\ origin # "none"
  /\ offers' = {}
  /\ \/ /\ ~FromPack
        /\ origin' = "generated"
        /\ \E out \in GenerateAndValidate :
             tree' = BuiltTree(out) /\ specs' = out.specs
        /\ chosen' = chosen
     \/ /\ FromPack
        /\ origin' = "personalized"
        /\ \E answer \in Selections : chosen' = Personalize(answer)
        /\ tree' = ApplySelection(PackTree, chosen')
        /\ specs' = NoSpecs
     \/ /\ FromPack
        /\ origin' = "skill_pack"
        /\ tree' = PackTree
        /\ specs' = Pack.specs
        /\ chosen' = chosen
  /\ lit' = MigrateProgressByNodeKey(lit, NodesOf(tree'), tree, tree')

\* The course is a subtopic of the root course that replaces it.
MergeIntoRoot ==
  /\ origin # "none"
  /\ origin' = "merged"
  /\ offers' = {}
  /\ UNCHANGED chosen
  /\ \E out \in GenerateAndValidate :
       LET child == ResolveTree
           nodes == LoadDomainNodes
           focus == NodesOf(child)
           root == BuiltTree(out)
       IN /\ tree' = MergeDomainIntoTree(root, child)
          /\ specs' = WithSpecs(out.specs, nodes, focus \cap DOMAIN nodes)
          /\ lit' = MigrateProgressByNodeKey(lit, focus, child, tree')

TreeNext ==
  \/ BuildTree \/ OpenPack \/ CreatePersonalizedDomain
  \/ UpdatePersonalizedDomain
  \/ \E k \in Keys : LightNodeOf(k)
  \/ ExtendDomain \/ OptimizeDomain \/ ApplyPlan
  \/ RegenerateTree \/ MergeIntoRoot

TreeSpec == TreeInit /\ [][TreeNext]_treeVars
-----------------------------------------------------------------------------
(* Properties.                                                             *)

\* Every node of a generated course has a spec to teach from and belongs to
\* exactly one theme module, whatever was repaired, extended or optimized
\* (docs/teaching-model.md, validateBuildOutput, validateExtendOutput).
GeneratedWellFormed ==
  origin = "generated" =>
    /\ NodesOf(tree) \subseteq DOMAIN specs
    /\ PartitionOf(tree.mods, NodesOf(tree))

\* Progress rows of a generated course belong to its nodes: the share the
\* extension is unlocked by (ExtendEligibility counts rows) is a true share.
ProgressInTree == origin = "generated" => lit \subseteq NodesOf(tree)

\* Regenerating or merging keeps every completed node the course shows whose
\* key is still there, places the others by title, and lights nothing else
\* (MigrateProgressByNodeKey).  Rows of nodes that tailoring has hidden may be
\* lost in a merge, even when the root course teaches them.
MigrationFaithful ==
  [][RegenerateTree \/ MergeIntoRoot =>
       /\ lit \cap NodesOf(ResolveTree) \cap NodesOf(tree') \subseteq lit'
       /\ \A k \in lit' :
            \/ k \in lit
            \/ \E j \in lit \cap NodesOf(tree) : tree'.title[k] = tree.title[j]
       /\ RegenerateTree =>
            \A j \in lit \cap NodesOf(tree) :
              (\E k \in NodesOf(tree') : tree'.title[k] = tree.title[j])
              => \E k \in lit' : k = j \/ tree'.title[k] = tree.title[j]]_treeVars

\* Extending appends: at most eight new nodes, at the end of their layers, and
\* the progress and the specs the course had are as they were.
ExtendOnlyAppends ==
  [][ExtendDomain =>
       /\ \A l \in Range(Layers) : IsPrefix(tree.layers[l], tree'.layers[l])
       /\ Len(NodeSeq(tree'.layers)) - Len(NodeSeq(tree.layers)) \in 1..8
       /\ ~FromPack => \A k \in DOMAIN specs : specs'[k] = specs[k]]_treeVars

\* Applying patches takes nothing away as a whole, not even patches older than
\* other ones that were written or than an extension: a field of a node that
\* says something still does, and its prerequisites are not emptied.  It may say
\* less, for a patch writes every field of the node as it was when the patch was
\* made (extractPatchFields, applyPatchFields; BaseTreeVersion is not compared).
ApplyNeverEmpties ==
  [][ApplyPlan =>
       \A k \in DOMAIN LoadDomainNodes :
         LET was == LoadDomainNodes[k]
             is == LoadDomainNodes'[k]
         IN /\ \A f \in Fields : was.has[f] # "empty" => is.has[f] # "empty"
            /\ was.requires # {} => is.requires # {}]_treeVars

\* The comment of Extend (domain/extender.go:64) says that an extension leaves
\* the old nodes alone: those that could be opened still can.
ExtendKeepsOldNodes ==
  [][ExtendDomain => \A k \in NodesOf(tree) : HasNode(k) => HasNode(k)']_treeVars
=============================================================================
