----------------------------- MODULE AssetPipeline -----------------------------
(***************************************************************************)
(* The asset pipeline (pliego-assets): a recipe becomes a plan of jobs;    *)
(* external tools stage one artifact per job; finalize_adaptive_assets     *)
(* validates the staged artifacts, holds them against the device budgets   *)
(* and publishes them under their digests; build_raster encodes and        *)
(* publishes one variant after another.  Several publishers may share an   *)
(* output directory, encoders may still write to what was staged, and a    *)
(* publisher may die at any step.                                          *)
(* Contents are numbers: a content is its own digest and its size, 0 is an *)
(* empty or unfinished file, and AssBroken fails validate_artifact.        *)
(***************************************************************************)
EXTENDS Naturals, FiniteSets, FiniteSetsExt, Sequences

CONSTANTS
    AssRecipes,     \* recipes: [pins, profiles, assets]
    AssFinalizers,  \* processes that run finalize_adaptive_assets
    AssRasters,     \* processes that run build_raster
    AssWidths,      \* the widths a raster recipe asks for
    AssSourceWidth, \* the width of the raster source
    AssMaxBytes,    \* MAX_ARTIFACT_BYTES, and the aggregate limit
    AssTotalBytes,
    AssWrites       \* bound: writes by encoders outside the publishers

AssContents == 1..3
AssBroken == 3
AssFamilies == {"image", "video", "font", "scene"}
AssTiers == {"universal", "lite", "balanced", "signature"}
AssAbsent == 4      \* no file at a destination

VARIABLES
    assRecipe,  \* the recipe of this run
    assPlan,    \* <<>> or <<the plan>>
    assIno,     \* contents of files, by file identity
    assStage,   \* job id -> the file its staging path names, 0 if none
    assDest,    \* <<job id, digest>> -> content, or AssAbsent
    assProc,    \* the publishers
    assDone,    \* history: manifests and reports returned
    assLeft     \* writes left

assVars == <<assRecipe, assPlan, assIno, assStage, assDest, assProc, assDone, assLeft>>

-----------------------------------------------------------------------------
(* Recipes and plans.                                                      *)

AssFormat(output) ==
    CASE output.family = "image" -> "avif" [] output.family = "video" -> "mp4"
      [] output.family = "font" -> "woff2" [] output.family = "scene" -> "glb"

AssTools(output) ==
    CASE output.family \in {"image", "video"} -> {"ffmpeg"}
      [] output.family = "font" -> {"fonttools"}
      [] output.family = "scene" -> {"gltf", "ktx2"} \cup (IF output.blender THEN {"blender"} ELSE {})

\* rgba_bytes, three frames of it for video.
AssDecoded(output) ==
    CASE output.family \in {"image", "scene"} -> 4 * output.size
      [] output.family = "video" -> 12 * output.size
      [] output.family = "font" -> 0

\* validate_policy.
AssPolicyValid(policy, family) ==
    /\ policy.tiers /= {}
    /\ policy.preload \/ policy.high => policy.delivery = "initial"
    /\ IF family \in {"video", "scene"}
       THEN "universal" \notin policy.tiers /\ policy.motion = "suppress"
       ELSE policy.motion = "static"

\* The parameters validate_transform and validate_job_contract accept.
AssParametersValid(output) == output.size > 0 /\ (output.family = "scene" => output.triangles > 0 /\ output.draws > 0)

\* validate_profiles.
AssProfilesValid(profiles) ==
    profiles /= {} /\ UNION {DOMAIN p.tiers : p \in profiles} = AssTiers

\* validate_recipe_contract, validate_transform.
AssRecipeValid(recipe) ==
    /\ recipe.assets /= {} /\ AssProfilesValid(recipe.profiles)
    /\ \A a \in recipe.assets, b \in recipe.assets : a.id = b.id => a = b
    /\ \A a \in recipe.assets :
          /\ a.outputs /= {}
          /\ \A o \in a.outputs, q \in a.outputs : o.id = q.id => o = q
          /\ \A o \in a.outputs : /\ AssTools(o) \subseteq recipe.pins
                                  /\ AssParametersValid(o)
                                  /\ AssPolicyValid(o.policy, o.family)

\* append_jobs, push_job: fonts are wanted together, other outputs of a source
\* are alternatives of one another.
AssJob(asset, output) ==
    [id |-> <<asset.id, output.id>>, source |-> asset.id, op |-> output, format |-> AssFormat(output),
     group |-> IF output.family = "font" THEN "none" ELSE asset.id,
     tools |-> AssTools(output), policy |-> output.policy, decoded |-> AssDecoded(output),
     triangles |-> IF output.family = "scene" THEN output.triangles ELSE 0,
     draws |-> IF output.family = "scene" THEN output.draws ELSE 0]

AssJobs(recipe) == {AssJob(a, o) : a \in recipe.assets, o \in UNION {b.outputs : b \in recipe.assets}}

\* plan_adaptive_assets.
AssPlanOf(recipe) ==
    [pins |-> recipe.pins, profiles |-> recipe.profiles,
     sources |-> {a.id : a \in recipe.assets},
     jobs |-> {j \in AssJobs(recipe) : \E a \in recipe.assets : a.id = j.source /\ j.op \in a.outputs}]

\* validate_job_contract: what a job claims follows from its operation.
AssJobContract(j) ==
    /\ AssParametersValid(j.op)
    /\ j.format = AssFormat(j.op) /\ j.tools = AssTools(j.op)
    /\ j.decoded = AssDecoded(j.op)
    /\ j.triangles = (IF j.op.family = "scene" THEN j.op.triangles ELSE 0)
    /\ j.draws = (IF j.op.family = "scene" THEN j.op.draws ELSE 0)
    /\ j.group = (IF j.op.family = "font" THEN "none" ELSE j.source)

\* validate_plan: a plan is read back from a file and may have been edited.
AssPlanValid(plan) ==
    /\ AssProfilesValid(plan.profiles) /\ plan.sources /= {}
    /\ \A j \in plan.jobs, k \in plan.jobs : j.id = k.id => j = k
    /\ \A j \in plan.jobs :
          /\ j.source \in plan.sources /\ j.id[1] = j.source
          /\ j.tools \subseteq plan.pins
          /\ AssPolicyValid(j.policy, j.op.family)
          /\ AssJobContract(j)

-----------------------------------------------------------------------------
(* Budgets.                                                                *)

AssClasses == {"initial", "deferred", "onDemand", "decoded", "triangles", "draws", "preloads"}

AssAmount(v, class) ==
    CASE class \in {"initial", "deferred", "onDemand"} -> IF v.policy.delivery = class THEN v.bytes ELSE 0
      [] class = "decoded" -> v.decoded
      [] class = "triangles" -> v.triangles
      [] class = "draws" -> v.draws
      [] class = "preloads" -> IF v.policy.preload THEN 1 ELSE 0

AssInTier(variants, tier) == {v \in variants : tier \in v.policy.tiers}

\* evaluate_budgets: of alternatives only one is loaded, at worst the largest.
AssWorst(alternatives, class) == Max({AssAmount(v, class) : v \in alternatives})

\* accumulate_variant, add_totals.
AssAmounts(variants, class) == MapThenSumSet(LAMBDA v : AssAmount(v, class), variants)
AssWorsts(variants, groups, class) ==
    MapThenSumSet(LAMBDA g : AssWorst({v \in variants : v.group = g}, class), groups)

\* evaluate_budgets.
AssTotal(variants, tier, class) ==
    LET here == AssInTier(variants, tier)
        single == {v \in here : v.group = "none"}
        groups == {v.group : v \in here} \ {"none"}
    IN  AssAmounts(single, class) + AssWorsts(here, groups, class)

AssWithinBudgets(plan, variants) ==
    \A p \in plan.profiles : \A tier \in DOMAIN p.tiers : \A class \in AssClasses :
        AssTotal(variants, tier, class) <= p.tiers[tier][class]

\* AdaptiveManifest::delivery: the variants a page may load.
AssDelivery(variants, tier, reducedMotion, saveData) ==
    {v \in AssInTier(variants, tier) :
        /\ reducedMotion => v.policy.motion /= "suppress"
        /\ saveData => v.policy.delivery = "initial" /\ v.policy.motion = "static"}

-----------------------------------------------------------------------------
(* State.                                                                  *)

AssIds == {<<a.id, o.id>> : a \in UNION {r.assets : r \in AssRecipes},
                            o \in UNION {b.outputs : b \in UNION {r.assets : r \in AssRecipes}}}

\* A recipe is a finite text, its numbers are unsigned, and no process runs both.
ASSUME AssAssumption ==
    /\ AssFinalizers \cap AssRasters = {} /\ IsFiniteSet(AssIds)
    /\ \A r \in AssRecipes :
          /\ IsFiniteSet(r.assets)
          /\ \A a \in r.assets :
                /\ IsFiniteSet(a.outputs)
                /\ \A o \in a.outputs : /\ o.family \in AssFamilies /\ o.size \in Nat
                                        /\ o.family = "scene" => o.triangles \in Nat /\ o.draws \in Nat
          /\ \A b \in r.profiles : \A tier \in DOMAIN b.tiers, class \in AssClasses :
                b.tiers[tier][class] \in Nat

\* normalized_widths.
AssRasterJobs == {<<"raster", Min({w, AssSourceWidth})>> : w \in AssWidths}

AssIdle(todo) ==
    [at |-> "idle", plan |-> {}, held |-> <<>>, size |-> <<>>, digest |-> <<>>, todo |-> todo,
     cur |-> <<>>, early |-> {}]

AssInit ==
    /\ assRecipe \in AssRecipes
    /\ assPlan = <<>>
    /\ assIno = [n \in 1..Cardinality(AssIds) |-> 1]
    /\ assStage = CHOOSE f \in [AssIds -> 1..Cardinality(AssIds)] : \A i \in AssIds, k \in AssIds : f[i] = f[k] => i = k
    /\ assDest = [p \in (AssIds \cup AssRasterJobs) \X (AssContents \cup {0}) |-> AssAbsent]
    /\ \E on \in {AssFinalizers, AssRasters} :
          assProc = [p \in AssFinalizers \cup AssRasters |->
                        IF p \notin on THEN [AssIdle({}) EXCEPT !.at = "off"]
                        ELSE AssIdle(IF p \in AssRasters THEN AssRasterJobs ELSE {})]
    /\ assDone = {}
    /\ assLeft = AssWrites

\* Raster runs share nothing with a recipe's plan and its staged files.
AssAdaptive == \E p \in AssFinalizers : assProc[p].at /= "off"

AssPlanAssets ==
    /\ AssAdaptive
    /\ assPlan = <<>> /\ AssRecipeValid(assRecipe)
    /\ assPlan' = <<AssPlanOf(assRecipe)>>
    /\ UNCHANGED <<assRecipe, assIno, assStage, assDest, assProc, assDone, assLeft>>

\* The plan's file is edited by hand: a smaller estimate, another group, other
\* tiers or another delivery.
AssForgeries(j) ==
    {[j EXCEPT !.decoded = 0], [j EXCEPT !.group = "none"]} \cup
    {[j EXCEPT !.policy = w] :
        w \in {[j.policy EXCEPT !.tiers = AssTiers], [j.policy EXCEPT !.delivery = "deferred"]}}

AssEditPlan ==
    /\ assPlan /= <<>> /\ assLeft > 0
    /\ \E j \in assPlan[1].jobs : \E forged \in AssForgeries(j) :
          assPlan' = <<[assPlan[1] EXCEPT !.jobs = (@ \ {j}) \cup {forged}]>>
    /\ assLeft' = assLeft - 1
    /\ UNCHANGED <<assRecipe, assIno, assStage, assDest, assProc, assDone>>

\* inspect_adaptive_asset_work answers for a valid plan whose staged files are,
\* together, within the limit ...
AssInspected(plan) ==
    LET sized == {i \in {j.id : j \in plan.jobs} : assStage[i] /= 0 /\ assIno[assStage[i]] \in 1..AssMaxBytes}
    IN  AssPlanValid(plan) /\ MapThenSumSet(LAMBDA i : assIno[assStage[i]], sized) <= AssTotalBytes

\* ... and says what has to be done for each job.
AssWorkState(j) ==
    IF assStage[j.id] = 0 THEN "pending"
    ELSE IF assIno[assStage[j.id]] \in 1..AssMaxBytes \ {AssBroken} THEN "ready"
    ELSE "invalid"

\* A tool stages the artifact of a job that is not known to be ready.
AssWork ==
    /\ assPlan /= <<>> /\ assLeft > 0
    /\ \E j \in assPlan[1].jobs, c \in AssContents :
          /\ AssInspected(assPlan[1]) => AssWorkState(j) /= "ready"
          /\ assIno' = Append(assIno, c)
          /\ assStage' = [assStage EXCEPT ![j.id] = Len(assIno) + 1]
    /\ assLeft' = assLeft - 1
    /\ UNCHANGED <<assRecipe, assPlan, assDest, assProc, assDone>>

\* A tool is still writing to a file it staged.
AssRewrite ==
    /\ AssAdaptive /\ assLeft > 0
    /\ \E i \in 1..Len(assIno), c \in AssContents \cup {0} :
          assIno[i] /= c /\ assIno' = [assIno EXCEPT ![i] = c]
    /\ assLeft' = assLeft - 1
    /\ UNCHANGED <<assRecipe, assPlan, assStage, assDest, assProc, assDone>>

-----------------------------------------------------------------------------
(* finalize_adaptive_assets.                                               *)

AssGo(p, rec) ==
    /\ assProc' = [assProc EXCEPT ![p] = rec]
    /\ UNCHANGED <<assRecipe, assPlan, assIno, assLeft>>

AssHeldBytes(p, id) == assIno[assProc[p].held[id]]

\* Every staged file is opened, and bounded alone and together, before any is read.
AssOpen(p) ==
    /\ p \in AssFinalizers /\ assProc[p].at = "idle" /\ assPlan /= <<>>
    /\ AssPlanValid(assPlan[1])
    /\ LET ids == {j.id : j \in assPlan[1].jobs}
           held == [i \in ids |-> assStage[i]]
       IN  /\ \A i \in ids : held[i] /= 0 /\ assIno[held[i]] \in 1..AssMaxBytes
           /\ MapThenSumSet(LAMBDA i : assIno[held[i]], ids) <= AssTotalBytes
           /\ AssGo(p, [assProc[p] EXCEPT !.at = "validate", !.plan = assPlan[1].jobs, !.held = held,
                                     !.size = [i \in ids |-> assIno[held[i]]], !.todo = ids])
    /\ UNCHANGED <<assStage, assDest, assDone>>

\* validate_magic, validate_artifact: an empty file has no magic.
AssArtifactValid(content) == content \notin {0, AssBroken}

\* The open files are validated.
AssValidate(p) ==
    /\ assProc[p].at = "validate"
    /\ \A i \in assProc[p].todo : AssArtifactValid(AssHeldBytes(p, i))
    /\ AssGo(p, [assProc[p] EXCEPT !.at = "digest"])
    /\ UNCHANGED <<assStage, assDest, assDone>>

\* The variants a finalizer would publish: their sizes were read when the
\* files were opened, their digests later.
AssVariants(q, digest) ==
    {[id |-> j.id, digest |-> digest[j.id], bytes |-> q.size[j.id], group |-> j.group,
      policy |-> j.policy, decoded |-> j.decoded, triangles |-> j.triangles,
      draws |-> j.draws, op |-> j.op]
        : j \in q.plan}

\* hash_open_file, evaluate_budgets: nothing is published over budget.
AssDigest(p) ==
    /\ assProc[p].at = "digest"
    /\ LET digest == [i \in assProc[p].todo |-> AssHeldBytes(p, i)] IN
       /\ AssWithinBudgets(assPlan[1], AssVariants(assProc[p], digest))
       /\ AssGo(p, [assProc[p] EXCEPT !.at = "check", !.digest = digest])
    /\ UNCHANGED <<assStage, assDest, assDone>>

\* Anything already at a destination must be that content.
AssCheck(p) ==
    /\ assProc[p].at = "check"
    /\ \A i \in assProc[p].todo : assDest[<<i, assProc[p].digest[i]>>] \in {AssAbsent, assProc[p].digest[i]}
    /\ AssGo(p, [assProc[p] EXCEPT !.at = "publish"])
    /\ UNCHANGED <<assStage, assDest, assDone>>

-----------------------------------------------------------------------------
(* build_raster: each variant is encoded into a private stage and published*)
(* before the next.                                                        *)

AssEncode(p) ==
    /\ p \in AssRasters /\ assProc[p].at = "idle"
    /\ \E i \in assProc[p].todo, c \in AssContents :
          /\ assIno' = Append(assIno, c)
          /\ assProc' = [assProc EXCEPT ![p] =
                 LET q == assProc[p]
                 IN  [q EXCEPT !.at = "publish",
                               !.held = [k \in DOMAIN q.held \cup {i} |-> IF k = i THEN Len(assIno) + 1 ELSE q.held[k]],
                               !.digest = [k \in DOMAIN q.digest \cup {i} |-> IF k = i THEN c ELSE q.digest[k]]]]
    /\ UNCHANGED <<assRecipe, assPlan, assStage, assDest, assDone, assLeft>>

-----------------------------------------------------------------------------
(* publish_open_file_no_clobber, shared.                                   *)

AssPath(p, i) == <<i, assProc[p].digest[i]>>

AssReady(p) == assProc[p].todo \cap DOMAIN assProc[p].digest

\* The staged file is removed by its path, whatever stands there now.
AssUnstaged(p, i) == IF p \in AssRasters THEN assStage ELSE [assStage EXCEPT ![i] = 0]

AssPublished(p, i, early) ==
    [assProc[p] EXCEPT !.at = IF p \in AssRasters THEN "idle" ELSE "publish", !.todo = @ \ {i}, !.cur = <<>>,
                       !.early = early]

\* A publisher still writes to a path.
AssWriting(q) == assProc[q].at \in {"copy", "verify"}
AssContended(path) ==
    \E q \in AssFinalizers \cup AssRasters : AssWriting(q) /\ AssPath(q, assProc[q].cur) = path

\* create_new: a destination that exists is compared, not written; early is
\* history: what was taken as published before its writer was done with it.
AssPresent(p) ==
    /\ assProc[p].at = "publish"
    /\ \E i \in AssReady(p) :
          /\ assDest[AssPath(p, i)] = assProc[p].digest[i]
          /\ p \in AssFinalizers => assStage[i] /= 0
          /\ AssGo(p, AssPublished(p, i, assProc[p].early \cup (IF AssContended(AssPath(p, i)) THEN {i} ELSE {})))
          /\ assStage' = AssUnstaged(p, i)
    /\ UNCHANGED <<assDest, assDone>>

AssCreate(p) ==
    /\ assProc[p].at = "publish"
    /\ \E i \in AssReady(p) :
          /\ assDest[AssPath(p, i)] = AssAbsent
          /\ assDest' = [assDest EXCEPT ![AssPath(p, i)] = 0]
          /\ AssGo(p, [assProc[p] EXCEPT !.at = "copy", !.cur = i])
    /\ UNCHANGED <<assStage, assDone>>

AssCopy(p) ==
    /\ assProc[p].at = "copy"
    /\ assDest' = [assDest EXCEPT ![AssPath(p, assProc[p].cur)] = AssHeldBytes(p, assProc[p].cur)]
    /\ AssGo(p, [assProc[p] EXCEPT !.at = "verify"])
    /\ UNCHANGED <<assStage, assDone>>

\* Mutant: a copy that was written through is taken for the digested bytes.
AssCopiedWritten(p) == TRUE

\* hash_open_file of what was written.
AssCopied(p) == assDest[AssPath(p, assProc[p].cur)] = assProc[p].digest[assProc[p].cur]

AssVerify(p) ==
    /\ assProc[p].at = "verify" /\ AssCopied(p)
    /\ p \in AssFinalizers => assStage[assProc[p].cur] /= 0
    /\ AssGo(p, AssPublished(p, assProc[p].cur, assProc[p].early))
    /\ assStage' = AssUnstaged(p, assProc[p].cur)
    /\ UNCHANGED <<assDest, assDone>>

\* A copy that fails, or differs from its digest, is removed.
AssDiscard(p) ==
    /\ assProc[p].at \in {"copy", "verify"}
    /\ assDest' = [assDest EXCEPT ![AssPath(p, assProc[p].cur)] = AssAbsent]
    /\ AssGo(p, [assProc[p] EXCEPT !.at = "failed"])
    /\ UNCHANGED <<assStage, assDone>>

\* Any other error, or the death of the process: everything stays as it is.
AssStops(p) ==
    /\ assProc[p].at \in {"validate", "digest", "check", "publish", "copy", "verify"}
    /\ AssGo(p, [assProc[p] EXCEPT !.at = "failed"])
    /\ UNCHANGED <<assStage, assDest, assDone>>

AssFinish(p) ==
    /\ assProc[p].todo = {} /\ assProc[p].at = (IF p \in AssRasters THEN "idle" ELSE "publish")
    /\ AssGo(p, [assProc[p] EXCEPT !.at = "done"])
    /\ assDone' = assDone \cup {[digest |-> assProc[p].digest, early |-> assProc[p].early,
                                 variants |-> IF p \in AssRasters THEN {} ELSE AssVariants(assProc[p], assProc[p].digest)]}
    /\ UNCHANGED <<assStage, assDest>>

AssPublisher(p) ==
    \/ AssOpen(p) \/ AssValidate(p) \/ AssDigest(p) \/ AssCheck(p) \/ AssEncode(p)
    \/ AssPresent(p) \/ AssCreate(p) \/ AssCopy(p) \/ AssVerify(p)
    \/ AssDiscard(p) \/ AssStops(p) \/ AssFinish(p)

AssNext ==
    \/ AssPlanAssets \/ AssEditPlan \/ AssWork \/ AssRewrite
    \/ \E p \in AssFinalizers \cup AssRasters : AssPublisher(p)

AssSpec == AssInit /\ [][AssNext]_assVars

-----------------------------------------------------------------------------
(* Properties.                                                             *)

\* A path that a returned manifest or report names holds the bytes its digest
\* says from then on, though encoders write on, publishers race for the path
\* and any of them may stop half way.  (All but a path that was taken as
\* published while another publisher still wrote to it: that one may remove
\* the copy again when it cannot sync it.)
AssAddressesAreHonest ==
    \A m \in assDone : \A i \in DOMAIN m.digest \ m.early :
        assDest[<<i, m.digest[i]>>] = m.digest[i]

\* Whatever alternatives a page of some tier picks, one of each group, what it
\* loads of a published manifest, by the sizes the manifest states, is within
\* every budget of the tier, and the universal tier and reduced motion load neither video nor 3D.
AssBudgetsBound ==
    \A m \in assDone : m.variants /= {} =>
        /\ \A tier \in AssTiers, reduced \in BOOLEAN, save \in BOOLEAN :
              \A loaded \in SUBSET AssDelivery(m.variants, tier, reduced, save) :
                  (\A v \in loaded, w \in loaded : v.group = w.group /\ v.group /= "none" => v = w)
                  => \A b \in assRecipe.profiles : tier \in DOMAIN b.tiers =>
                        \A class \in AssClasses :
                            AssAmounts(loaded, class) <= b.tiers[tier][class]
        /\ \A v \in AssDelivery(m.variants, "universal", FALSE, FALSE)
                    \cup AssDelivery(m.variants, "signature", TRUE, FALSE) :
              v.op.family \in {"image", "font"}

\* An asset is what its address says, and every selection a manifest allows
\* stays in its budget (finalize_adaptive_assets, evaluate_budgets).
AssGuarantees ==
    /\ AssAddressesAreHonest
    /\ AssBudgetsBound

-----------------------------------------------------------------------------
(* What makes AssGuarantees inductive.                                     *)

AssPublishers == AssFinalizers \cup AssRasters
AssNames == AssIds \cup AssRasterJobs

AssJobShape(j) ==
    j = [id |-> j.id, source |-> j.source, op |-> j.op, format |-> j.format, group |-> j.group,
         tools |-> j.tools, policy |-> j.policy, decoded |-> j.decoded, triangles |-> j.triangles,
         draws |-> j.draws]

AssRunShape(q) ==
    q = [at |-> q.at, plan |-> q.plan, held |-> q.held, size |-> q.size, digest |-> q.digest,
         todo |-> q.todo, cur |-> q.cur, early |-> q.early]

\* Jobs, edited or not, are operations of the recipe.
AssJobsOk(recipe, jobs) ==
    /\ IsFiniteSet(jobs)
    /\ \A j \in jobs : /\ AssJobShape(j) /\ j.id \in AssIds
                       /\ \E a \in recipe.assets : j.op \in a.outputs

AssPlanOk(recipe, plan) ==
    /\ plan = [pins |-> plan.pins, profiles |-> recipe.profiles, sources |-> plan.sources,
               jobs |-> plan.jobs]
    /\ AssJobsOk(recipe, plan.jobs)

AssFilesOk ==
    /\ assIno \in Seq(AssContents \cup {0})
    /\ assStage \in [AssIds -> 0..Len(assIno)]
    /\ DOMAIN assDest = AssNames \X (AssContents \cup {0})

\* What finalize_adaptive_assets knows of the files it opened.
AssOpened(recipe, files, q) ==
    /\ AssJobsOk(recipe, q.plan) /\ q.todo = {j.id : j \in q.plan}
    /\ \A j \in q.plan : AssPolicyValid(j.policy, j.op.family) /\ AssJobContract(j)
    /\ \A i \in q.todo : i \in DOMAIN q.held /\ q.held[i] \in 1..files /\ q.size[i] \in Nat

AssManifestOk(recipe, variants) ==
    /\ IsFiniteSet(variants) /\ AssWithinBudgets(recipe, variants)
    /\ \A v \in variants : /\ AssPolicyValid(v.policy, v.op.family) /\ v.op.family \in AssFamilies
                           /\ \A class \in AssClasses : AssAmount(v, class) \in Nat

AssRunOk(recipe, files, p, q) ==
    /\ AssRunShape(q) /\ q.todo \subseteq AssNames
    /\ \A i \in DOMAIN q.digest :
          /\ i \in AssNames /\ q.digest[i] \in AssContents \cup {0}
          /\ i \in DOMAIN q.held /\ q.held[i] \in 1..files
    /\ q.at \in {"copy", "verify"} => q.cur \in q.todo \cap DOMAIN q.digest
    /\ p \in AssFinalizers /\ q.at = "idle" => DOMAIN q.digest = {}
    /\ q.at \in {"validate", "digest"} => AssOpened(recipe, files, q)
    /\ (q.at = "check" \/ (p \in AssFinalizers /\ q.at \in {"publish", "copy", "verify"})) =>
          AssManifestOk(recipe, AssVariants(q, q.digest))

AssBusy(q) == q.at \in {"copy", "verify"}
AssAt(q) == <<q.cur, q.digest[q.cur]>>

\* What a publisher published that was not still being written.
AssOut(q) == DOMAIN q.digest \ (q.todo \cup q.early)

\* A path that holds its bytes while nobody writes to it keeps them.
AssKeeps(dest, proc, path) ==
    /\ path \in DOMAIN dest /\ dest[path] = path[2]
    /\ \A q \in AssPublishers : AssBusy(proc[q]) => AssAt(proc[q]) /= path

\* Only its creator writes to a path, and what was published is kept.
AssWritersOk(dest, proc) ==
    /\ \A p \in AssPublishers :
          AssBusy(proc[p]) => AssAt(proc[p]) \in DOMAIN dest /\ dest[AssAt(proc[p])] /= AssAbsent
    /\ \A p, q \in AssPublishers : AssBusy(proc[p]) /\ AssBusy(proc[q]) /\ p /= q =>
          AssAt(proc[p]) /= AssAt(proc[q])

AssOutOk(dest, proc) ==
    \A p \in AssPublishers : \A i \in AssOut(proc[p]) : AssKeeps(dest, proc, <<i, proc[p].digest[i]>>)

AssDoneOk(m) ==
    /\ \A i \in DOMAIN m.digest \ m.early : AssKeeps(assDest, assProc, <<i, m.digest[i]>>)
    /\ m.variants /= {} => AssManifestOk(assRecipe, m.variants)

AssInvariant ==
    /\ assRecipe \in AssRecipes
    /\ assPlan = <<>> \/ (assPlan = <<assPlan[1]>> /\ AssPlanOk(assRecipe, assPlan[1]))
    /\ AssFilesOk
    /\ DOMAIN assProc = AssPublishers
    /\ \A p \in AssPublishers :
          /\ AssRunOk(assRecipe, Len(assIno), p, assProc[p])
          /\ assProc[p].at \in {"validate", "digest"} => assPlan /= <<>>
    /\ AssWritersOk(assDest, assProc) /\ AssOutOk(assDest, assProc)
    /\ \A m \in assDone : AssDoneOk(m)
================================================================================
