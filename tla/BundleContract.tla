---------------------------- MODULE BundleContract ----------------------------
(***************************************************************************)
(* The build output contract (pliego-pboc) and its two readers: the        *)
(* operator's `pliego pboc` commands, which validate a manifest, verify a  *)
(* bundle directory somebody may still be writing to, admit it to a host   *)
(* and compare releases; and the Cloudflare application that is built from *)
(* a manifest, registered, sealed and then serves requests.                *)
(*                                                                         *)
(* Collections that must be sorted by a unique key are functions of that   *)
(* key.  `sound` stands for the textual checks (identifiers, digests,      *)
(* paths, lengths, order); bytes are counted in MiB.                       *)
(***************************************************************************)
EXTENDS Naturals, Sequences, FiniteSets, Functions

CONSTANTS
    BunManifests,  \* the manifests that exist, one for each release id
    BunFiles,      \* the bundle directories a verification may start from
    BunTouched,    \* what a writer may leave at a path: [bytes, digest]
    BunTouches,    \* bound: writes during the commands
    BunChecks,     \* bound: validate and admit commands
    BunReleases,   \* bound: compatibility commands
    BunCalls       \* bound: calls on the Cloudflare application

\* Whoever declared the digest of contents declared their length with it, and no
\* two contents have one digest.
BunHonest(c) ==
    \A m \in BunManifests : \A p \in DOMAIN m.artifacts :
        c.digest = m.artifacts[p].digest => c.bytes = m.artifacts[p].bytes

\* A release id names one release, and digests bind contents.
ASSUME BunAssumption ==
    /\ \A m \in BunManifests : m.seq \in Nat
    /\ \A m, n \in BunManifests : m.release = n.release => m = n
    /\ \A d \in BunFiles : \A p \in DOMAIN d : BunHonest(d[p])
    /\ \A c \in BunTouched : BunHonest(c)

VARIABLES
    bunWho,        \* "checks", "promotes" or "serves": they share no state
    bunDisk,       \* the bundle directory: path -> [bytes, digest, mtime]
    bunOp,         \* the command in progress
    bunAdmitted,   \* <<>> or <<what `pliego pboc admit` printed last>>
    bunChain,      \* history: the releases that were active, in order
    bunApp,        \* the Cloudflare application
    bunServed,     \* <<>> or <<the last answer>>
    bunLeft        \* the bounds that are left

bunVars == <<bunWho, bunDisk, bunOp, bunAdmitted, bunChain, bunApp, bunServed, bunLeft>>

-----------------------------------------------------------------------------
(* The host profiles.                                                      *)

BunEverywhere == {"assets.immutable", "cache.public", "deployment.rollback", "deployment.rolling",
                  "http.complete", "http.stream.ordered", "secrets.references", "telemetry.receipts"}

\* native_pboc_host_profile.
BunNative == [target |-> "native-linux-oci", kind |-> "NativeOci",
              features |-> {<<f, 1>> : f \in BunEverywhere \cup {"cache.private", "http.stream.boundary"}},
              artifact |-> 512, bundle |-> 4096]

\* pliego_cloudflare::host_profile.
BunCloudflare == [target |-> "cloudflare-workers", kind |-> "CloudflareWorkers",
                  features |-> {<<f, 1>> : f \in BunEverywhere}, artifact |-> 25, bundle |-> 100]

-----------------------------------------------------------------------------
(* validate_manifest.                                                      *)

BunFeature(f) == <<f.id, f.version>>

\* validate_feature; its callers also fix the required flag.
BunFeaturesOk(features, required) ==
    \A f \in features : f.version > 0 /\ f.required = required

\* The identity, the compatibility block and the capabilities.
BunHeaderOk(m) ==
    /\ m.sound
    /\ m.epoch > 0 /\ m.seq > 0
    /\ m.prev /= m.release
    /\ \A f \in m.caps : f.version > 0

\* The artifacts and the provenance files among them.
BunArtifactsOk(m) ==
    /\ m.artifacts /= <<>>
    /\ \A p \in DOMAIN m.artifacts : m.artifacts[p].bytes > 0
    /\ {m.sbom, m.prov} \subseteq DOMAIN m.artifacts

\* validate_target.
BunTargetOk(t, paths) ==
    /\ t.paths /= {} /\ t.paths \subseteq paths
    /\ BunFeaturesOk(t.required, TRUE)
    /\ BunFeaturesOk(t.optional, FALSE)
    /\ {BunFeature(f) : f \in t.required} \cap {BunFeature(f) : f \in t.optional} = {}

\* The cache policies: a private one varies on the cookie or authorization.
BunPoliciesOk(m) == \A c \in DOMAIN m.policies :
    /\ m.policies[c].revalidation = "TimeBound" => m.policies[c].aged
    /\ m.policies[c].domain \in {"Private", "Session"} => m.policies[c].varies

\* The assets.
BunAssetsOk(m) == \A a \in DOMAIN m.assets :
    /\ m.assets[a].path \in DOMAIN m.artifacts
    /\ m.assets[a].policy \in DOMAIN m.policies

\* The secret references and the permissions; the purpose of a secret holds
\* no value.
BunGrantsOk(m) ==
    /\ \A s \in DOMAIN m.secrets : ~m.secrets[s].leaks
    /\ \A p \in DOMAIN m.permissions : m.permissions[p] /= {}

\* The functions.
BunFunctionsOk(m) == \A f \in DOMAIN m.functions :
    /\ m.functions[f].budget > 0
    /\ m.functions[f].modes /= {}
    /\ m.functions[f].secrets \subseteq DOMAIN m.secrets
    /\ m.functions[f].permissions \subseteq DOMAIN m.permissions

\* The target a route names; "" is None.
BunRouteTargetOk(m, r) ==
    \/ /\ r.kind = "Static" /\ r.function = ""
       /\ r.asset \in {m.assets[a].path : a \in DOMAIN m.assets}
       /\ r.mode = "Complete"
    \/ /\ r.kind = "Dynamic" /\ r.asset = ""
       /\ r.function \in DOMAIN m.functions
       /\ r.mode \in m.functions[r.function].modes

\* The routes: keys, targets, cache policies and features.
BunRoutesOk(m) == \A i \in DOMAIN m.routes :
    LET r == m.routes[i]
    IN  /\ \A j \in DOMAIN m.routes \ {i} : m.routes[j].key /= r.key
        /\ BunRouteTargetOk(m, r)
        /\ r.policy \in DOMAIN m.policies \cup {""}
        /\ BunFeaturesOk(r.features, TRUE)
        /\ {BunFeature(f) : f \in r.features} \subseteq {BunFeature(f) : f \in m.caps}

\* decode_manifest, validate_manifest.
BunValid(m) ==
    /\ BunHeaderOk(m) /\ BunArtifactsOk(m)
    /\ DOMAIN m.targets /= {}
    /\ \A t \in DOMAIN m.targets : BunTargetOk(m.targets[t], DOMAIN m.artifacts)
    /\ BunPoliciesOk(m) /\ BunAssetsOk(m) /\ BunGrantsOk(m) /\ BunFunctionsOk(m) /\ BunRoutesOk(m)

-----------------------------------------------------------------------------
(* HostAdmission::new.                                                     *)

\* Mutant: only the target's own files are uploaded.
BunUploadsTarget(m, t) == t.paths \cup {m.sbom, m.prov}

\* What the host is given.
BunUploads(m, t) ==
    t.paths \cup {m.assets[a].path : a \in DOMAIN m.assets} \cup {m.sbom, m.prov}

\* The features that must be there.
BunRequired(m, t) ==
    {BunFeature(f) : f \in {g \in m.caps : g.required} \cup t.required
                           \cup UNION {m.routes[i].features : i \in DOMAIN m.routes}}

\* The admission, or <<>> for a refusal.
BunAdmission(m, h) ==
    LET t == m.targets[h.target]
        uploads == BunUploads(m, t)
    IN  IF /\ BunValid(m)
           /\ h.target \in DOMAIN m.targets /\ t.kind = h.kind
           /\ BunRequired(m, t) \subseteq h.features
           /\ \A p \in uploads : m.artifacts[p].bytes =< h.artifact
           /\ SumFunction([p \in uploads |-> m.artifacts[p].bytes]) =< h.bundle
        THEN <<[paths |-> uploads,
                secrets |-> {s \in DOMAIN m.secrets : m.secrets[s].required}]>>
        ELSE <<>>

-----------------------------------------------------------------------------
(* The operator's commands.                                                *)

BunIdle == [name |-> "none"]

BunInit ==
    /\ bunWho \in {"checks", "promotes", "serves"}
    /\ bunDisk \in IF bunWho = "checks" THEN BunFiles ELSE {<<>>}
    /\ bunOp = BunIdle /\ bunAdmitted = <<>>
    /\ bunChain \in IF bunWho = "promotes" THEN {<<m>> : m \in BunManifests} ELSE {<<>>}
    /\ bunApp = <<>> /\ bunServed = <<>>
    /\ bunLeft = [touches |-> BunTouches, checks |-> BunChecks, promotes |-> BunReleases, serves |-> BunCalls]

BunSpend(who) == bunLeft[who] > 0 /\ bunLeft' = [bunLeft EXCEPT ![who] = @ - 1]

BunChecking == bunWho = "checks" /\ UNCHANGED <<bunWho, bunChain, bunApp, bunServed>>

\* A writer replaces or removes a file; its mtime may not move.
BunTouch ==
    /\ BunChecking /\ bunOp /= BunIdle /\ bunLeft.touches > 0
    /\ \E p \in DOMAIN bunDisk :
         \/ \E c \in BunTouched, tick \in {0, 1} :
              bunDisk' = [bunDisk EXCEPT ![p] = [bytes |-> c.bytes, digest |-> c.digest,
                                                 mtime |-> bunDisk[p].mtime + tick]]
         \/ bunDisk' = [q \in DOMAIN bunDisk \ {p} |-> bunDisk[q]]
    /\ bunLeft' = [bunLeft EXCEPT !.touches = @ - 1]
    /\ UNCHANGED <<bunOp, bunAdmitted>>

\* parse_manifest_options, load: a command may take a root to verify, and
\* `admit` takes a host.
BunCommand ==
    /\ BunChecking /\ bunOp = BunIdle /\ BunSpend("checks")
    /\ \E m \in {n \in BunManifests : BunValid(n)}, name \in {"validate", "admit"}, rooted \in BOOLEAN :
       \E h \in IF name = "admit" THEN {BunNative, BunCloudflare} ELSE {BunNative} :
         bunOp' = [name |-> name, m |-> m, h |-> h, rooted |-> rooted,
                   step |-> IF rooted THEN "list" ELSE "stat", todo |-> {},
                   before |-> <<>>, read |-> <<>>]
    /\ UNCHANGED <<bunDisk, bunAdmitted>>

\* verify_bundle, collect_files: the exact set of files, seen once.
BunVerifyList ==
    /\ BunChecking /\ bunOp.name /= "none" /\ bunOp.step = "list"
    /\ bunOp' = IF DOMAIN bunDisk = DOMAIN bunOp.m.artifacts
                THEN [bunOp EXCEPT !.step = "stat", !.todo = DOMAIN bunDisk]
                ELSE BunIdle
    /\ UNCHANGED <<bunDisk, bunAdmitted, bunLeft>>

\* verify_bundle: one file's metadata before it is read.
BunVerifyStat ==
    /\ BunChecking /\ bunOp.name /= "none" /\ bunOp.step = "stat" /\ bunOp.todo /= {}
    /\ \E p \in bunOp.todo :
         bunOp' = IF p \in DOMAIN bunDisk /\ bunDisk[p].bytes = bunOp.m.artifacts[p].bytes
                  THEN [bunOp EXCEPT !.step = "read", !.before = <<p, bunDisk[p].mtime>>]
                  ELSE BunIdle
    /\ UNCHANGED <<bunDisk, bunAdmitted, bunLeft>>

\* verify_bundle: the bytes.
BunVerifyRead ==
    /\ BunChecking /\ bunOp.name /= "none" /\ bunOp.step = "read"
    /\ LET p == bunOp.before[1]
       IN  bunOp' = IF p \in DOMAIN bunDisk
                    THEN [bunOp EXCEPT !.step = "check",
                            !.read = [q \in DOMAIN bunOp.read \cup {p} |->
                                        IF q = p THEN bunDisk[p] ELSE bunOp.read[q]]]
                    ELSE BunIdle
    /\ UNCHANGED <<bunDisk, bunAdmitted, bunLeft>>

\* What verify_bundle compares after the read.
BunSameFile(p, artifact, before, read, after) ==
    after.bytes = artifact.bytes /\ after.mtime = before /\ read.digest = artifact.digest

\* verify_bundle: the metadata again, then the digest.
BunVerifyCheck ==
    /\ BunChecking /\ bunOp.name /= "none" /\ bunOp.step = "check"
    /\ LET p == bunOp.before[1]
       IN  bunOp' = IF /\ p \in DOMAIN bunDisk
                       /\ BunSameFile(p, bunOp.m.artifacts[p], bunOp.before[2],
                                      bunOp.read[p], bunDisk[p])
                    THEN [bunOp EXCEPT !.step = "stat", !.todo = @ \ {p}, !.before = <<>>]
                    ELSE BunIdle
    /\ UNCHANGED <<bunDisk, bunAdmitted, bunLeft>>

\* validate prints its verdict; admit goes on to the host.
BunCommandEnds ==
    /\ BunChecking /\ bunOp.name /= "none" /\ bunOp.step = "stat" /\ bunOp.todo = {}
    /\ bunOp' = BunIdle
    /\ bunAdmitted' = IF bunOp.name = "validate" \/ BunAdmission(bunOp.m, bunOp.h) = <<>>
                      THEN bunAdmitted
                      ELSE <<[paths |-> BunAdmission(bunOp.m, bunOp.h)[1].paths,
                              m |-> bunOp.m, h |-> bunOp.h, rooted |-> bunOp.rooted, read |-> bunOp.read]>>
    /\ UNCHANGED <<bunDisk, bunLeft>>

-----------------------------------------------------------------------------
(* Rolling updates and rollback.                                           *)

\* validate_pair.
BunPair(a, c) ==
    /\ BunValid(a) /\ BunValid(c)
    /\ a.app = c.app /\ a.epoch = c.epoch /\ a.schema = c.schema

\* verify_rolling_transition.
BunRolls(a, c) == BunPair(a, c) /\ c.seq > a.seq /\ c.prev = a.release

\* verify_rollback_transition.
BunRollsBack(a, c) == BunPair(a, c) /\ a.safe /\ c.seq < a.seq /\ a.prev = c.release

\* `pliego pboc compatibility`: with a receipt, traffic moves.
BunCompatibility ==
    /\ bunWho = "promotes" /\ BunSpend("promotes")
    /\ \E c \in BunManifests :
         /\ \/ BunRolls(bunChain[Len(bunChain)], c)
            \/ BunRollsBack(bunChain[Len(bunChain)], c)
         /\ bunChain' = Append(bunChain, c)
    /\ UNCHANGED <<bunWho, bunDisk, bunOp, bunAdmitted, bunApp, bunServed>>

-----------------------------------------------------------------------------
(* CloudflareApplication.                                                  *)

BunWorker == bunWho = "serves" /\ BunSpend("serves")
             /\ UNCHANGED <<bunWho, bunDisk, bunOp, bunAdmitted, bunChain>>

\* PbocRouter::new: two routes of one method and shape are refused.
BunRouterBuilds(m) ==
    BunValid(m) /\ \A i, j \in DOMAIN m.routes : i /= j => m.routes[i].shape /= m.routes[j].shape

\* CloudflareApplication::new: the digests the worker was built with, the
\* admission, the router.
BunNew ==
    /\ BunWorker /\ bunApp = <<>>
    /\ \E m \in BunManifests, graph \in {"g", "g2"}, contract \in {"c", "c2"} :
         bunApp' = IF /\ m.graph = graph /\ m.contract = contract
                      /\ BunValid(m) /\ BunAdmission(m, BunCloudflare) /= <<>>
                      /\ BunRouterBuilds(m)
                   THEN <<[m |-> m, admission |-> BunAdmission(m, BunCloudflare)[1],
                           handlers |-> {}, secrets |-> {}, asset |-> "ok", sealed |-> FALSE]>>
                   ELSE <<>>
    /\ UNCHANGED bunServed

\* handler, secret_binding and asset_binding, each of which breaks the seal.
BunRegister ==
    /\ BunWorker /\ bunApp /= <<>>
    /\ \/ \E f \in DOMAIN bunApp[1].m.functions \cup {"unknown"} :
            bunApp' = <<[bunApp[1] EXCEPT !.handlers = @ \cup {f}, !.sealed = FALSE]>>
       \/ \E s \in DOMAIN bunApp[1].m.secrets \cup {"unknown"}, b \in {"ok", "bad"} :
            bunApp' = <<[bunApp[1] EXCEPT !.secrets = {x \in @ : x[1] /= s} \cup {<<s, b>>},
                                          !.sealed = FALSE]>>
       \/ \E b \in {"ok", "bad"} :
            bunApp' = <<[bunApp[1] EXCEPT !.asset = b, !.sealed = FALSE]>>
    /\ UNCHANGED bunServed

\* validate_registration, is_binding_name.
BunRegistered(a) ==
    /\ a.handlers = DOMAIN a.m.functions
    /\ {x[1] : x \in a.secrets} \subseteq DOMAIN a.m.secrets
    /\ a.admission.secrets \subseteq {x[1] : x \in a.secrets}
    /\ a.asset = "ok" /\ \A x \in a.secrets : x[2] = "ok"

\* seal consumes the application it refuses.
BunSeal ==
    /\ BunWorker /\ bunApp /= <<>>
    /\ bunApp' = IF BunRegistered(bunApp[1]) THEN <<[bunApp[1] EXCEPT !.sealed = TRUE]>> ELSE <<>>
    /\ UNCHANGED bunServed

\* dynamic: the secrets of the function one by one, in the order of the manifest,
\* then its handler; env is what the environment has a value for.
BunDynamic(a, r, env) ==
    LET needed == a.m.functions[r.function].secrets
        mapped == {x[1] : x \in a.secrets}
    IN  IF needed \subseteq mapped \cap env
        THEN {IF r.function \in a.handlers THEN "handler" ELSE "panic"}
        ELSE {IF s \in mapped THEN "PLG-CF-004" ELSE "PLG-CF-003" : s \in needed \ (mapped \cap env)}

\* dispatch, static_asset: an unsealed application answers 500, the router
\* (PbocRouter::resolve) names a route or an error.
BunDispatch ==
    /\ BunWorker /\ bunApp /= <<>>
    /\ LET a == bunApp[1]
       IN  \/ /\ ~a.sealed
              /\ bunServed' = <<[outcome |-> "PLG-CF-001", route |-> "", app |-> a]>>
           \/ /\ a.sealed
              /\ bunServed' = <<[outcome |-> "router error", route |-> "", app |-> a]>>
           \/ /\ a.sealed
              /\ \E i \in DOMAIN a.m.routes, env \in SUBSET {x[1] : x \in a.secrets} :
                   \E out \in IF a.m.routes[i].kind = "Static" THEN {"asset"}
                              ELSE BunDynamic(a, a.m.routes[i], env) :
                      bunServed' = <<[route |-> i, app |-> a, outcome |-> out]>>
    /\ UNCHANGED bunApp

BunNext ==
    \/ BunTouch \/ BunCommand \/ BunVerifyList \/ BunVerifyStat \/ BunVerifyRead \/ BunVerifyCheck
    \/ BunCommandEnds \/ BunCompatibility
    \/ BunNew \/ BunRegister \/ BunSeal \/ BunDispatch

BunSpec == BunInit /\ [][BunNext]_bunVars

-----------------------------------------------------------------------------
(* Properties.                                                             *)

\* Whatever order a worker registers, re-registers, seals and serves in, an
\* answer never finds a function without a handler, a static route without
\* its uploaded file, or a route whose features the host does not have: the
\* three `expect`s behind CloudflareApplication::dispatch hold.
BunServesWhatWasAdmitted ==
    bunServed /= <<>> =>
        LET s == bunServed[1]
        IN  /\ s.outcome /= "panic"
            /\ s.route /= "" =>
                 {BunFeature(f) : f \in s.app.m.routes[s.route].features} \subseteq BunCloudflare.features
            /\ s.outcome = "asset" => s.app.m.routes[s.route].asset \in s.app.admission.paths

\* An admission printed for a bundle directory speaks of bytes that were in
\* it: every uploaded file was read with the digest the manifest declares,
\* and what was read fits the host, although the directory changed between
\* the listing, the reads and the checks.
BunAdmissionsAreEarned ==
    bunAdmitted /= <<>> /\ bunAdmitted[1].rooted =>
        LET a == bunAdmitted[1]
        IN  /\ \A p \in a.paths : a.read[p].digest = a.m.artifacts[p].digest
            /\ SumFunction([p \in a.paths |-> a.read[p].bytes]) =< a.h.bundle

\* Once a release that does not declare rollback safe has been active, no
\* sequence of rolling updates and rollbacks makes an older one active.
BunUnsafeReleasesStay ==
    \A i, j \in DOMAIN bunChain :
        i < j /\ ~bunChain[i].safe => bunChain[j].seq >= bunChain[i].seq

\* A target serves what its admission saw, admissions are earned, and a release
\* that is not rollback-safe is not rolled back (admit, verify_bundle, verify_rollback_transition).
BunGuarantees ==
    /\ BunServesWhatWasAdmitted
    /\ BunAdmissionsAreEarned
    /\ BunUnsafeReleasesStay

-----------------------------------------------------------------------------
(* What makes BunGuarantees inductive.                                     *)

\* What a file may hold binds its length to its digest, now and when it was read.
BunDiskIsHonest == \A p \in DOMAIN bunDisk : BunHonest(bunDisk[p])

BunOpFields == {"name", "m", "h", "rooted", "step", "todo", "before", "read"}

\* A verification has read every file but those still to do, with the digest
\* declared; the one it is at is still to do.
BunReadsAreDeclared ==
    bunOp /= BunIdle =>
        /\ DOMAIN bunOp = BunOpFields
        /\ bunOp.m \in BunManifests
        /\ bunOp.step \in {"list", "stat", "read", "check"}
        /\ bunOp.step \in {"read", "check"} => bunOp.rooted /\ bunOp.before[1] \in bunOp.todo
        /\ ~bunOp.rooted => bunOp.todo = {} /\ bunOp.step = "stat"
        /\ bunOp.rooted /\ bunOp.step /= "list" =>
              \A p \in DOMAIN bunOp.m.artifacts \ bunOp.todo :
                  p \in DOMAIN bunOp.read /\ bunOp.read[p].digest = bunOp.m.artifacts[p].digest
        /\ \A p \in DOMAIN bunOp.read : BunHonest(bunOp.read[p])
        /\ bunOp.step = "check" => bunOp.before[1] \in DOMAIN bunOp.read

\* An application holds the admission of its manifest, and a sealed one is registered.
BunAppIsAdmitted ==
    bunApp /= <<>> =>
        /\ bunApp = <<bunApp[1]>>
        /\ DOMAIN bunApp[1] = {"m", "admission", "handlers", "secrets", "asset", "sealed"}
        /\ BunAdmission(bunApp[1].m, BunCloudflare) = <<bunApp[1].admission>>
        /\ bunApp[1].sealed => BunRegistered(bunApp[1])

\* After a release that is not rollback-safe, what is active is this release or
\* a newer one whose predecessor was active since.
BunChainHolds ==
    /\ bunChain \in Seq(BunManifests)
    /\ bunWho = "promotes" => bunChain /= <<>>
    /\ \A i, j \in DOMAIN bunChain :
          i =< j /\ ~bunChain[i].safe =>
              \/ bunChain[j] = bunChain[i]
              \/ /\ bunChain[j].seq > bunChain[i].seq
                 /\ \E k \in i..(j - 1) : bunChain[k].release = bunChain[j].prev

BunInvariant ==
    /\ BunDiskIsHonest /\ BunReadsAreDeclared /\ BunAppIsAdmitted /\ BunChainHolds
    /\ BunServesWhatWasAdmitted /\ BunAdmissionsAreEarned
=============================================================================
