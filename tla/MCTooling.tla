------------------------------ MODULE MCTooling ------------------------------
(***************************************************************************)
(* TLC instances of what builds, develops, checks and extends a site.  The *)
(* components share no state: a behaviour moves one of them and leaves the *)
(* others in one of their initial states.                                  *)
(***************************************************************************)
EXTENDS SitePublication, DevSession, BuildInputs, AssetPipeline, ComponentSdk,
        ContentLoader, BundleContract, ProjectScaffold, AssetInspect, TrustCommands, TLC

VARIABLE focus   \* the component that moves

-----------------------------------------------------------------------------
(* Publication: one site whose About page starts to use b.md, two builders *)
(* and a project with a configuration and a dependency outside of it.      *)

MCNames ==
    [c \in {"pliego.build.json", "pliego.graph.json", ".git", "target", "node_modules",
            "main.rs", "a.md", "b.md", "pliego.toml", "index.html", "about", "dist", "style.css",
            "lib"} |-> [nfc |-> c, key |-> c, sensitive |-> FALSE]]
SourceFile == [kind |-> "file", version |-> 1, links |-> 1]
MCProject ==
    [tree |-> [p \in {<<"main.rs">>, <<"a.md">>, <<"b.md">>, <<"pliego.toml">>,
                      <<"target", "lib">>} |-> SourceFile],
     configuration |-> {<<"pliego.toml">>}, excluded |-> {<<"dist">>},
     tools |-> [t \in {"cargo", "rustc"} |-> 1], outside |-> ("std" :> (<<"lib">> :> SourceFile))]
MCProjects == {MCProject}
MCSpecs == "std" :> [included |-> {}, excluded |-> {}, root |-> <<"std">>]
PageOf(route, uses) == [route |-> route, sources |-> uses, lazy |-> TRUE, safe |-> TRUE]
MCSite ==
    [v \in 1..3 |->
        [pages |-> {PageOf(<< >>, {}),
                    PageOf(<<"about">>, IF v = 1 THEN {<<"a.md">>} ELSE {<<"a.md">>, <<"b.md">>})},
         assets |-> {[path |-> <<"style.css">>, sources |-> {<<"b.md">>}]}]]
MCMain == <<"main.rs">>
MCOutput == [requested |-> <<"dist">>, authorized |-> <<"dist">>]
MCEdits == {<<"b.md">>, <<"pliego.toml">>}
MCPubBound == [builds |-> 3, edits |-> 2, drifts |-> 1, crashes |-> 1]
MCSymmetry == Permutations(PubBuilders)

-----------------------------------------------------------------------------
(* Build inputs: a cargo home beside, above and inside of the workspace.   *)

MCInpRoot ==
    [site |-> <<"w", "proj">>, ssg |-> <<"w", "ssg">>, dep |-> <<"w", "dep">>, far |-> <<"w", "far">>]
MCInpProject == MCInpRoot.site
MCInpOutput == <<"target", "site">>
MCState == <<"target", ".pliego">>
MCDepends == [site |-> {"ssg", "dep"}, ssg |-> {}, dep |-> {}, far |-> {}]
MCConfigurations ==
    {MCInpProject \o <<".cargo", "config.toml">>, <<"w", ".cargo", "config.toml">>,
     <<"home", "config.toml">>}
MCSources == {MCInpRoot[p] \o <<"lib.rs">> : p \in DOMAIN MCInpRoot}
MCHomes == {<<"home">>, <<"w", ".cargo">>, <<"w">>}
MCTargets == {<<"w", "proj", "target">>, <<"w", "proj", "target", "site", "x">>}
MCEnvs == {{}, {"RUSTFLAGS"}}

-----------------------------------------------------------------------------
(* Assets: one recipe per family; the first and the last overrun a budget. *)

DeliveryOf(tiers, delivery, motion, preload) ==
    [tiers |-> tiers, delivery |-> delivery, motion |-> motion, preload |-> preload,
     high |-> FALSE]
VariantOf(id, family, policy) ==
    [id |-> id, family |-> family, size |-> 1, triangles |-> 1, draws |-> 1, blender |-> FALSE,
     policy |-> policy]
RecipeOf(pins, initial, outputs) ==
    [pins |-> pins,
     profiles |-> {[id |-> "m", tiers |-> [t \in AssTiers |->
                       [c \in AssClasses |-> IF c = "initial" THEN initial ELSE 8]]]},
     assets |-> {[id |-> "hero", outputs |-> outputs]}]
MCRecipes ==
    {RecipeOf({"ffmpeg", "fonttools"}, 1,
        {VariantOf("s", "image", DeliveryOf(AssTiers, "initial", "static", TRUE)),
         VariantOf("l", "image", DeliveryOf({"signature"}, "initial", "static", FALSE))}),
     RecipeOf({"ffmpeg", "fonttools"}, 2,
        {VariantOf(i, "font", DeliveryOf({"lite"}, "initial", "static", FALSE)) : i \in {"s", "l"}}),
     RecipeOf({"ffmpeg"}, 2,
        {VariantOf("l", "video", DeliveryOf({"universal"}, "deferred", "suppress", FALSE))}),
     RecipeOf({"gltf", "ktx2"}, 0,
        {VariantOf("l", "scene", DeliveryOf({"signature"}, "deferred", "suppress", FALSE))})}

-----------------------------------------------------------------------------
(* Component SDK: handlers with and without the broker, a transformer, an  *)
(* element and a manifest that contradicts itself.                         *)

ManifestOf(plane, kind, world, imports, determinism, caps, hooks, digest) ==
    [plane |-> plane, kind |-> kind, world |-> world,
     element |-> IF plane = "browser" THEN "pliego-x" ELSE "none", imports |-> imports,
     exports |-> {"x"}, required |-> {"f"}, optional |-> {}, caps |-> caps,
     determinism |-> determinism, hooks |-> hooks, budget |-> [fuel |-> 2, output |-> 1],
     spelled |-> TRUE, current |-> TRUE, digest |-> digest]
Lifecycle == {"init", "dispose"}
BrokerOnly == {"pliego:effects/broker"}
WithClock == BrokerOnly \cup {"wasi:clocks"}
HandlerOf(imports, caps, digest) ==
    ManifestOf("server", "component", "handler", imports, "recorded", caps, Lifecycle, digest)
MCManifests ==
    {HandlerOf(BrokerOnly, {"effect-broker", "network"}, "b"),
     HandlerOf(BrokerOnly, {"network"}, "b"),
     HandlerOf(WithClock, {"effect-broker", "clock"}, "c"),
     ManifestOf("build", "component", "transformer", {}, "pure", {}, Lifecycle, "p"),
     ManifestOf("build", "component", "transformer", {}, "native", {"dom"}, Lifecycle, "p"),
     ManifestOf("browser", "esm", "none", {}, "native", {"dom"}, Lifecycle \cup {"update", "hmr"},
                "p")}
BinaryOf(id, imports) == [id |-> id, imports |-> imports, exports |-> {"x"}]
MCBinaries ==
    {BinaryOf("b", BrokerOnly), BinaryOf("p", {}), BinaryOf("c", WithClock),
     BinaryOf("u", {"env"})}

-----------------------------------------------------------------------------
(* Content: two names that fold alike, a directory and a reserved name.    *)

NameOf(stem, folded, format, portable) ==
    [stem |-> stem, folded |-> folded, format |-> format, portable |-> portable]
MCContentNames ==
    <<NameOf("A", "a", "json", TRUE), NameOf("a", "a", "markdown", TRUE),
      NameOf("d", "d", "none", TRUE), NameOf("nul", "nul", "markdown", FALSE)>>
TextOf(size, text) == [kind |-> "file", size |-> size, text |-> text]
NodeOf(kind) == [kind |-> kind, size |-> 0, text |-> "plain"]
MCContentPaths == {<< >>, <<1>>, <<2>>, <<3>>, <<4>>, <<3, 2>>, <<3, 3>>}
EmptyTree == [p \in MCContentPaths |-> NodeOf(IF p = << >> THEN "dir" ELSE "none")]
MCTrees ==
    {[EmptyTree EXCEPT ![<<2>>] = TextOf(1, "plain"), ![<<3>>] = NodeOf("dir"),
                       ![<<3, 2>>] = TextOf(1, "crlf")],
     [EmptyTree EXCEPT ![<<1>>] = TextOf(2, "plain"), ![<<3>>] = NodeOf("dir")]}
MCNodes ==
    {TextOf(1, "plain"), TextOf(2, "crlf"), TextOf(2, "html"), TextOf(4, "plain"),
     TextOf(1, "other")} \cup {NodeOf(k) : k \in {"none", "link", "dir", "special"}}

-----------------------------------------------------------------------------
(* Bundles: a release, its successors (the second cannot be rolled back),  *)
(* one too large, one that needs a native feature, one with a bad route.   *)

FeatureOf(id) == [id |-> id, version |-> 1, required |-> TRUE]
TargetOf(kind) ==
    [kind |-> kind, paths |-> {"wasm"}, required |-> {FeatureOf("http.complete")},
     optional |-> {}]
MCRelease ==
    [sound |-> TRUE, app |-> "app", release |-> "r1", prev |-> "", epoch |-> 1, seq |-> 1,
     schema |-> "s", safe |-> TRUE, graph |-> "g", contract |-> "c",
     caps |-> {FeatureOf("http.complete"), [FeatureOf("cache.private") EXCEPT !.required = FALSE]},
     artifacts |-> [p \in {"page", "sbom", "wasm"} |-> [bytes |-> 20, digest |-> p]],
     sbom |-> "sbom", prov |-> "sbom",
     targets |-> ("native-linux-oci" :> TargetOf("NativeOci"))
                 @@ ("cloudflare-workers" :> TargetOf("CloudflareWorkers")),
     policies |-> "pol" :> [domain |-> "Public", revalidation |-> "Immutable", aged |-> FALSE,
                            varies |-> FALSE],
     assets |-> "/page" :> [path |-> "page", policy |-> "pol"],
     secrets |-> [s \in {"key", "opt"} |-> [required |-> s = "key", leaks |-> FALSE]],
     permissions |-> "db" :> {"read"},
     functions |-> "render" :> [modes |-> {"Complete"}, secrets |-> {"opt"},
                                permissions |-> {"db"}, budget |-> 1],
     routes |->
        ("home" :> [key |-> <<"GET", "/">>, shape |-> <<"GET", "/">>, kind |-> "Dynamic",
                    asset |-> "", function |-> "render", mode |-> "Complete", policy |-> "pol",
                    features |-> {FeatureOf("http.complete")}])
        @@ ("doc" :> [key |-> <<"GET", "/d">>, shape |-> <<"GET", "/d">>, kind |-> "Static",
                      asset |-> "page", function |-> "", mode |-> "Complete", policy |-> "",
                      features |-> {}])]
MCBundles ==
    {MCRelease,
     [MCRelease EXCEPT !.release = "r2", !.prev = "r1", !.seq = 2, !.safe = FALSE],
     [MCRelease EXCEPT !.release = "r3", !.prev = "r2", !.seq = 3],
     [MCRelease EXCEPT !.release = "r4", !.prev = "r1", !.seq = 3, !.artifacts["page"] = [bytes |-> 26, digest |-> "big"]],
     [MCRelease EXCEPT !.release = "r5", !.schema = "s2",
                       !.routes["home"].features = {FeatureOf("cache.private")}],
     [MCRelease EXCEPT !.release = "r6", !.routes["doc"].asset = "wasm"]}
MCDisk == [p \in {"page", "sbom", "wasm"} |-> [bytes |-> 20, digest |-> p, mtime |-> 0]]
MCDisks == {MCDisk, [MCDisk EXCEPT !["page"].bytes = 26, !["page"].digest = "big"], [p \in {"page", "sbom"} |-> MCDisk[p]]}
MCTouched ==
    {[bytes |-> 20, digest |-> "other"], [bytes |-> 21, digest |-> "longer"],
     [bytes |-> 20, digest |-> "page"]}

-----------------------------------------------------------------------------
(* Scaffolding: two processes with one id, destinations with one slug, and *)
(* templates that are sound, not portable, not text and not a tree.        *)

FileOf(name) ==
    [path |-> name, key |-> <<name>>, portable |-> ScaPortable(name), mode |-> "Text",
     token |-> "name"]
MCTemplates ==
    ("a" :> <<FileOf("main"), FileOf("css")>>) @@ ("b" :> <<FileOf("readme")>>)
    @@ ("c" :> <<FileOf("nul")>>) @@ ("d" :> <<[FileOf("main") EXCEPT !.mode = "Copy"]>>)
    @@ ("e" :> <<FileOf("main"), [FileOf("x") EXCEPT !.key = <<"main", "x">>]>>)
MCPids == [p \in {"p", "q"} |-> 1]
MCDestinations == ("my app" :> "my-app") @@ ("my-app" :> "my-app") @@ ("1" :> "")

-----------------------------------------------------------------------------
(* Inspection: two tracked files and one that is not; manifests that name  *)
(* both, exclude one, forget one, spell a path with a dot and are too big. *)

MCInsFiles ==
    [a |-> [path |-> <<"a">>, ext |-> ".png", first |-> "one"],
     b |-> [path |-> <<"b">>, ext |-> ".PNG", first |-> "two"],
     c |-> [path |-> <<"c">>, ext |-> ".txt", first |-> "one"]]
MCInsVariant(id, path, content, bytes) ==
    [id |-> id, path |-> path, digest |-> content, bytes |-> bytes, tiers |-> <<"lite">>,
     fallbackFor |-> {}, delivery |-> "initial"]
MCInsBudget(ids, limit) ==
    [variants |-> ids, limit |-> limit, tier |-> "lite", phase |-> "initial"]
MCInsWork(name, variants, excluded, budgets) ==
    [work |-> name, large |-> FALSE, sound |-> TRUE, variants |-> variants,
     extensions |-> <<".png">>, excluded |-> excluded, budgets |-> budgets]
MCInsA == MCInsVariant("va", <<"a">>, "one", 3)
MCInsB == MCInsVariant("vb", <<"b">>, "two", 5)
MCInsManifests ==
    [w1 |-> MCInsWork("w1", <<MCInsA, MCInsB>>, << >>,
                      {MCInsBudget(<<"va", "vb">>, {6}), MCInsBudget(<<"va">>, {3})}),
     w2 |-> MCInsWork("w2", <<MCInsA>>, <<<<"b">>>>, {MCInsBudget(<<"va">>, {7})}),
     w3 |-> MCInsWork("w3", <<MCInsA>>, << >>, {}),
     w4 |-> MCInsWork("w4", <<MCInsVariant("va", <<".", "a">>, "one", 3),
                              MCInsVariant("vx", <<"..", "x">>, "one", 3)>>, << >>, {}),
     w5 |-> [MCInsWork("w5", << >>, << >>, {}) EXCEPT !.large = TRUE]]
MCInsTarget(id, work, confined) == [id |-> id, work |-> work, confined |-> confined]
MCInsTargets ==
    {<<MCInsTarget("w1", "w1", TRUE), MCInsTarget("w2", "w2", TRUE)>>,
     <<MCInsTarget("w1", "w1", TRUE), MCInsTarget("w1", "w1", TRUE)>>,
     <<MCInsTarget("w1", "w2", TRUE)>>, <<MCInsTarget("w5", "w5", TRUE)>>,
     <<MCInsTarget("w3", "w3", FALSE)>>}
MCInsSize == [one |-> 3, two |-> 5]

-----------------------------------------------------------------------------
(* Diagnostics: two reports to one destination, a report beside an upgrade *)
(* check, or a doctor, while a sound project is edited twice.              *)

MCTruManifest ==
    [there |-> TRUE, toml |-> TRUE, fields |-> TRUE, safe |-> TRUE, client |-> TRUE,
     private |-> FALSE, fits |-> TRUE]
MCTruManifests ==
    {MCTruManifest, [MCTruManifest EXCEPT !.toml = FALSE, !.private = TRUE],
     [MCTruManifest EXCEPT !.safe = FALSE, !.private = TRUE],
     [MCTruManifest EXCEPT !.there = FALSE]}
MCTruLock == [there |-> TRUE, toml |-> TRUE, versions |-> {"cli"}]
MCTruLocks ==
    {MCTruLock, [MCTruLock EXCEPT !.versions = {"cli", "old"}], [MCTruLock EXCEPT !.there = FALSE]}
MCTruBuild == [there |-> TRUE, json |-> TRUE, private |-> FALSE, fits |-> TRUE]
MCTruBuilds == {MCTruBuild, [MCTruBuild EXCEPT !.private = TRUE]}
MCTruTools == {"rustc", "cargo", "rustup", "wasm-target", "wasm-bindgen"}
MCTruToolsets == {MCTruTools, MCTruTools \ {"wasm-target"}}
MCTruCommand ==
    ("p" :> "report") @@ ("q" :> "report") @@ ("u" :> "upgrade") @@ ("d" :> "doctor")
MCTruPid == ("p" :> 1) @@ ("q" :> 1) @@ ("u" :> 2) @@ ("d" :> 3)
MCTruMixes == {{"p", "q"}, {"p", "u"}, {"d"}}

-----------------------------------------------------------------------------
\* A component that does not move starts in one state.
MCInit ==
    /\ focus \in {"publication", "dev", "inputs", "assets", "sdk", "content", "bundle", "scaffold",
                 "inspect", "trust"}
    /\ PubInit
    /\ DevInit /\ (focus # "dev" => devOut = << >>)
    /\ InpInit
    /\ focus # "inputs" =>
          /\ inpEnv = [home |-> <<"home">>, target |-> <<"w", "proj", "target">>, vars |-> {}]
          /\ \A p \in InpOptional : inpDisk[p].kind = "none"
    /\ AssInit
    /\ focus # "assets" =>
          /\ assRecipe = CHOOSE r \in AssRecipes : TRUE
          /\ \A p \in AssFinalizers : assProc[p].at = "off"
    /\ SdkInit /\ (focus # "sdk" => sdkSide = "mcp")
    /\ ConInit /\ (focus # "content" => conTree = CHOOSE t \in ConTrees : TRUE)
    /\ BunInit /\ (focus # "bundle" => bunWho = "serves")
    /\ ScaInit
    /\ InsInit
    /\ TruInit
    /\ truDisk.manifest.form = MCTruManifest
    /\ truDisk.lock.form = MCTruLock /\ truDisk.build.form = MCTruBuild
    /\ {p \in TruProcs : truProc[p].at = "start"} \in (IF focus = "trust" THEN MCTruMixes ELSE {{}})
    /\ focus # "trust" => truTools = MCTruTools

\* Everything but one component.
Others(component) ==
    /\ UNCHANGED focus
    /\ component # "publication" => UNCHANGED pubVars
    /\ component # "dev"         => UNCHANGED devVars
    /\ component # "inputs"      => UNCHANGED inpVars
    /\ component # "assets"      => UNCHANGED assVars
    /\ component # "sdk"         => UNCHANGED sdkVars
    /\ component # "content"     => UNCHANGED conVars
    /\ component # "bundle"      => UNCHANGED bunVars
    /\ component # "scaffold"    => UNCHANGED scaVars
    /\ component # "inspect"     => UNCHANGED insVars
    /\ component # "trust"       => UNCHANGED truVars

MCNext ==
    \/ focus = "publication" /\ PubNext /\ Others("publication")
    \/ focus = "dev"         /\ DevNext /\ Others("dev")
    \/ focus = "inputs"      /\ InpNext /\ Others("inputs")
    \/ focus = "assets"      /\ AssNext /\ Others("assets")
    \/ focus = "sdk"         /\ SdkNext /\ Others("sdk")
    \/ focus = "content"     /\ ConNext /\ Others("content")
    \/ focus = "bundle"      /\ BunNext /\ Others("bundle")
    \/ focus = "scaffold"    /\ ScaNext /\ Others("scaffold")
    \/ focus = "inspect"     /\ InsNext /\ Others("inspect")
    \/ focus = "trust"       /\ TruNext /\ Others("trust")
=============================================================================
