----------------------------- MODULE ContentLoader -----------------------------
(***************************************************************************)
(* Content collections (pliego-content): a directory is walked under       *)
(* limits, its sources are named, checked for collisions, opened, read and *)
(* parsed one by one, while an author keeps editing the tree.  A name is   *)
(* an index into ConNames, which lists names in sorted order; a path is a  *)
(* sequence of names; a text is one of a few kinds.                        *)
(***************************************************************************)
EXTENDS Naturals, Sequences, SequencesExt, FiniteSets, FiniteSetsExt

CONSTANTS
    ConNames,    \* the names: [stem, folded, format, portable], sorted
    ConPaths,    \* the paths that may exist, with the root <<>>
    ConTrees,    \* initial trees: path -> [kind, size, text]
    ConNodes,    \* what an author may put at a path
    ConEdits,    \* bound: edits
    ConLoads,    \* bound: loads
    ConMaxDepth, ConMaxEntries, ConMaxFile, ConMaxTotal,  \* ContentLimits
    ConTrusted   \* MarkdownPolicy::Trusted

ConKinds == {"none", "file", "dir", "link", "special"}
ConTexts == {"plain", "crlf", "other", "html", "bare", "open", "broken", "bom", "binary"}
ConNode == [kind : ConKinds, size : Nat, text : ConTexts]

ASSUME ConLimitsAssumption ==
    {ConMaxDepth, ConMaxEntries, ConMaxFile, ConMaxTotal} \subseteq Nat

ASSUME ConTreesAssumption ==
    /\ ConPaths \subseteq Seq(DOMAIN ConNames) /\ <<>> \in ConPaths
    /\ ConTrees \subseteq [ConPaths -> ConNode] /\ ConNodes \subseteq ConNode

\* The folded form of a name is its stem in lower case.
ASSUME ConNamesAssumption ==
    /\ ConNames \in Seq(ToSet(ConNames))
    /\ \A m, n \in DOMAIN ConNames :
          ConNames[m].stem = ConNames[n].stem => ConNames[m].folded = ConNames[n].folded

VARIABLES
    conTree,     \* the file system
    conRun,      \* the load in progress
    conLast,     \* <<>> or <<the snapshot of the last collection>>
    conDiffs,    \* history: [before, after, diff] of consecutive collections
    conLeft      \* edits and loads left

conVars == <<conTree, conRun, conLast, conDiffs, conLeft>>

-----------------------------------------------------------------------------
(* Names, texts and fingerprints.                                          *)

\* detect_format.
ConFormat(p) == IF p = <<>> THEN "none" ELSE ConNames[Last(p)].format

\* normalized_relative_path, validate_portable_segment.
ConPortable(p) == \A k \in DOMAIN p : ConNames[p[k]].portable

\* SourceFile::new: the path without its extension.
ConId(p) == [k \in DOMAIN p |-> ConNames[p[k]].stem]

\* ContentId::collision_key: the id in lower case.
ConKey(p) == [k \in DOMAIN p |-> ConNames[p[k]].folded]

\* collision_diagnostics.
ConCollides(sources) == \E p \in sources, q \in sources : p /= q /\ ConKey(p) = ConKey(q)

\* normalize_line_endings.
ConNormalized(text) == IF text = "crlf" THEN "plain" ELSE text

\* fingerprint.
ConFingerprint(p, text) == <<p, ConFormat(p), ConTrusted, ConNormalized(text)>>

\* split_frontmatter, validate_ast and the deserializers, as parse_source
\* calls them.
ConProblem(format, text) ==
    CASE text = "binary" -> "utf8"
      [] text = "bom" -> "bom"
      [] text = "broken" -> "deserialize"
      [] text \in {"bare", "open"} /\ format = "markdown" -> text
      [] text = "html" /\ format = "markdown" /\ ~ConTrusted -> "unsafe"
      [] text \in {"bare", "open", "html"} /\ format /= "markdown" -> "deserialize"
      [] text = "html" /\ format = "markdown" /\ ConTrusted -> "none"
      [] text \in {"plain", "crlf", "other"} -> "none"

-----------------------------------------------------------------------------
(* discover.                                                               *)

ConFresh == [at |-> "list", cur |-> <<>>, todo |-> <<>>, found |-> {}, seen |-> 0, bytes |-> 0,
             handle |-> [kind |-> "none", size |-> 0, text |-> "plain"], diags |-> {}, entries |-> {}]

ConIdle == [ConFresh EXCEPT !.at = "idle"]

ConGo(run) == conRun' = run /\ UNCHANGED <<conTree, conLast, conDiffs, conLeft>>

\* A diagnostic; a limit ends the walk or the reading, anything else does not.
ConDiag(code) == [conRun EXCEPT !.at = "walk", !.diags = @ \cup {code}]
ConLimit(code) == [conRun EXCEPT !.at = "failed", !.diags = @ \cup {code}]

\* read_dir, sorted: the names that exist below a directory, in order.
ConExists(p) == p \in ConPaths /\ conTree[p].kind /= "none"
ConChildren(p) ==
    FoldLeftDomain(LAMBDA seq, n : IF ConExists(Append(p, n)) THEN Append(seq, Append(p, n)) ELSE seq,
                   <<>>, ConNames)

\* discover of a directory: its depth, what it is now, and its entries.
ConList ==
    /\ conRun.at = "list"
    /\ LET p == conRun.cur
           kind == conTree[p].kind
           children == ConChildren(p)
       IN  ConGo(CASE Len(p) > ConMaxDepth -> ConLimit("depth")
                   [] Len(p) <= ConMaxDepth /\ kind = "none" -> ConDiag("io")
                   [] Len(p) <= ConMaxDepth /\ kind = "link" -> ConDiag("link")
                   [] Len(p) <= ConMaxDepth /\ kind \in {"file", "special"} -> ConDiag("directory")
                   [] Len(p) <= ConMaxDepth /\ kind = "dir" ->
                        IF conRun.seen + Len(children) > ConMaxEntries THEN ConLimit("entries")
                        ELSE [conRun EXCEPT !.at = "walk", !.todo = children \o @, !.seen = @ + Len(children)])

\* The next entry of the walk.
ConWalk ==
    /\ conRun.at = "walk" /\ conRun.todo /= <<>>
    /\ LET p == Head(conRun.todo)
           node == conTree[p]
           on == [conRun EXCEPT !.todo = Tail(@)]
           content == node.kind = "file" /\ ConFormat(p) /= "none"
       IN  ConGo(CASE node.kind = "dir" -> [on EXCEPT !.at = "list", !.cur = p]
                   [] node.kind = "none" -> [on EXCEPT !.diags = @ \cup {"io"}]
                   [] node.kind = "link" -> [on EXCEPT !.diags = @ \cup {"link"}]
                   [] node.kind = "special" -> [on EXCEPT !.diags = @ \cup {"type"}]
                   [] node.kind = "file" /\ ~content -> on
                   [] content /\ node.size > ConMaxFile -> ConLimit("file")
                   [] content /\ node.size <= ConMaxFile /\ node.size > ConMaxTotal - conRun.bytes -> ConLimit("total")
                   [] content /\ node.size <= ConMaxFile /\ node.size <= ConMaxTotal - conRun.bytes ->
                        [on EXCEPT !.found = @ \cup {p}, !.bytes = @ + node.size])

\* load_collection_with_options between the walk and the reading.
ConNameSources ==
    /\ conRun.at = "walk" /\ conRun.todo = <<>>
    /\ LET bad == IF \E p \in conRun.found : ~ConPortable(p) THEN {"path"}
                  ELSE IF ConCollides(conRun.found) THEN {"collision"} ELSE {}
           diags == IF conRun.diags /= {} THEN conRun.diags ELSE bad
       IN  ConGo([conRun EXCEPT !.at = IF diags = {} THEN "check" ELSE "failed", !.diags = diags, !.bytes = 0,
                                !.cur = <<>>])

-----------------------------------------------------------------------------
(* parse_source, read_source_bytes.                                        *)

ConRest == conRun.found \ {e.path : e \in conRun.entries}

\* A source that could not be used: the next one is tried.
ConSkip(p, code) == [conRun EXCEPT !.at = "check", !.found = @ \ {p}, !.diags = @ \cup {code}]

\* The path is looked at again, before it is opened without following links.
ConCheck ==
    /\ conRun.at = "check"
    /\ \E p \in ConRest :
          ConGo(CASE conTree[p].kind = "none" -> ConSkip(p, "io")
                  [] conTree[p].kind = "link" -> ConSkip(p, "link")
                  [] conTree[p].kind \in {"dir", "special"} -> ConSkip(p, "type")
                  [] conTree[p].kind = "file" -> [conRun EXCEPT !.at = "open", !.cur = p])

ConOpen ==
    /\ conRun.at = "open"
    /\ LET p == conRun.cur
           node == conTree[p]
           file == node.kind = "file"
       IN  ConGo(CASE node.kind \in {"none", "link"} -> ConSkip(p, "io")
                   [] node.kind \in {"dir", "special"} -> ConSkip(p, "type")
                   [] file /\ node.size > ConMaxFile -> ConLimit("file")
                   [] file /\ node.size <= ConMaxFile /\ node.size > ConMaxTotal - conRun.bytes -> ConLimit("total")
                   [] file /\ node.size <= ConMaxFile /\ node.size <= ConMaxTotal - conRun.bytes ->
                        [conRun EXCEPT !.at = "read", !.handle = node])

\* Mutant: what the handle's metadata said is believed.
ConReadProblemTrusting(size) == "none"

\* The bytes read are bounded again: the file may have grown.
ConReadProblem(size) ==
    IF size > ConMaxFile THEN "file" ELSE IF size > ConMaxTotal - conRun.bytes THEN "total" ELSE "none"

\* The open file is read: an author may have written to it in place, or put
\* another file at its path.
ConRead ==
    /\ conRun.at = "read"
    /\ \E node \in {conRun.handle} \cup {conTree[conRun.cur]} :
          /\ node.kind = "file"
          /\ LET p == conRun.cur
                 limit == ConReadProblem(node.size)
                 problem == ConProblem(ConFormat(p), ConNormalized(node.text))
             IN  ConGo(CASE limit /= "none" -> ConLimit(limit)
                         [] limit = "none" /\ problem /= "none" -> [ConSkip(p, problem) EXCEPT !.bytes = @ + node.size]
                         [] limit = "none" /\ problem = "none" ->
                              [conRun EXCEPT !.at = "check", !.bytes = @ + node.size,
                                 !.entries = @ \cup {[path |-> p, size |-> node.size, text |-> ConNormalized(node.text),
                                                      fingerprint |-> ConFingerprint(p, node.text)]}])

-----------------------------------------------------------------------------
(* Snapshots.                                                              *)

\* Collection::snapshot: fingerprints by id.
ConSnapshot(entries) == {<<ConId(e.path), e.fingerprint>> : e \in entries}

\* SnapshotDiff of CollectionSnapshot::diff.
ConDiff(before, after) ==
    LET old == {e[1] : e \in before}
        new == {e[1] : e \in after}
    IN  [added |-> new \ old, removed |-> old \ new,
         changed |-> {id \in old \cap new : \A e \in before : e[1] = id => e \notin after}]

\* Every source was read: a collection, unless there was a diagnostic.
ConFinish ==
    /\ conRun.at = "check" /\ ConRest = {}
    /\ conRun' = [conRun EXCEPT !.at = IF conRun.diags = {} THEN "loaded" ELSE "failed"]
    /\ IF conRun.diags = {}
       THEN /\ conLast' = <<conRun.entries>>
            /\ conDiffs' = IF conLast = <<>> THEN conDiffs
                           ELSE conDiffs \cup {[before |-> conLast[1], after |-> conRun.entries,
                                                diff |-> ConDiff(ConSnapshot(conLast[1]), ConSnapshot(conRun.entries))]}
       ELSE UNCHANGED <<conLast, conDiffs>>
    /\ UNCHANGED <<conTree, conLeft>>

ConLoad ==
    /\ conRun.at \in {"idle", "loaded", "failed"} /\ conLeft.loads > 0
    /\ conRun' = ConFresh
    /\ conLeft' = [conLeft EXCEPT !.loads = @ - 1]
    /\ UNCHANGED <<conTree, conLast, conDiffs>>

\* The author changes what is at a path.
ConEdit(p, node) ==
    /\ conLeft.edits > 0 /\ conTree[p] /= node
    /\ conTree' = [conTree EXCEPT ![p] = node]
    /\ conLeft' = [conLeft EXCEPT !.edits = @ - 1]
    /\ UNCHANGED <<conRun, conLast, conDiffs>>

ConInit ==
    /\ conTree \in ConTrees
    /\ conRun = ConIdle /\ conLast = <<>> /\ conDiffs = {}
    /\ conLeft = [edits |-> ConEdits, loads |-> ConLoads]

ConNext ==
    \/ ConLoad \/ ConList \/ ConWalk \/ ConNameSources \/ ConCheck \/ ConOpen \/ ConRead \/ ConFinish
    \/ \E p \in ConPaths \ {<<>>}, node \in ConNodes : ConEdit(p, node)

ConSpec == ConInit /\ [][ConNext]_conVars

-----------------------------------------------------------------------------
(* Properties.                                                             *)

\* A collection that is returned stays within every limit, whatever grew,
\* vanished or became a link between the walk, the open and the read; no two
\* of its entries differ only in case or extension, and none of them holds
\* markup its policy forbids.
ConCollectionsAreSound ==
    conRun.at = "loaded" =>
        /\ MapThenSumSet(LAMBDA e : e.size, conRun.entries) <= ConMaxTotal
        /\ Cardinality(conRun.entries) <= ConMaxEntries
        /\ \A e \in conRun.entries :
              /\ e.size <= ConMaxFile /\ Len(e.path) <= ConMaxDepth + 1
              /\ e.text = "html" => ConTrusted \/ ConFormat(e.path) /= "markdown"
              /\ \A o \in conRun.entries : ConKey(o.path) = ConKey(e.path) => o = e

\* The difference of two collections names exactly the ids whose source or
\* whose text changed, line endings aside.
ConDiffsAreExact ==
    \A d \in conDiffs : \A id \in {ConId(p) : p \in ConPaths} :
        LET old == {<<e.path, e.text>> : e \in {f \in d.before : ConId(f.path) = id}}
            new == {<<e.path, e.text>> : e \in {f \in d.after : ConId(f.path) = id}}
        IN  (old /= new) = (id \in d.diff.added \cup d.diff.changed \cup d.diff.removed)

\* A loaded collection is what the rules admit, and two loads differ exactly
\* where their diff says (load_collection_with_options, CollectionSnapshot::diff).
ConGuarantees ==
    /\ ConCollectionsAreSound
    /\ ConDiffsAreExact

-----------------------------------------------------------------------------
(* What makes ConGuarantees inductive.                                     *)

\* The paths a walk may still find: below a directory within the depth.
ConNear(p) == p \in ConPaths /\ Len(p) <= ConMaxDepth + 1

\* The walk: what it found and has still to look at was counted.
ConWalking(r) ==
    /\ r.entries = {} /\ r.seen \in Nat /\ r.seen <= ConMaxEntries /\ r.bytes \in Nat
    /\ ConNear(r.cur)
    /\ r.todo \in Seq(ConPaths) /\ \A i \in 1..Len(r.todo) : ConNear(r.todo[i])
    /\ IsFiniteSet(r.found) /\ \A p \in r.found : ConNear(p)
    /\ Cardinality(r.found) + Len(r.todo) <= r.seen

\* An entry of a collection.
ConEntryOk(e) ==
    /\ e.size \in Nat /\ e.size <= ConMaxFile
    /\ e.text \in ConTexts /\ e.text = ConNormalized(e.text)
    /\ e.fingerprint = ConFingerprint(e.path, e.text)
    /\ e.text = "html" => ConTrusted \/ ConFormat(e.path) /= "markdown"
    /\ ConNear(e.path)

\* No two entries differ only in case or extension.
ConEntriesOk(entries) ==
    /\ IsFiniteSet(entries)
    /\ \A e \in entries : ConEntryOk(e)
    /\ \A e, o \in entries : ConKey(o.path) = ConKey(e.path) => o = e

ConSizes(entries) == MapThenSumSet(LAMBDA e : e.size, entries)
ConUnread(r) == r.found \ {e.path : e \in r.entries}

\* The reading: what was read is within the limits, what was not is as the walk
\* left it.
ConReading(r) ==
    /\ ConEntriesOk(r.entries) /\ {e.path : e \in r.entries} \subseteq r.found
    /\ IsFiniteSet(r.found) /\ \A p \in r.found : ConNear(p)
    /\ ~ConCollides(r.found)
    /\ Cardinality(r.entries) + Cardinality(ConUnread(r)) <= ConMaxEntries
    /\ r.bytes \in Nat /\ ConSizes(r.entries) <= r.bytes /\ r.bytes <= ConMaxTotal
    /\ r.at \in {"open", "read"} => r.cur \in ConUnread(r)
    /\ r.at = "read" => r.handle \in ConNode

ConShape(r) ==
    r = [at |-> r.at, cur |-> r.cur, todo |-> r.todo, found |-> r.found, seen |-> r.seen,
         bytes |-> r.bytes, handle |-> r.handle, diags |-> r.diags, entries |-> r.entries]

ConDiffOk(d) ==
    /\ ConEntriesOk(d.before) /\ ConEntriesOk(d.after)
    /\ d.diff = ConDiff(ConSnapshot(d.before), ConSnapshot(d.after))

ConRunOk(r) ==
    /\ ConShape(r)
    /\ r.at \in {"idle", "list", "walk", "check", "open", "read", "loaded", "failed"}
    /\ r.at \in {"list", "walk"} => ConWalking(r)
    /\ r.at \in {"check", "open", "read", "loaded"} => ConReading(r)

ConInvariant ==
    /\ ConRunOk(conRun) /\ conTree \in [ConPaths -> ConNode]
    /\ conLast /= <<>> => ConEntriesOk(conLast[1])
    /\ \A d \in conDiffs : ConDiffOk(d)
================================================================================
