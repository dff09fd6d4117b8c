------------------------------ MODULE RenderStream ------------------------------
(***************************************************************************)
(* Server rendering of pliego-runtime: complete documents, and the two     *)
(* streamed bodies.  An ordered body renders chunks as its input yields    *)
(* them; a boundary body keeps a window of futures in flight, which end in *)
(* any order, fail, panic or time out, while the client polls one document.*)
(* Markup is a sequence of pieces, a piece is <<name, bytes>>.             *)
(***************************************************************************)
EXTENDS Naturals, Sequences, FiniteSets, SequencesExt

CONSTANTS
    RenDocuments,   \* documents a handler may render
    RenInputs,      \* sequences of chunks or boundaries it may render in one
    RenOptions,     \* RenderLimits and the options of the three entry points
    RenHardChunks, RenHardBoundaries, RenHardInFlight   \* HARD_MAX_*

VARIABLE ren    \* the response body and what the client received of it

renVars == <<ren>>

RenSlot == <<"slot", 1>>
RenSuffix == <<"/document", 1>>
RenBytes(pieces) == FoldLeft(LAMBDA sum, p : sum + p[2], 0, pieces)

\* Markup: finitely many pieces, each of some bytes.
RenMarkup(s) == s \in Seq(ToSet(s)) /\ \A p \in ToSet(s) : p[2] \in Nat

ASSUME RenDocumentsAssumption ==
    \A doc \in RenDocuments :
        /\ doc.layouts \in Seq(ToSet(doc.layouts))
        /\ \A id \in DOMAIN doc.layers :
              LET ops == doc.layers[id].operations
              IN  /\ ops \in Seq(ToSet(ops))
                  /\ \A op \in ToSet(ops) : RenMarkup(op.before) /\ RenMarkup(op.after)

ASSUME RenInputsAssumption ==
    \A input \in RenInputs :
        input \in Seq(ToSet(input)) /\ \A b \in ToSet(input) : RenMarkup(b.pieces)

ASSUME RenOptionsAssumption == RenOptions.maxBytes \in Nat /\ RenOptions.inFlight \in Nat

-----------------------------------------------------------------------------
(* Documents and layouts.                                                  *)

\* with_max_chunks, with_max_boundaries, with_max_in_flight.
RenOptionsValid(o) ==
    /\ o.chunks \in 1..RenHardChunks
    /\ o.boundaries \in 1..RenHardBoundaries
    /\ o.inFlight \in 1..RenHardInFlight

\* merge_document_head: what a head sets replaces, what it lists is added once.
RenMergeHead(meta, head) ==
    LET set(old, new) == IF new = {} THEN old ELSE new
        add(old, new) == FoldLeft(LAMBDA l, x : IF Contains(l, x) THEN l ELSE Append(l, x), old, new)
    IN [title |-> set(meta.title, head.title), language |-> set(meta.language, head.language),
        assets |-> add(meta.assets, head.assets)]

NoHead == [title |-> {}, language |-> {}, assets |-> <<>>]

\* compose_layout_metadata: outermost layout first, the page last.
RenMetadata(doc) ==
    RenMergeHead(FoldLeft(LAMBDA m, id : RenMergeHead(m, doc.layers[id].head), NoHead,
                          doc.layouts), doc.head)

\* LayoutLayer::compose: operations enclose the frame in the order declared.
RenLayer(layer, frame) ==
    FoldLeft(LAMBDA f, op : op.before \o f \o op.after, frame, layer.operations)

\* compose_layout_body: the innermost layout is applied first.
RenBody(doc, body) ==
    FoldLeft(LAMBDA f, id : RenLayer(doc.layers[id], f), body, Reverse(doc.layouts))

\* layout: every layer is declared once; then every declared layout is there.
RenLayoutsMatch(doc) == DOMAIN doc.layers = ToSet(doc.layouts)

\* validate_document_budget and the field validators; the prefix names what
\* the head says.
RenPrefix(doc) == <<[kind |-> "document", meta |-> RenMetadata(doc)], 1>>
RenDocumentValid(doc) ==
    LET meta == RenMetadata(doc)
    IN /\ RenLayoutsMatch(doc)
       /\ meta.title /= {} /\ doc.valid /\ Len(meta.assets) <= doc.assetLimit

\* LayoutStreamDocument::shell: the composed frame holds the slot exactly once.
RenSlots(doc) == {i \in DOMAIN RenBody(doc, <<RenSlot>>) : RenBody(doc, <<RenSlot>>)[i] = RenSlot}
RenShellBefore(doc) ==
    LET frame == RenBody(doc, <<RenSlot>>)
        at == CHOOSE i \in RenSlots(doc) : TRUE
    IN <<RenPrefix(doc)>> \o SubSeq(frame, 1, at - 1)
RenShellAfter(doc) ==
    LET frame == RenBody(doc, <<RenSlot>>)
        at == CHOOSE i \in RenSlots(doc) : TRUE
    IN Append(SubSeq(frame, at + 1, Len(frame)), RenSuffix)

RenPlaceholder(b) == <<[placeholder |-> b.id], 1>>

-----------------------------------------------------------------------------
(* Opening a response.                                                     *)

RenIdle ==
    [kind |-> "none", phase |-> "none", before |-> <<>>, after |-> <<>>, input |-> <<>>,
     next |-> 1, active |-> <<>>, ended |-> {}, remaining |-> 0, chunks |-> 0,
     out |-> <<>>, error |-> "none", doc |-> {}]

RenInit == ren = RenIdle

RenRefuse(kind, why) == ren' = [RenIdle EXCEPT !.kind = kind, !.phase = "refused", !.error = why]

\* Mutant: the placeholders are not part of a boundary document's overhead.
RenOverheadShell(kind, doc, input) == RenBytes(RenShellBefore(doc) \o RenShellAfter(doc))

\* What is emitted besides the rendered chunks.
RenOverhead(kind, doc, input) ==
    RenBytes(RenShellBefore(doc) \o RenShellAfter(doc))
        + IF kind = "boundary" THEN RenBytes([i \in DOMAIN input |-> RenPlaceholder(input[i])])
          ELSE 0

RenDuplicated(input) == \E i, j \in DOMAIN input : i < j /\ input[i].id = input[j].id

\* fill_in_flight: tasks start in declared order while the window has room.
RenFill(r) ==
    LET n == Min({RenOptions.inFlight - Len(r.active), Len(r.input) - r.next + 1})
    IN [r EXCEPT !.active = @ \o [i \in 1..n |-> r.next + i - 1], !.next = @ + n]

\* render_complete_document, render_layout_document: all or nothing.
RenComplete(doc, input) ==
    LET body == RenBody(doc, input[1].pieces)
        pieces == <<RenPrefix(doc)>> \o body \o <<RenSuffix>>
    IN IF ~RenDocumentValid(doc) THEN RenRefuse("complete", "document")
       ELSE IF input[1].ends /= "ok" THEN RenRefuse("complete", "dom")
       ELSE IF RenBytes(pieces) > RenOptions.maxBytes
                \/ RenBytes(<<RenPrefix(doc), RenSuffix>>) = RenOptions.maxBytes THEN RenRefuse("complete", "limit")
       ELSE IF ~RenOptions.bodyStatus THEN RenRefuse("complete", "status")
       ELSE ren' = [RenIdle EXCEPT !.kind = "complete", !.phase = "Done", !.out = pieces,
                                   !.doc = {doc}, !.input = <<input[1]>>]

\* ordered_response and boundary_response.
RenStream(kind, doc, input) ==
    IF ~RenDocumentValid(doc) THEN RenRefuse(kind, "document")
    ELSE IF Cardinality(RenSlots(doc)) /= 1 THEN RenRefuse(kind, "slot")
    ELSE IF ~RenOptions.bodyStatus THEN RenRefuse(kind, "status")
    ELSE IF kind = "boundary" /\ RenDuplicated(SubSeq(input, 1, Min({Len(input), RenOptions.boundaries})))
         THEN RenRefuse(kind, "duplicate")
    ELSE IF kind = "boundary" /\ Len(input) > RenOptions.boundaries
         THEN RenRefuse(kind, "boundaries")
    ELSE IF RenOverhead(kind, doc, input) > RenOptions.maxBytes THEN RenRefuse(kind, "limit")
    ELSE LET opened == [RenIdle EXCEPT !.kind = kind, !.phase = "Prefix", !.input = input,
                            !.before = RenShellBefore(doc), !.after = RenShellAfter(doc),
                            !.remaining = RenOptions.maxBytes - RenOverhead(kind, doc, input),
                            !.doc = {doc}]
         IN ren' = IF kind = "boundary" THEN RenFill(opened) ELSE opened

RenOpen ==
    /\ ren.phase = "none" /\ RenOptionsValid(RenOptions)
    /\ \E doc \in RenDocuments, input \in RenInputs :
          \/ input /= <<>> /\ RenComplete(doc, input)
          \/ RenStream("ordered", doc, input)
          \/ RenStream("boundary", doc, input)

-----------------------------------------------------------------------------
(* Polling.                                                                *)

RenFail(r, why) == [r EXCEPT !.phase = "Done", !.error = why]
RenEmit(r, pieces) == [r EXCEPT !.out = @ \o pieces]

RenPollPrefix ==
    /\ ren.phase = "Prefix"
    /\ ren' = [RenEmit(ren, ren.before)
                 EXCEPT !.phase = IF ren.kind = "ordered" THEN "Chunks" ELSE "Placeholder"]

\* Rendering under what is left of the budget; the next phase is already set.
RenChunk(r, chunk) ==
    IF r.remaining = 0 THEN RenFail(r, "InvalidLimits")
    ELSE IF chunk.ends = "panic" THEN RenFail(r, "panic")
    ELSE IF chunk.ends = "error" \/ RenBytes(chunk.pieces) > r.remaining THEN RenFail(r, "render")
    ELSE [RenEmit(r, chunk.pieces) EXCEPT !.remaining = @ - RenBytes(chunk.pieces)]

\* OrderedBodyStream::poll_next: the input is polled once per chunk.
RenPollChunk ==
    /\ ren.phase = "Chunks" /\ ren.next <= Len(ren.input)
    /\ LET r == [ren EXCEPT !.next = @ + 1, !.chunks = @ + 1]
       IN ren' = IF r.chunks > RenOptions.chunks THEN RenFail(r, "TooManyChunks")
                 ELSE RenChunk(r, ren.input[ren.next])

RenInputEnds ==
    /\ ren.phase = "Chunks" /\ ren.next > Len(ren.input)
    /\ ren' = [ren EXCEPT !.phase = "Suffix"]

RenInputPanics ==
    /\ ren.phase = "Chunks" /\ ren' = RenFail(ren, "OrderedStreamPanic")

RenEndings == {"ok", "panic", "timeout", "failed"}

\* A task in the window ends: its future is ready, panicked or ran out of time.
RenTaskEnds ==
    /\ ren.phase = "Resolution"
    /\ \E i \in ToSet(ren.active), how \in RenEndings :
          /\ \A e \in ren.ended : e[1] /= i
          /\ ren' = [ren EXCEPT !.ended = @ \cup {<<i, how>>}]

RenPollPlaceholder ==
    /\ ren.phase = "Placeholder"
    /\ ren' = IF ren.active = <<>> THEN [ren EXCEPT !.phase = "Suffix"]
              ELSE [RenEmit(ren, <<RenPlaceholder(ren.input[Head(ren.active)])>>)
                      EXCEPT !.phase = "Resolution"]

\* FuturesOrdered yields the oldest task of the window, once it ended.
RenYielded(e) == e \in ren.ended /\ e[1] = Head(ren.active)

\* BoundaryBodyStream::poll_next: refill, then render the oldest boundary.
RenPollResolution ==
    /\ ren.phase = "Resolution"
    /\ \E e \in ren.ended :
          /\ RenYielded(e)
          /\ LET r == RenFill([ren EXCEPT !.active = Tail(@), !.ended = @ \ {e}])
             IN ren' = IF e[2] /= "ok" THEN RenFail(r, e[2])
                       ELSE RenChunk([r EXCEPT !.phase = "Placeholder"], ren.input[e[1]])

RenPollSuffix ==
    /\ ren.phase = "Suffix"
    /\ ren' = [RenEmit(ren, ren.after) EXCEPT !.phase = "Done"]

\* The client goes away: the body and its futures are dropped with it.
RenDropped ==
    /\ ren.phase \notin {"none", "Done", "refused", "dropped"}
    /\ ren' = [ren EXCEPT !.phase = "dropped", !.active = <<>>, !.ended = {}]

RenReset == ren.phase \in {"Done", "refused", "dropped"} /\ ren' = RenIdle

RenNext ==
    \/ RenOpen \/ RenPollPrefix \/ RenPollChunk \/ RenInputEnds \/ RenInputPanics
    \/ RenTaskEnds \/ RenPollPlaceholder \/ RenPollResolution \/ RenPollSuffix
    \/ RenDropped \/ RenReset

RenSpec == RenInit /\ [][RenNext]_renVars

-----------------------------------------------------------------------------
(* Properties.                                                             *)

\* What each chunk or boundary adds to the document.
RenParts(kind, input) ==
    [i \in DOMAIN input |-> (IF kind = "boundary" THEN <<RenPlaceholder(input[i])>> ELSE <<>>)
                                \o input[i].pieces]

\* The document a client should receive.
RenExpectedOf(doc, kind, input) ==
    <<RenPrefix(doc)>> \o RenBody(doc, FlattenSeq(RenParts(kind, input))) \o <<RenSuffix>>
RenExpected(doc) == RenExpectedOf(doc, ren.kind, ren.input)

\* Whatever order boundaries end in, and wherever a stream fails, the client
\* has received a prefix of the one document that composition defines, never
\* more than max_output_bytes of it, and all of it when the body ended without
\* an error (render.rs poll_next of both bodies, boundary_response).
RenDocumentsAreWhole ==
    \A doc \in ren.doc :
        /\ IsPrefix(ren.out, RenExpected(doc))
        /\ RenBytes(ren.out) <= RenOptions.maxBytes
        /\ Len(ren.active) <= RenOptions.inFlight
        /\ ren.phase = "Done" /\ ren.error = "none" => ren.out = RenExpected(doc)

-----------------------------------------------------------------------------
(* What makes RenDocumentsAreWhole inductive.                              *)

\* The shell and the first k parts of the document.
RenUpTo(r, k) == r.before \o FlattenSeq(SubSeq(RenParts(r.kind, r.input), 1, k))

\* The oldest boundary in flight; the next chunk of an ordered body.
RenOldest(r) == r.next - Len(r.active)

\* The boundaries in flight are consecutive, and the window is as full as the
\* input allows.
RenWindow(r) ==
    /\ r.next \in 1..(Len(r.input) + 1)
    /\ r.active \in Seq(Nat) /\ Len(r.active) < r.next
    /\ \A i \in 1..Len(r.active) : r.active[i] = RenOldest(r) + i - 1
    /\ IF r.kind = "boundary"
       THEN /\ Len(r.active) <= RenOptions.inFlight
            /\ Len(r.active) = RenOptions.inFlight \/ r.next = Len(r.input) + 1
       ELSE r.active = <<>>

\* What has been sent, what must still be, and what may: together the limit.
RenBudget(r, sent, placeholders) ==
    /\ r.remaining \in Nat
    /\ RenBytes(sent) + RenBytes(r.after) + r.remaining
         + (IF r.kind = "boundary" THEN placeholders ELSE 0) = RenOptions.maxBytes

\* A body that is still being polled.
RenPolling(r) ==
    LET h == RenOldest(r)
        n == Len(r.input)
    IN  /\ r.error = "none" /\ r.kind \in {"ordered", "boundary"}
        /\ RenWindow(r)
        /\ \A e \in r.ended : e[2] \in RenEndings
        /\ \/ /\ r.phase = "Prefix" /\ r.out = <<>> /\ h = 1
              /\ RenBudget(r, r.before, n)
           \/ /\ r.phase = "Chunks" /\ r.kind = "ordered" /\ r.out = RenUpTo(r, h - 1)
              /\ RenBudget(r, r.out, 0)
           \/ /\ r.phase = "Placeholder" /\ r.kind = "boundary" /\ r.out = RenUpTo(r, h - 1)
              /\ RenBudget(r, r.out, n - (h - 1))
           \/ /\ r.phase = "Resolution" /\ r.kind = "boundary" /\ r.active /= <<>>
              /\ r.out = RenUpTo(r, h - 1) \o <<RenPlaceholder(r.input[h])>>
              /\ RenBudget(r, r.out, n - h)
           \/ /\ r.phase = "Suffix" /\ r.out = RenUpTo(r, n)
              /\ RenBudget(r, r.out, 0)

\* The document and the body a polled response was opened for.
RenOpened(r, doc, input) ==
    /\ doc \in RenDocuments /\ input \in RenInputs
    /\ r.doc = {doc} /\ r.input = input
    /\ RenOptionsValid(RenOptions)
    /\ RenDocumentValid(doc) /\ Cardinality(RenSlots(doc)) = 1
    /\ r.before = RenShellBefore(doc) /\ r.after = RenShellAfter(doc)

\* What the client has may be all it ever gets.
RenSafe(r, doc) ==
    /\ IsPrefix(r.out, RenExpectedOf(doc, r.kind, r.input))
    /\ RenBytes(r.out) <= RenOptions.maxBytes
    /\ Len(r.active) <= RenOptions.inFlight

\* A body the client will get no more of.
RenEnded(r, doc) ==
    /\ doc \in RenDocuments /\ r.doc = {doc}
    /\ r.phase \in {"Done", "dropped"}
    /\ RenSafe(r, doc)
    /\ r.phase = "Done" /\ r.error = "none" => r.out = RenExpectedOf(doc, r.kind, r.input)

RenShape(r) ==
    r = [kind |-> r.kind, phase |-> r.phase, before |-> r.before, after |-> r.after,
         input |-> r.input, next |-> r.next, active |-> r.active, ended |-> r.ended,
         remaining |-> r.remaining, chunks |-> r.chunks, out |-> r.out, error |-> r.error,
         doc |-> r.doc]

RenInvariant ==
    /\ RenShape(ren)
    /\ \/ ren = RenIdle
       \/ ren.doc = {} /\ ren.phase = "refused"
       \/ \E doc \in RenDocuments, input \in RenInputs :
             RenOpened(ren, doc, input) /\ RenPolling(ren)
       \/ \E doc \in RenDocuments : RenEnded(ren, doc)
=============================================================================
