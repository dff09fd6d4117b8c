------------------------------ MODULE ActionBodies ------------------------------
(***************************************************************************)
(* Action request bodies of pliego-runtime: the decoders that turn a POST  *)
(* into typed input and an ActionAdmission, and the multipart parser with  *)
(* its temporary files.  The parser awaits the client between parts and    *)
(* chunks, where its future may be dropped; another thread cancels and     *)
(* closes the data context at any time.                                    *)
(*                                                                         *)
(* A temporary file belongs to a NamedTempFile until it is kept, then to   *)
(* the two clones of an Arc<TempArtifact>: the one of the upload and the   *)
(* one of its cleanup.  Every handler drops what it owns and no more.      *)
(***************************************************************************)
EXTENDS Naturals, Sequences, FiniteSets, SequencesExt

CONSTANTS
    UpRequests,     \* requests: method, policy, media type, encoding, origin, body
    UpPolicy,       \* ActionPolicy and MultipartPolicy, with the limits of both
    UpCleanupRoom   \* cleanups the data context still accepts

VARIABLES
    up,         \* the decoding in progress and what it has built
    upFiles,    \* temporary files: what became of each and its live clones
    upContext   \* the data context: how far it is closed, and its cleanups

upVars == <<up, upFiles, upContext>>

UpIdle ==
    [at |-> "none", req |-> {}, part |-> 0, chunk |-> 0, bytes |-> 0, size |-> 0, files |-> 0,
     temp |-> {}, kept |-> {}, form |-> <<>>, error |-> "none", admission |-> {}]

UpInit ==
    /\ up = UpIdle
    /\ upFiles = <<>>
    /\ upContext = [stage |-> "open", cancelled |-> FALSE, cleanups |-> {}, taken |-> {}]

UpClosed == upContext.stage # "open"

-----------------------------------------------------------------------------
(* What a request must be before its body is read.                         *)

\* MultipartPolicy::limits.
UpPolicyValid(p) ==
    /\ p.maxParts \in 1..256 /\ p.maxFiles <= p.maxParts
    /\ p.maxText > 0 /\ p.maxFile > 0 /\ p.maxTotal > 0 /\ p.maxFile <= p.maxTotal

\* The checks decode_action_request and decode_multipart_action_request make
\* in turn: sealed policy, method, media type, content encoding.
UpHeadError(q, multipart) ==
    IF ~q.sealed THEN "PLG-ACT-001"
    ELSE IF q.method /= "POST" THEN "PLG-ACT-102"
    ELSE IF q.media \notin UpPolicy.media THEN "PLG-ACT-103"
    ELSE IF multipart /= (q.media = "multipart") THEN "PLG-ACT-103"
    ELSE IF Cardinality(q.encodings) > 1 \/ ~(q.encodings \subseteq UpPolicy.encodings) THEN "PLG-ACT-103"
    ELSE IF multipart /\ ~(q.encodings \subseteq {"identity"}) THEN "PLG-ACT-103"
    ELSE "none"

\* decode_body and the limits around it: what a whole body may be.
UpBodyError(q) ==
    IF q.encoded > UpPolicy.maxEncoded THEN "PLG-ACT-105"
    ELSE IF q.encodings = {"gzip"} /\ ~q.gzip THEN "PLG-ACT-104"
    ELSE IF q.decoded > UpPolicy.maxDecoded THEN "PLG-ACT-105"
    ELSE IF q.media = "form" /\ q.fields > UpPolicy.maxFields THEN "PLG-ACT-105"
    ELSE IF ~q.schema THEN "PLG-ACT-201"
    ELSE "none"

\* The admission carries what was verified, never what the request claims.
UpAdmission(q, bytes) ==
    [bytes |-> bytes, sameOrigin |-> q.origin = UpPolicy.origin, media |-> q.media,
     csrf |-> q.csrf = "bound"]

UpFailed(u, why) == [u EXCEPT !.at = "failed", !.error = why, !.temp = {}, !.kept = {}, !.form = <<>>]

\* The files of a form's uploads; a text field has none.
UpUploads(form) == {form[i].file : i \in DOMAIN form} \ {0}

\* The clones that are left when uploads and cleanups are dropped.
UpLeft(f, uploads, cleanups) ==
    {c \in upFiles[f].clones : ~(c = "upload" /\ f \in uploads) /\ ~(c = "cleanup" /\ f \in cleanups)}

\* Dropping a NamedTempFile, or the last clone of an artifact that was not
\* deleted, removes the file; a removal that fails is not retried.
UpDrops(temps, uploads, cleanups) ==
    \E stuck \in SUBSET DOMAIN upFiles :
        upFiles' = [f \in DOMAIN upFiles |->
            [clones |-> UpLeft(f, uploads, cleanups),
             at     |-> IF \/ upFiles[f].at = "temp" /\ f \in temps
                           \/ upFiles[f].at = "kept" /\ UpLeft(f, uploads, cleanups) = {}
                        THEN IF f \in stuck THEN "stuck" ELSE "gone"
                        ELSE upFiles[f].at]]

\* An error returns from the decoder and drops its locals: the open temporary
\* file, an artifact and its closure, the parts so far.
UpFails(u, why) ==
    up' = UpFailed(u, why) /\ UpDrops(up.temp, up.kept \cup UpUploads(up.form), up.kept)

\* decode_action_request, decode_session_action_request: the body is collected
\* whole, then decoded and its CSRF proof verified.
UpDecode ==
    /\ up.at = "none" /\ upContext.stage # "dropped"
    /\ \E q \in UpRequests :
          /\ q.media /= "multipart"
          /\ LET error == IF UpHeadError(q, FALSE) /= "none" THEN UpHeadError(q, FALSE)
                          ELSE IF UpBodyError(q) /= "none" THEN UpBodyError(q)
                          ELSE IF q.csrf = "missing" THEN "PLG-CSRF-101"
                          ELSE "none"
             IN up' = IF error = "none"
                      THEN [UpIdle EXCEPT !.at = "admitted", !.req = {q},
                                          !.admission = {UpAdmission(q, q.decoded)}]
                      ELSE UpFailed([UpIdle EXCEPT !.req = {q}], error)
    /\ UNCHANGED <<upFiles, upContext>>

\* decode_multipart_action_request up to parse_multipart.
UpBegin ==
    /\ up.at = "none" /\ upContext.stage # "dropped" /\ UpPolicyValid(UpPolicy)
    /\ \E q \in UpRequests :
          /\ q.media = "multipart"
          /\ up' = IF UpHeadError(q, TRUE) /= "none"
                   THEN UpFailed([UpIdle EXCEPT !.req = {q}], UpHeadError(q, TRUE))
                   ELSE IF UpPolicy.kinds = <<>> THEN UpFailed([UpIdle EXCEPT !.req = {q}], "PLG-UPL-001")
                   ELSE [UpIdle EXCEPT !.at = "field", !.req = {q}]
    /\ UNCHANGED <<upFiles, upContext>>

-----------------------------------------------------------------------------
(* parse_multipart.                                                        *)

UpParts(u) == UNION {{q.parts} : q \in u.req}
UpTheParts == CHOOSE p \in UpParts(up) : TRUE
UpPart == UpTheParts[up.part]
UpTotal == Min({UpPolicy.maxTotal, UpPolicy.maxEncoded, UpPolicy.maxDecoded})
UpKind(name) == UpPolicy.kinds[name]
UpFilenameAdmitted(part) == part.filename \in {"none", "ok"}

\* A part's head is admitted; a file part creates its temporary file.
UpField ==
    /\ up.at = "field" /\ up.part < Len(UpTheParts)
    /\ LET u == [up EXCEPT !.part = @ + 1]
           part == UpTheParts[u.part]
           file == part.name \in DOMAIN UpPolicy.kinds /\ UpKind(part.name) = "file"
           error == IF u.part > UpPolicy.maxParts THEN "PLG-UPL-104"
                    ELSE IF UpClosed THEN "PLG-UPL-410"
                    ELSE IF upContext.cancelled THEN "PLG-UPL-408"
                    ELSE IF part.name \notin DOMAIN UpPolicy.kinds THEN "PLG-UPL-102"
                    ELSE IF ~UpFilenameAdmitted(part) THEN "PLG-UPL-103"
                    ELSE IF ~file /\ part.filename /= "none" THEN "PLG-UPL-102"
                    ELSE IF file /\ (up.files + 1 > UpPolicy.maxFiles \/ part.filename = "none")
                         THEN "PLG-UPL-104"
                    ELSE "none"
       IN IF error /= "none" THEN UpFails(u, error)
          ELSE /\ up' = [u EXCEPT !.at = "chunk", !.chunk = 0, !.size = 0,
                                  !.files = IF file THEN @ + 1 ELSE @,
                                  !.temp = IF file THEN {Len(upFiles) + 1} ELSE {}]
               /\ upFiles' = IF file THEN Append(upFiles, [at |-> "temp", clones |-> {}]) ELSE upFiles
    /\ UNCHANGED upContext

\* One chunk of a part is counted and, for a file, written.
UpChunk ==
    /\ up.at = "chunk" /\ up.chunk < Len(UpPart.chunks)
    /\ LET n == UpPart.chunks[up.chunk + 1]
           u == [up EXCEPT !.chunk = @ + 1, !.bytes = @ + n, !.size = @ + n]
           limit == IF up.temp = {} THEN UpPolicy.maxText ELSE UpPolicy.maxFile
       IN IF u.bytes > UpTotal \/ u.size > limit THEN UpFails(u, "PLG-UPL-104")
          ELSE up' = u /\ UNCHANGED upFiles
    /\ UNCHANGED upContext

UpText ==
    /\ up.at = "chunk" /\ up.chunk = Len(UpPart.chunks) /\ up.temp = {}
    /\ IF UpPart.utf8
       THEN /\ up' = [up EXCEPT !.at = "field", !.form = Append(@, [name |-> UpPart.name, file |-> 0])]
            /\ UNCHANGED upFiles
       ELSE UpFails(up, "PLG-UPL-103")
    /\ UNCHANGED upContext

\* The file is flushed and kept, and an artifact with its two clones owns it.
UpKeep ==
    /\ up.at = "chunk" /\ up.chunk = Len(UpPart.chunks) /\ up.temp /= {}
    /\ up' = [up EXCEPT !.at = "register", !.temp = {}, !.kept = up.temp]
    /\ upFiles' = [f \in DOMAIN upFiles |->
          IF f \in up.temp THEN [at |-> "kept", clones |-> {"upload", "cleanup"}] ELSE upFiles[f]]
    /\ UNCHANGED upContext

\* register_cleanup looks whether the context is closed before it locks the
\* list of cleanups.
UpRegister ==
    /\ up.at = "register"
    /\ IF UpClosed THEN UpFails(up, "PLG-UPL-500")
       ELSE up' = [up EXCEPT !.at = "push"] /\ UNCHANGED upFiles
    /\ UNCHANGED upContext

UpFull == Cardinality(upContext.cleanups) >= UpCleanupRoom
UpPushed ==
    /\ ~UpFull
    /\ upContext' = [upContext EXCEPT !.cleanups = @ \cup up.kept]
    /\ \E f \in up.kept :
          up' = [up EXCEPT !.at = "field", !.kept = {},
                           !.form = Append(@, [name |-> UpPart.name, file |-> f])]
    /\ UNCHANGED upFiles

\* Mutant: the artifact is made only once its cleanup is registered, so that
\* nothing deletes the kept file when the context has no room for it.
UpPushLate ==
    /\ up.at = "push"
    /\ \/ UpPushed
       \/ /\ UpFull /\ up' = UpFailed(up, "PLG-UPL-500") /\ UNCHANGED upContext
          /\ UpDrops(up.temp, UpUploads(up.form), {})

\* The rest of register_cleanup, and the part that takes the artifact.
UpPush ==
    /\ up.at = "push"
    /\ \/ UpPushed
       \/ UpFull /\ UpFails(up, "PLG-UPL-500") /\ UNCHANGED upContext

\* The client's stream ends early or breaks the multipart framing, or writing
\* the temporary file fails.
UpBroken ==
    /\ up.at \in {"field", "chunk"}
    /\ \E why \in {"PLG-UPL-101", "PLG-UPL-500"} : UpFails(up, why)
    /\ UNCHANGED upContext

\* MultipartForm::text finds a field that occurs once.
UpTextOf(form, name) == Cardinality({i \in DOMAIN form : form[i].name = name /\ form[i].file = 0}) = 1
    /\ Cardinality({i \in DOMAIN form : form[i].name = name}) = 1

\* decode_session_multipart_action_request: the proof is a text field.
UpForm ==
    /\ up.at = "field" /\ up.part = Len(UpTheParts)
    /\ IF ~UpTextOf(up.form, UpPolicy.csrfField) THEN UpFails(up, "PLG-CSRF-101")
       ELSE /\ \E q \in up.req :
                  up' = [up EXCEPT !.at = "admitted", !.admission = {UpAdmission(q, up.bytes)}]
            /\ UNCHANGED upFiles
    /\ UNCHANGED upContext

\* The handler's future is dropped at an await, or returns and drops its form.
UpDrop ==
    /\ up.at \in {"field", "chunk", "admitted"}
    /\ UpFails(up, "dropped")
    /\ UNCHANGED upContext

-----------------------------------------------------------------------------
(* The data context around it, as RequestContext models it.                *)

UpCancel ==
    /\ ~upContext.cancelled /\ upContext.stage # "dropped"
    /\ upContext' = [upContext EXCEPT !.cancelled = TRUE]
    /\ UNCHANGED <<up, upFiles>>

\* close marks the context as closed and cancelled, then takes what cleanups
\* there are and runs them, each of which deletes its file and is dropped.
UpClose ==
    /\ ~UpClosed
    /\ upContext' = [upContext EXCEPT !.stage = "closing", !.cancelled = TRUE]
    /\ UNCHANGED <<up, upFiles>>

UpTake ==
    /\ upContext.stage = "closing"
    /\ upContext' = [upContext EXCEPT !.stage = "closed", !.taken = upContext.cleanups, !.cleanups = {}]
    /\ UNCHANGED <<up, upFiles>>

UpCleanup ==
    /\ \E f \in upContext.taken, how \in {"gone", "stuck"} :
          /\ upContext' = [upContext EXCEPT !.taken = @ \ {f}]
          /\ upFiles' = [upFiles EXCEPT ![f] =
                [clones |-> @.clones \ {"cleanup"}, at |-> IF @.at = "kept" THEN how ELSE @.at]]
    /\ UNCHANGED up

\* The last handle of the context goes with the scope, the handler and the
\* uploads, and with it a cleanup that was pushed after close took the others.
UpRelease ==
    /\ upContext.stage = "closed" /\ upContext.taken = {} /\ up.at \in {"none", "failed"}
    /\ upContext' = [upContext EXCEPT !.stage = "dropped", !.cleanups = {}]
    /\ UpDrops({}, {}, upContext.cleanups)
    /\ UNCHANGED up

UpNext ==
    \/ UpDecode \/ UpBegin \/ UpField \/ UpChunk \/ UpText \/ UpKeep \/ UpRegister \/ UpPush \/ UpBroken \/ UpForm
    \/ UpDrop \/ UpCancel \/ UpClose \/ UpTake \/ UpCleanup \/ UpRelease

UpSpec == UpInit /\ [][UpNext]_upVars

-----------------------------------------------------------------------------
(* Properties.                                                             *)

\* No upload is lost or taken away: a file on disk has an owner that will
\* remove it (the parser, an upload or a cleanup), although the context closes
\* between the check and the push of its cleanup; once the last handle of the
\* context is gone no file is left whose removal did not fail; and an upload of
\* a form is there until the context is closed (parse_multipart,
\* register_cleanup, close, TempArtifact::drop).
UpFilesAreOwned ==
    /\ \A f \in DOMAIN upFiles :
          /\ upFiles[f].at = "temp" => f \in up.temp
          /\ upFiles[f].at = "kept" =>
                f \in up.kept \cup UpUploads(up.form) \cup upContext.cleanups \cup upContext.taken
          /\ upContext.stage = "dropped" => upFiles[f].at \in {"gone", "stuck"}
    /\ \A f \in UpUploads(up.form) : upFiles[f].at = "kept" \/ UpClosed

-----------------------------------------------------------------------------
(* What makes UpFilesAreOwned inductive: the clones of an artifact are the *)
(* ones that the decoder, the form and the context hold.                   *)

UpFields ==
    {"at", "req", "part", "chunk", "bytes", "size", "files", "temp", "kept", "form", "error", "admission"}

UpFile == [at : {"temp", "kept", "gone", "stuck"}, clones : SUBSET {"upload", "cleanup"}]

UpTypes ==
    /\ DOMAIN up = UpFields /\ DOMAIN upContext = {"stage", "cancelled", "cleanups", "taken"}
    /\ upFiles \in Seq(UpFile)
    /\ up.form \in Seq({up.form[i] : i \in DOMAIN up.form})
    /\ upContext.stage \in {"open", "closing", "closed", "dropped"}

UpCounts ==
    \A f \in DOMAIN upFiles :
        /\ "upload" \in upFiles[f].clones <=> f \in up.kept \cup UpUploads(up.form)
        /\ "cleanup" \in upFiles[f].clones <=> f \in up.kept \cup upContext.cleanups \cup upContext.taken
        /\ upFiles[f].at = "temp" <=> f \in up.temp
        /\ upFiles[f].at = "temp" => upFiles[f].clones = {}
        /\ upFiles[f].at = "kept" => upFiles[f].clones # {}
        /\ "upload" \in upFiles[f].clones => upFiles[f].at = "kept" \/ UpClosed

UpStages ==
    /\ up.temp \cup up.kept \cup UpUploads(up.form) \cup upContext.cleanups \cup upContext.taken
          \subseteq DOMAIN upFiles
    /\ up.kept \cap (UpUploads(up.form) \cup upContext.cleanups \cup upContext.taken) = {}
    /\ upContext.cleanups \cap upContext.taken = {}
    /\ \A f, g \in up.temp \cup up.kept : f = g
    /\ up.at # "chunk" => up.temp = {}
    /\ up.at \notin {"register", "push"} => up.kept = {}
    /\ up.at \in {"none", "failed"} => up.form = <<>>
    /\ upContext.stage \in {"open", "closing"} => upContext.taken = {}
    /\ upContext.stage = "dropped" =>
          upContext.cleanups = {} /\ upContext.taken = {} /\ up.at \in {"none", "failed"}

UpInvariant == UpTypes /\ UpCounts /\ UpStages
=============================================================================
