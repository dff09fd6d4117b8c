----------------------------- MODULE SessionStore -----------------------------
(***************************************************************************)
(* Sessions and CSRF proofs of pliego-data: SessionManager over a store    *)
(* whose calls are awaited one by one, so that loads, rotations and        *)
(* revocations of one session interleave, and CsrfManager with its ring of *)
(* key versions.  pliego-runtime reads the token from the request cookies. *)
(*                                                                         *)
(* Tokens are numbered in the order they are drawn; a token's digest and   *)
(* its MACs are the tuples they are computed from.                         *)
(***************************************************************************)
EXTENDS Naturals, Sequences, FiniteSets

CONSTANTS
    SessionCalls,   \* concurrent loads and rotations
    SessionPolicy,  \* the SessionPolicy of the manager
    SessionSchemas, \* schema versions of the releases that share the store
    SessionTokens,  \* bound on tokens drawn
    SessionMaxTime, \* bound on the clock
    CsrfVersions    \* key versions that are made active, in order

\* The builders of SessionCookiePolicy.
CookiePolicyAdmitted(cookie) ==
    /\ cookie.host => cookie.path = "/"
    /\ (cookie.host \/ cookie.securePrefix \/ cookie.sameSite = "None") => cookie.secure

\* SessionPolicy::timeouts and max_claim_bytes.
TimeoutsAdmitted(p) == p.idle > 0 /\ p.absolute > 0 /\ p.idle <= p.absolute
ClaimBytesAdmitted(p) == p.maxClaims \in 1..65536

\* SessionPolicy::new and its builders.
SessionPolicyAdmitted(p) ==
    /\ p.schema > 0
    /\ TimeoutsAdmitted(p)
    /\ ClaimBytesAdmitted(p)
    /\ CookiePolicyAdmitted(p.cookie)

ASSUME SessionAssumption ==
    /\ SessionPolicyAdmitted(SessionPolicy)
    /\ SessionPolicy.idle \in Nat /\ SessionPolicy.absolute \in Nat

VARIABLES
    sessionNow,   \* unix_millis
    sessions,     \* InMemorySessionStore: token -> StoredSession
    drawn,        \* tokens drawn so far
    sessionCall,  \* per call: where it is, its token, what it read, its answer
    csrfKeys,     \* key versions the CsrfManager holds, newest last
    form,         \* a form with its CSRF token, as the browser keeps it
    retired,      \* history: tokens that left the store
    birth         \* history: token -> when its session was created

sessionVars == <<sessionNow, sessions, drawn, sessionCall, csrfKeys, form, retired, birth>>

NoForm == [version |-> 0, session |-> 0, action |-> 0]
NoSessionCall == [at |-> "idle", kind |-> "none", token |-> 0]

SessionInit ==
    /\ sessionNow = 0 /\ sessions = <<>> /\ drawn = 0
    /\ sessionCall = [c \in SessionCalls |-> NoSessionCall]
    /\ csrfKeys = <<1>> /\ form = NoForm /\ retired = {} /\ birth = <<>>

SessionExpired(s) == sessionNow >= s.idleUntil \/ sessionNow >= s.absoluteUntil

\* SessionManager::stored.  Claims over max_claim_bytes are refused before this.
StoredSession(schema, created, at) ==
    [schema |-> schema, created |-> created, seen |-> at,
     idleUntil |-> at + SessionPolicy.idle,
     absoluteUntil |-> created + SessionPolicy.absolute]

SessionsWith(t, s) ==
    [x \in DOMAIN sessions \cup {t} |-> IF x = t THEN s ELSE sessions[x]]
SessionsWithout(t) == [x \in DOMAIN sessions \ {t} |-> sessions[x]]

SessionReturn(c, answer) ==
    sessionCall' = [sessionCall EXCEPT ![c] =
        [at |-> "done", kind |-> answer, token |-> @.token]]

\* SessionManager::create.
SessionCreate ==
    /\ drawn < SessionTokens
    /\ drawn' = drawn + 1
    /\ \E schema \in SessionSchemas :
          sessions' = SessionsWith(drawn', StoredSession(schema, sessionNow, sessionNow))
    /\ birth' = Append(birth, sessionNow)
    /\ UNCHANGED <<sessionNow, sessionCall, csrfKeys, form, retired>>

\* SessionManager::revoke: one call of the store.
SessionRevoke ==
    /\ \E t \in DOMAIN sessions :
          sessions' = SessionsWithout(t) /\ retired' = retired \cup {t}
    /\ UNCHANGED <<sessionNow, drawn, sessionCall, csrfKeys, form, birth>>

\* read_session_token: one cookie of the name, and it parses as a token.
ReadSessionToken(cookies) ==
    LET ours == SelectSeq(cookies, LAMBDA pair : pair.name = "session")
    IN  IF Len(ours) # 1 THEN 0 ELSE ours[1].token

SessionCookies ==
    LET pairs == [name : {"session", "other"}, token : 1..drawn]
    IN  {<<p>> : p \in pairs} \cup {<<p, q>> : p \in pairs, q \in {x \in pairs : x.token = drawn}}

\* The first await of load and rotate: the store is read and the session is
\* judged by its schema and the clock.  An expired one, and one of another schema
\* that is rotated, is revoked, by another store call.
SessionRead(c) ==
    /\ sessionCall[c].at = "idle"
    /\ \E kind \in {"load", "rotate"}, cookies \in SessionCookies :
          LET t == ReadSessionToken(cookies)
          IN  /\ t # 0
              /\ sessionCall' = [sessionCall EXCEPT ![c] =
                    IF t \notin DOMAIN sessions
                    THEN [at |-> "done", kind |-> "absent", token |-> t]
                    ELSE IF kind = "load" /\ sessions[t].schema # SessionPolicy.schema
                    THEN [at |-> "done", kind |-> "VersionMismatch", token |-> t]
                    ELSE IF \/ sessions[t].schema # SessionPolicy.schema
                            \/ SessionExpired(sessions[t])
                    THEN [at |-> "expired", kind |-> kind, token |-> t]
                    ELSE [at |-> "read", kind |-> kind, token |-> t,
                          read |-> sessions[t], judged |-> sessionNow]]
    /\ UNCHANGED <<sessionNow, sessions, drawn, csrfKeys, form, retired, birth>>

SessionExpire(c) ==
    /\ sessionCall[c].at = "expired"
    /\ LET t == sessionCall[c].token
       IN  /\ sessions' = SessionsWithout(t)
           /\ retired' = IF t \in DOMAIN sessions THEN retired \cup {t} ELSE retired
    /\ SessionReturn(c, "absent")
    /\ UNCHANGED <<sessionNow, drawn, csrfKeys, form, birth>>

\* What load writes back: the session it read, seen now.
SessionTouched(c) ==
    LET touched == sessionCall[c].judged + SessionPolicy.idle
        absolute == sessionCall[c].read.absoluteUntil
    IN  [sessionCall[c].read EXCEPT !.seen = sessionCall[c].judged,
             !.idleUntil = IF touched < absolute THEN touched ELSE absolute]

\* Mutant: the update of a load also inserts.
SessionUpdateUpserts(c) ==
    /\ sessionCall[c].at = "read" /\ sessionCall[c].kind = "load"
    /\ sessions' = SessionsWith(sessionCall[c].token, SessionTouched(c))
    /\ SessionReturn(c, "loaded")
    /\ UNCHANGED <<sessionNow, drawn, csrfKeys, form, retired, birth>>

\* store.update: nothing is written for a token that left the store meanwhile.
SessionUpdate(c) ==
    /\ sessionCall[c].at = "read" /\ sessionCall[c].kind = "load"
    /\ LET t == sessionCall[c].token
       IN  IF t \notin DOMAIN sessions
           THEN SessionReturn(c, "absent") /\ UNCHANGED sessions
           ELSE SessionReturn(c, "loaded") /\ sessions' = SessionsWith(t, SessionTouched(c))
    /\ UNCHANGED <<sessionNow, drawn, csrfKeys, form, retired, birth>>

\* What rotate stores: a new record that keeps the absolute expiry.
SessionRotated(c) ==
    [StoredSession(SessionPolicy.schema, sessionCall[c].read.created, sessionCall[c].judged)
        EXCEPT !.absoluteUntil = sessionCall[c].read.absoluteUntil]

\* store.replace moves the session to a new token if the old one is still there.
SessionReplace(c) ==
    /\ sessionCall[c].at = "read" /\ sessionCall[c].kind = "rotate"
    /\ drawn < SessionTokens
    /\ drawn' = drawn + 1
    /\ LET t == sessionCall[c].token
       IN  IF t \notin DOMAIN sessions
           THEN SessionReturn(c, "absent") /\ UNCHANGED <<sessions, retired>>
           ELSE /\ SessionReturn(c, "rotated")
                /\ sessions' = [x \in (DOMAIN sessions \ {t}) \cup {drawn'} |->
                                   IF x = drawn' THEN SessionRotated(c) ELSE sessions[x]]
                /\ retired' = retired \cup {t}
    /\ birth' = Append(birth, birth[sessionCall[c].token])
    /\ UNCHANGED <<sessionNow, csrfKeys, form>>

-----------------------------------------------------------------------------
(* CsrfManager.                                                            *)

CsrfMessage(version, t, action) == [version |-> version, session |-> t, action |-> action]

\* verify: with the key of the token's version, if the ring still has it.
CsrfVerifies(token, t, action) ==
    /\ token.version \in {csrfKeys[i] : i \in DOMAIN csrfKeys}
    /\ token = CsrfMessage(token.version, t, action)

\* A page is rendered for a live session: issue with the active key.
CsrfIssue ==
    /\ form = NoForm
    /\ \E t \in DOMAIN sessions, action \in 1..2 :
          form' = CsrfMessage(csrfKeys[Len(csrfKeys)], t, action)
    /\ UNCHANGED <<sessionNow, sessions, drawn, sessionCall, csrfKeys, retired, birth>>

\* The manager is built anew with a newer key; at most four are readable.
CsrfRotateKeys ==
    /\ Len(csrfKeys) < CsrfVersions
    /\ LET ring == Append(csrfKeys, Len(csrfKeys) + 1)
       IN  csrfKeys' = IF Len(ring) > 4 THEN Tail(ring) ELSE ring
    /\ UNCHANGED <<sessionNow, sessions, drawn, sessionCall, form, retired, birth>>

\* A submission with the form, for the session its request has loaded.
CsrfSubmit(c) ==
    /\ sessionCall[c].at = "done" /\ sessionCall[c].kind = "loaded"
    /\ form # NoForm
    /\ \E action \in 1..2 :
          sessionCall' = [sessionCall EXCEPT ![c] =
              [at |-> IF CsrfVerifies(form, sessionCall[c].token, action)
                      THEN "accepted" ELSE "forbidden",
               kind |-> "submitted", token |-> sessionCall[c].token, action |-> action]]
    /\ UNCHANGED <<sessionNow, sessions, drawn, csrfKeys, form, retired, birth>>

SessionTick ==
    /\ sessionNow < SessionMaxTime
    /\ sessionNow' = sessionNow + 1
    /\ UNCHANGED <<sessions, drawn, sessionCall, csrfKeys, form, retired, birth>>

SessionNext ==
    \/ SessionCreate \/ SessionRevoke \/ CsrfIssue \/ CsrfRotateKeys \/ SessionTick
    \/ \E c \in SessionCalls :
          \/ SessionRead(c) \/ SessionExpire(c) \/ SessionUpdate(c) \/ SessionReplace(c)
          \/ CsrfSubmit(c)

SessionSpec == SessionInit /\ [][SessionNext]_sessionVars

-----------------------------------------------------------------------------
(* Properties.                                                             *)

\* A token that was rotated, revoked or expired never names a session again,
\* whatever a load that had read it before writes back (update, replace).
RetiredTokensStayDead == retired \cap DOMAIN sessions = {}

\* No rotation and no touch lets a session live past its creation plus the
\* absolute timeout, or past the idle timeout of a use it really had.
SessionsKeepTheirLimits ==
    \A t \in DOMAIN sessions :
        LET s == sessions[t]
        IN  /\ s.absoluteUntil <= birth[t] + SessionPolicy.absolute
            /\ s.idleUntil <= s.seen + SessionPolicy.idle
            /\ s.seen < s.absoluteUntil

\* A submission is accepted only from the session and for the action its form
\* was issued to; a rotation of the session in between refuses it.
FormsAreBound ==
    \A c \in SessionCalls : sessionCall[c].at = "accepted" =>
        form.session = sessionCall[c].token /\ form.action = sessionCall[c].action

\* Rotation and revocation are final, the limits of a session survive every
\* write, and a form is bound to its session (load, rotate, update, verify).
SessionGuarantees ==
    /\ RetiredTokensStayDead
    /\ SessionsKeepTheirLimits
    /\ FormsAreBound

-----------------------------------------------------------------------------
(* What makes SessionGuarantees inductive.                                 *)

StoredSessions ==
    [schema : SessionSchemas \cup {SessionPolicy.schema}, created : Nat, seen : Nat,
     idleUntil : Nat, absoluteUntil : Nat]

SessionTypes ==
    /\ sessionNow \in Nat /\ drawn \in Nat
    /\ birth \in Seq(Nat) /\ Len(birth) = drawn
    /\ DOMAIN sessions \subseteq 1..drawn /\ retired \subseteq 1..drawn
    /\ \A t \in DOMAIN sessions : sessions[t] \in StoredSessions
    /\ DOMAIN sessionCall = SessionCalls

\* A call between its two awaits holds a session that was alive when it was
\* judged, under the limits of the token it was read with.
ReadsAreTimely ==
    \A c \in SessionCalls : sessionCall[c].at = "read" =>
        LET s == sessionCall[c].read
        IN  /\ sessionCall[c].token \in 1..drawn
            /\ s \in StoredSessions /\ sessionCall[c].judged \in Nat
            /\ s.absoluteUntil <= birth[sessionCall[c].token] + SessionPolicy.absolute
            /\ sessionCall[c].judged < s.absoluteUntil

\* The form of an accepted submission is never issued anew.
AcceptedFormsExist ==
    \A c \in SessionCalls : sessionCall[c].at = "accepted" => form # NoForm

SessionInvariant ==
    SessionTypes /\ ReadsAreTimely /\ AcceptedFormsExist /\ SessionGuarantees
=============================================================================
