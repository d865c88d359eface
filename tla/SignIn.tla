------------------------------- MODULE SignIn -------------------------------
(***************************************************************************)
(* What a sign-in leaves behind: JSON web tokens, which nobody stores, the *)
(* marks in Redis that end them early, and the OAuth sessions, whose       *)
(* tokens are refreshed at the provider by every request that finds them   *)
(* about to expire.  Time is in seconds, as iat, exp and the marks are.    *)
(***************************************************************************)
EXTENDS Naturals, FiniteSets, Server

CONSTANTS Person, Token, OAuthSession, Refresher,
          Lifetime,         \* auth.jwt_expiry, which does not change
          MaxSessions,      \* OAUTH_MAX_SESSIONS_PER_USER
          Rotates,          \* the provider accepts a refresh token once
          MaxSeconds,       \* bound: the clock
          MaxDown           \* bound: refreshes the provider does not answer

ASSUME SignInAssumption ==
    /\ Lifetime \in Nat \ {0} /\ MaxSessions \in Nat \ {0} /\ Rotates \in BOOLEAN
    /\ MaxSeconds \in Nat /\ MaxDown \in Nat
    /\ IsFiniteSet(Refresher) /\ None \notin Refresher \cup OAuthSession
    /\ None \notin [who : Person, iat : Nat]
    /\ None \notin [owner : Person, gen : Nat, expires : Nat, created : Nat]

VARIABLES second,
          token,     \* tokens handed out: whose and when
          tokenMark, \* jti marks: until when
          userMark,  \* revoked_at marks: the second and until when
          ended,     \* tokens that were signed out or whose user was cut off
          sess,      \* oauth_session rows: owner, refresh token held, expires_at, created_at
          grant,     \* at the provider: the refresh token it accepts
          errand,      \* per request: what it does with which session
          down,      \* refreshes the provider did not answer
          closed,    \* sessions that were deleted
          dropped    \* those a refresh deleted though the provider answered

signVars == <<second, token, tokenMark, userMark, ended, sess, grant, errand, down, closed, dropped>>

NoErrand == [do |-> "none", s |-> None, gen |-> 0, seen |-> {}, who |-> None]
SignInit ==
    /\ second = 1
    /\ token = [t \in Token |-> None] /\ ended = {}
    /\ tokenMark = [t \in Token |-> 0] /\ userMark = [p \in Person |-> [at |-> 0, until |-> 0]]
    /\ sess = [s \in OAuthSession |-> None] /\ grant = [s \in OAuthSession |-> 1]
    /\ errand = [r \in Refresher |-> NoErrand] /\ down = 0 /\ closed = {} /\ dropped = {}

Sessions == {s \in OAuthSession : sess[s] # None}
Of(p) == {s \in Sessions : sess[s].owner = p}
AnIdle == IF \E r \in Refresher : errand[r] = NoErrand THEN CHOOSE r \in Refresher : errand[r] = NoErrand ELSE None
Delete(S) ==
    /\ sess' = [s \in OAuthSession |-> IF s \in S THEN None ELSE sess[s]]
    /\ closed' = closed \cup (S \cap Sessions)
TokensOnly == UNCHANGED <<sess, grant, errand, down, closed, dropped, second>>
SessionsOnly == UNCHANGED <<token, tokenMark, userMark, ended, second>>

-----------------------------------------------------------------------------
(* Tokens                                                                   *)
Alive(t) == token[t] # None /\ second < token[t].iat + Lifetime
\* A mark on the user ends what was issued up to its second.
is_valid_token_Before(t) ==
    /\ ~(second < tokenMark[t])
    /\ ~(second < userMark[token[t].who].until /\ token[t].iat < userMark[token[t].who].at)
is_valid_token(t) ==
    /\ ~(second < tokenMark[t])
    /\ ~(second < userMark[token[t].who].until /\ token[t].iat <= userMark[token[t].who].at)
get_current_user(t) == Alive(t) /\ is_valid_token(t)

create_session_response(t, p) ==
    /\ token[t] = None
    /\ token' = [token EXCEPT ![t] = [who |-> p, iat |-> second]]
    /\ UNCHANGED <<tokenMark, userMark, ended>> /\ TokensOnly
\* signout: the mark lasts as long as the token would.
invalidate_token(t) ==
    /\ Alive(t)
    /\ tokenMark' = [tokenMark EXCEPT ![t] = token[t].iat + Lifetime]
    /\ ended' = ended \cup {t}
    /\ UNCHANGED <<token, userMark>> /\ TokensOnly
CutOff(p) ==
    /\ userMark' = [userMark EXCEPT ![p] = [at |-> second, until |-> second + Lifetime]]
    /\ ended' = ended \cup {t \in Token : token[t] # None /\ token[t].who = p}
\* update_password, by the user or an administrator.
revoke_user_tokens(p) ==
    /\ \E t \in Token : token[t] # None /\ token[t].who = p
    /\ CutOff(p) /\ UNCHANGED <<token, tokenMark>> /\ TokensOnly

-----------------------------------------------------------------------------
(* OAuth sessions                                                           *)
Expires == second + 1
Due(s) == sess[s].expires <= second + 1   \* within five minutes

\* Sign-in: the sessions of the user are listed, those beyond the limit are
\* deleted, oldest first, and the new one is added.
handle_callback_list(r, p) ==
    /\ r = AnIdle
    /\ errand' = [errand EXCEPT ![r] = [NoErrand EXCEPT !.do = "login", !.who = p,
                                                !.seen = {[s |-> s, at |-> sess[s].created] : s \in Of(p)}]]
    /\ UNCHANGED <<sess, grant, down, closed, dropped>> /\ SessionsOnly
Excess(seen, rest) == Cardinality(rest) = IF Cardinality(seen) >= MaxSessions THEN Cardinality(seen) + 1 - MaxSessions ELSE 0
handle_callback_trim(r) ==
    LET seen == errand[r].seen IN
    /\ errand[r].do = "login"
    /\ \E rest \in SUBSET seen :
          /\ Excess(seen, rest) /\ \A a \in rest, b \in seen \ rest : a.at <= b.at
          /\ Delete({x.s : x \in rest})
    /\ errand' = [errand EXCEPT ![r].do = "add"]
    /\ UNCHANGED <<grant, down, dropped>> /\ SessionsOnly
create_session(r) ==
    /\ errand[r].do = "add" /\ OAuthSession # Sessions \cup closed
    /\ LET s == CHOOSE x \in OAuthSession : x \notin Sessions \cup closed IN
       sess' = [sess EXCEPT ![s] = [owner |-> errand[r].who, gen |-> 1, expires |-> Expires, created |-> second]]
    /\ errand' = [errand EXCEPT ![r] = NoErrand]
    /\ UNCHANGED <<grant, down, closed, dropped>> /\ SessionsOnly

\* get_oauth_token: the session is read; when due, its refresh token is spent
\* at the provider, and the answer stored, or the session deleted.
get_oauth_token(r, s) ==
    /\ r = AnIdle /\ s \in Sessions /\ Due(s)
    /\ errand' = [errand EXCEPT ![r] = [NoErrand EXCEPT !.do = "refresh", !.s = s, !.gen = sess[s].gen]]
    /\ UNCHANGED <<sess, grant, down, closed, dropped>> /\ SessionsOnly
\* The answer may name no refresh token: then the old one is kept.
KeptToken(gen, answer) == IF answer = 0 THEN gen ELSE answer
perform_token_refresh(r) ==
    LET s == errand[r].s  gen == errand[r].gen IN
    /\ errand[r].do = "refresh"
    /\ \/ /\ gen # 0 /\ (~Rotates \/ gen = grant[s])
          /\ \E answer \in IF Rotates THEN {gen + 1} ELSE {0, 1} :
                errand' = [errand EXCEPT ![r].do = "store", ![r].gen = KeptToken(gen, answer)]
          /\ grant' = IF Rotates THEN [grant EXCEPT ![s] = gen + 1] ELSE grant
          /\ UNCHANGED <<down, dropped>>
       \/ /\ gen = 0 \/ (Rotates /\ gen # grant[s])
          /\ errand' = [errand EXCEPT ![r].do = "delete"]
          /\ dropped' = dropped \cup {s} /\ UNCHANGED <<grant, down>>
       \/ /\ down < MaxDown /\ down' = down + 1
          /\ errand' = [errand EXCEPT ![r].do = "delete"] /\ UNCHANGED <<grant, dropped>>
    /\ UNCHANGED <<sess, closed>> /\ SessionsOnly
\* An UPDATE: of a session that is gone nothing is stored.
update_session_by_id(r) ==
    LET s == errand[r].s IN
    sess' = IF sess[s] = None THEN sess ELSE [sess EXCEPT ![s].gen = errand[r].gen, ![s].expires = Expires]
refresh_token(r) ==
    /\ errand[r].do = "store" /\ update_session_by_id(r)
    /\ errand' = [errand EXCEPT ![r] = NoErrand]
    /\ UNCHANGED <<grant, down, closed, dropped>> /\ SessionsOnly
delete_session_by_id(r) ==
    /\ errand[r].do = "delete" /\ Delete({errand[r].s})
    /\ errand' = [errand EXCEPT ![r] = NoErrand]
    /\ UNCHANGED <<grant, down, dropped>> /\ SessionsOnly

\* The user ends the sessions of a provider, or the provider ends them all and
\* the tokens of the user with them.
delete_oauth_session_by_provider(p) ==
    /\ Of(p) # {} /\ Delete(Of(p))
    /\ UNCHANGED <<grant, errand, down, dropped>> /\ SessionsOnly
handle_backchannel_logout(p) ==
    /\ Of(p) # {} /\ Delete(Of(p)) /\ CutOff(p)
    /\ UNCHANGED <<token, tokenMark, second, grant, errand, down, dropped>>

SecondPasses ==
    /\ second < MaxSeconds /\ second' = second + 1
    /\ UNCHANGED <<token, tokenMark, userMark, ended, sess, grant, errand, down, closed, dropped>>

SignNext ==
    \/ \E t \in Token : invalidate_token(t) \/ \E p \in Person : create_session_response(t, p)
    \/ \E p \in Person : revoke_user_tokens(p) \/ delete_oauth_session_by_provider(p) \/ handle_backchannel_logout(p)
    \/ \E r \in Refresher :
          \/ \E p \in Person : handle_callback_list(r, p)
          \/ handle_callback_trim(r) \/ create_session(r) \/ perform_token_refresh(r) \/ refresh_token(r) \/ delete_session_by_id(r)
          \/ \E s \in OAuthSession : get_oauth_token(r, s)
    \/ SecondPasses

SignSpec == SignInit /\ [][SignNext]_signVars

-----------------------------------------------------------------------------
SignTypeOK ==
    /\ ended \subseteq Token /\ closed \subseteq OAuthSession /\ dropped \subseteq OAuthSession
    /\ \A s \in Sessions : sess[s].owner \in Person /\ sess[s].expires \in Nat

\* A token that was signed out, or issued before its user was cut off (a new
\* password, a logout at the provider), is never accepted again: its marks
\* outlive it.
RevokedTokenRefused == \A t \in ended : ~get_current_user(t)

\* An OAuth session that was deleted never comes back, whatever refresh of it
\* was on its way; a user has at most the configured number of sessions, and
\* one more for each sign-in that overlaps another; and a provider that keeps
\* its refresh tokens and answers loses nobody's session.
OAuthSessionsSound ==
    /\ closed \cap Sessions = {}
    /\ \A p \in Person : Cardinality(Of(p)) <= MaxSessions + Cardinality(Refresher) - 1
    /\ ~Rotates => dropped = {}

\* Tokens and OAuth sessions: what was revoked stays revoked, a deleted session does not come back.
SignInHolds == SignTypeOK /\ RevokedTokenRefused /\ OAuthSessionsSound
=============================================================================
