----------------------------- MODULE ClientCreds -----------------------------
(***************************************************************************)
(* The credential holder of client/clicreds.hpp (class ClientCreds): one   *)
(* action per mutating method, the getters and auth_info as operators.     *)
(* Strings are model values or "" (Empty); a ChallengeResponse object is  *)
(* a record holding the username it carries, and the passwords built from *)
(* a challenge are tagged tuples (auth/cr.hpp is not part of the model).  *)
(***************************************************************************)
EXTENDS Sequences

CONSTANTS
    Empty,      \* the empty string
    None,       \* a null dynamic_challenge pointer
    Users,      \* non-empty usernames
    Passwords,  \* non-empty passwords
    Responses,  \* non-empty challenge responses
    Cookies,    \* non-empty dynamic-challenge cookies
    Tokens      \* non-empty session ids (auth tokens)

VARIABLES
    username, password, httpProxyUser, httpProxyPass,
    sessionId, sessionIdUsername, response,
    needUserInteraction, passwordNeeded,
    dynamicChallenge    \* None or [user |-> u]

vars == <<username, password, httpProxyUser, httpProxyPass, sessionId,
          sessionIdUsername, response, needUserInteraction, passwordNeeded,
          dynamicChallenge>>

OrEmpty(S) == S \cup {Empty}

Init ==
    /\ username = Empty /\ password = Empty
    /\ httpProxyUser = Empty /\ httpProxyPass = Empty
    /\ sessionId = Empty /\ sessionIdUsername = Empty /\ response = Empty
    /\ needUserInteraction = FALSE /\ passwordNeeded = FALSE
    /\ dynamicChallenge = None

-----------------------------------------------------------------------------
(* Getters                                                                  *)

GetUsername ==
    IF dynamicChallenge # None THEN dynamicChallenge.user
    ELSE IF sessionIdUsername # Empty THEN sessionIdUsername
    ELSE username

GetPasswordMut ==
    IF dynamicChallenge # None THEN <<"dynamic", response>>
    ELSE IF sessionId # Empty THEN sessionId
    ELSE IF response = Empty THEN password
    ELSE <<"static", password, response>>

\* The dynamic password from the challenge and the response; else the
\* session id or the password when there is no response; else the static
\* challenge password.
GetPassword ==
    IF dynamicChallenge # None THEN <<"dynamic", response>>
    ELSE IF response = Empty
         THEN IF sessionId # Empty THEN sessionId ELSE password
    ELSE <<"static", password, response>>

AuthInfo ==
    IF dynamicChallenge # None THEN <<"DynamicChallenge">>
    ELSE IF response = Empty
         THEN <<IF sessionIdUsername # Empty \/ username # Empty
                THEN "Username" ELSE "UsernameEmpty",
                IF sessionId # Empty THEN "SessionID"
                ELSE IF password # Empty THEN "Password" ELSE "PasswordEmpty">>
    ELSE <<"StaticChallenge">>

-----------------------------------------------------------------------------
(* Mutating methods                                                         *)

SetUsername(u) ==
    /\ username' = u
    /\ UNCHANGED <<password, httpProxyUser, httpProxyPass, sessionId,
                   sessionIdUsername, response, needUserInteraction,
                   passwordNeeded, dynamicChallenge>>

SetPassword(p) ==
    /\ password' = p
    /\ passwordNeeded' = (passwordNeeded \/ p # Empty)
    /\ UNCHANGED <<username, httpProxyUser, httpProxyPass, sessionId,
                   sessionIdUsername, response, needUserInteraction,
                   dynamicChallenge>>

SetHttpProxyUsername(u) ==
    /\ httpProxyUser' = u
    /\ UNCHANGED <<username, password, httpProxyPass, sessionId,
                   sessionIdUsername, response, needUserInteraction,
                   passwordNeeded, dynamicChallenge>>

SetHttpProxyPassword(p) ==
    /\ httpProxyPass' = p
    /\ UNCHANGED <<username, password, httpProxyUser, sessionId,
                   sessionIdUsername, response, needUserInteraction,
                   passwordNeeded, dynamicChallenge>>

SetResponse(r) ==
    /\ response' = r
    /\ needUserInteraction' = (needUserInteraction \/ r # Empty)
    /\ UNCHANGED <<username, password, httpProxyUser, httpProxyPass,
                   sessionId, sessionIdUsername, passwordNeeded,
                   dynamicChallenge>>

\* An empty cookie leaves the current challenge in place.
SetDynamicChallengeCookie(c, u) ==
    /\ dynamicChallenge' = IF c # Empty THEN [user |-> u] ELSE dynamicChallenge
    /\ UNCHANGED <<username, password, httpProxyUser, httpProxyPass,
                   sessionId, sessionIdUsername, response,
                   needUserInteraction, passwordNeeded>>

SetSessionIdMut(u, s) ==
    /\ sessionIdUsername' = IF dynamicChallenge # None THEN dynamicChallenge.user
                            ELSE IF u # Empty THEN u ELSE sessionIdUsername
    /\ dynamicChallenge' = dynamicChallenge
    /\ response' = Empty
    /\ sessionId' = s
    /\ UNCHANGED <<username, password, httpProxyUser, httpProxyPass,
                   needUserInteraction, passwordNeeded>>

\* The user of a pending dynamic challenge, else a non-empty `user',
\* becomes the session user; the challenge and the response are used
\* only once.
SetSessionId(u, s) ==
    /\ sessionIdUsername' = IF dynamicChallenge # None THEN dynamicChallenge.user
                            ELSE IF u # Empty THEN u ELSE sessionIdUsername
    /\ dynamicChallenge' = None
    /\ response' = Empty
    /\ sessionId' = s
    /\ UNCHANGED <<username, password, httpProxyUser, httpProxyPass,
                   needUserInteraction, passwordNeeded>>

PurgeSessionId ==
    /\ sessionId' = Empty /\ sessionIdUsername' = Empty
    /\ UNCHANGED <<username, password, httpProxyUser, httpProxyPass,
                   response, needUserInteraction, passwordNeeded,
                   dynamicChallenge>>

PurgeUserPass ==
    /\ username' = Empty /\ password' = Empty
    /\ UNCHANGED <<httpProxyUser, httpProxyPass, sessionId, sessionIdUsername,
                   response, needUserInteraction, passwordNeeded,
                   dynamicChallenge>>

SaveUsernameForSessionIdMut ==
    /\ sessionIdUsername' = IF sessionIdUsername = Empty THEN password
                            ELSE sessionIdUsername
    /\ UNCHANGED <<username, password, httpProxyUser, httpProxyPass, sessionId,
                   response, needUserInteraction, passwordNeeded,
                   dynamicChallenge>>

SaveUsernameForSessionId ==
    /\ sessionIdUsername' = IF sessionIdUsername = Empty THEN username
                            ELSE sessionIdUsername
    /\ UNCHANGED <<username, password, httpProxyUser, httpProxyPass, sessionId,
                   response, needUserInteraction, passwordNeeded,
                   dynamicChallenge>>

SetNeedUserInteraction ==
    /\ needUserInteraction' = TRUE
    /\ UNCHANGED <<username, password, httpProxyUser, httpProxyPass, sessionId,
                   sessionIdUsername, response, passwordNeeded,
                   dynamicChallenge>>

Next ==
    \/ \E u \in OrEmpty(Users) : SetUsername(u) \/ SetHttpProxyUsername(u)
    \/ \E p \in OrEmpty(Passwords) : SetPassword(p) \/ SetHttpProxyPassword(p)
    \/ \E r \in OrEmpty(Responses) : SetResponse(r)
    \/ \E c \in OrEmpty(Cookies), u \in OrEmpty(Users) :
          SetDynamicChallengeCookie(c, u)
    \/ \E u \in OrEmpty(Users), s \in OrEmpty(Tokens) : SetSessionId(u, s)
    \/ PurgeSessionId \/ PurgeUserPass \/ SaveUsernameForSessionId
    \/ SetNeedUserInteraction

Spec == Init /\ [][Next]_vars

-----------------------------------------------------------------------------
(* Properties                                                               *)

TypeOK ==
    /\ {username, sessionIdUsername, httpProxyUser} \subseteq OrEmpty(Users)
    /\ {password, httpProxyPass} \subseteq OrEmpty(Passwords)
    /\ response \in OrEmpty(Responses) /\ sessionId \in OrEmpty(Tokens)
    /\ needUserInteraction \in BOOLEAN /\ passwordNeeded \in BOOLEAN
    /\ dynamicChallenge \in {None} \cup [user : OrEmpty(Users)]

\* auth_info, which the client logs for each authentication, names the
\* credential get_password actually returns and whether get_username is
\* non-empty.
AuthInfoMatches ==
    /\ AuthInfo = <<"DynamicChallenge">> <=> GetPassword \in {<<"dynamic", r>> : r \in OrEmpty(Responses)}
    /\ AuthInfo = <<"StaticChallenge">> <=> GetPassword \in {<<"static", p, r>> : p \in OrEmpty(Passwords), r \in Responses}
    /\ Len(AuthInfo) = 2 =>
         /\ (AuthInfo[1] = "Username") <=> GetUsername # Empty
         /\ (AuthInfo[2] = "SessionID") <=> (GetPassword = sessionId /\ sessionId # Empty)
         /\ (AuthInfo[2] = "Password") <=> (GetPassword = password /\ password # Empty)

\* "for dynamic challenge we use dynamic password only once": once a new
\* session id is installed, no challenge password can be built any more
\* until the server sends a new cookie or the user a new response.
ChallengeUsedOnce ==
    [][sessionId' # sessionId /\ sessionId' # Empty =>
         \A x \in {GetPassword'} : x \notin {<<"dynamic", r>> : r \in OrEmpty(Responses)}
                                    \cup {<<"static", p, r>> : p \in OrEmpty(Passwords), r \in Responses}]_vars
=============================================================================
