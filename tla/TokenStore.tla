---------------------------- MODULE TokenStore ----------------------------
(***************************************************************************)
(* The one token file of the Google account and the authenticators that    *)
(* share it (GoogleAuthenticator over SecureFileTokenStorage): loading,    *)
(* refreshing, connecting, disconnecting, and the name of the account each *)
(* authenticator remembers. main builds two per process, for reading and   *)
(* for documents, with a copy of nothing but the path. Replacing the file  *)
(* is atomic; between reading it and writing it a refresh calls Google.    *)
(***************************************************************************)
EXTENDS Naturals

CONSTANTS Authenticator, Account, None

VARIABLES
    token,     \* the file: an account and whether its access token is valid
    cache,     \* Authenticator -> _account_namespace_cache
    session,   \* Authenticator -> the call under way, with the token it read
    wish,      \* what the owner last asked for: an account, or None
    stale,     \* authenticators with a call or a name from before that wish
    spoiled    \* has a call from before the wish written the file since?

tokenVars == <<token, cache, session, wish, stale, spoiled>>

-----------------------------------------------------------------------------
NoToken == [account |-> None, state |-> "none"]
Token   == [account : Account, state : {"valid", "expired"}] \cup {NoToken}

Idle == [place |-> "idle", account |-> None, names |-> FALSE]

(* names: is the call get_account_namespace, or get_credentials alone?     *)
Sessions == [place : {"idle", "refreshing", "asking"}, account : Account \cup {None}, names : BOOLEAN]

Goto(a, new) == session' = [session EXCEPT ![a] = new]

(* After a call a stale authenticator is so by its cache only.             *)
Return(a, name) ==
    /\ Goto(a, Idle)
    /\ cache' = [cache EXCEPT ![a] = name]
    /\ stale' = IF name = None THEN stale \ {a} ELSE stale

-----------------------------------------------------------------------------
Init ==
    /\ token = NoToken
    /\ cache = [a \in Authenticator |-> None]
    /\ session = [a \in Authenticator |-> Idle]
    /\ wish = None /\ stale = {} /\ spoiled = FALSE

(* get_credentials, get_account_namespace: the token is read; an expired   *)
(* one is refreshed, a name that is remembered is not asked for.           *)
Load(a, names) ==
    /\ session[a] = Idle
    /\ token # NoToken
    /\ names => cache[a] = None
    /\ \/ token.state = "expired"
          /\ Goto(a, [place |-> "refreshing", account |-> token.account, names |-> names])
       \/ token.state = "valid" /\ names
          /\ Goto(a, [place |-> "asking", account |-> token.account, names |-> TRUE])
    /\ UNCHANGED <<token, cache, wish, stale, spoiled>>

(* Google has refreshed; write_token replaces the file.                    *)
WriteRefreshed(a) ==
    /\ session[a].place = "refreshing"
    /\ token' = [account |-> session[a].account, state |-> "valid"]
    /\ spoiled' = (spoiled \/ a \in stale)
    /\ IF session[a].names
       THEN Goto(a, [session[a] EXCEPT !.place = "asking"]) /\ UNCHANGED <<cache, stale>>
       ELSE Return(a, cache[a])
    /\ UNCHANGED wish

(* The userinfo request is answered.                                       *)
Remember(a) ==
    /\ session[a].place = "asking"
    /\ Return(a, session[a].account)
    /\ UNCHANGED <<token, wish, spoiled>>

(* Google refuses, or does not answer: the file stays.                     *)
Refused(a) ==
    /\ session[a] # Idle
    /\ Return(a, cache[a])
    /\ UNCHANGED <<token, wish, spoiled>>

(* Everything the other authenticators have of the old account is stale.   *)
Wished(a, account) ==
    /\ wish' = account
    /\ stale' = {b \in Authenticator \ {a} : session[b] # Idle \/ cache[b] # None}
    /\ spoiled' = FALSE

(* A disconnection that does not forget the account.                       *)
ForgetfulDisconnect(a) ==
    /\ session[a] = Idle
    /\ token' = NoToken
    /\ Wished(a, None)
    /\ UNCHANGED <<cache, session>>

(* reconnect, when the flow in the browser is over; local_disconnect.      *)
Reconnect(a, account) ==
    /\ session[a] = Idle
    /\ token' = [account |-> account, state |-> "valid"]
    /\ cache' = [cache EXCEPT ![a] = None]
    /\ Wished(a, account)
    /\ UNCHANGED session

LocalDisconnect(a) ==
    /\ session[a] = Idle
    /\ token' = NoToken
    /\ cache' = [cache EXCEPT ![a] = None]
    /\ Wished(a, None)
    /\ UNCHANGED session

(* An hour is over.                                                        *)
Expire ==
    /\ token.state = "valid"
    /\ token' = [token EXCEPT !.state = "expired"]
    /\ UNCHANGED <<cache, session, wish, stale, spoiled>>

(* The process of an authenticator is replaced.                            *)
Restart(a) ==
    /\ session[a] # Idle \/ cache[a] # None
    /\ Return(a, None)
    /\ UNCHANGED <<token, wish, spoiled>>

Next ==
    \/ Expire
    \/ \E a \in Authenticator :
          \/ \E names \in BOOLEAN : Load(a, names)
          \/ WriteRefreshed(a) \/ Remember(a) \/ Refused(a) \/ Restart(a)
          \/ LocalDisconnect(a) \/ \E c \in Account : Reconnect(a, c)

Spec == Init /\ [][Next]_tokenVars

-----------------------------------------------------------------------------
(* The file holds the account the owner last connected, or none, unless a  *)
(* refresh that began before wrote after; and an authenticator remembers   *)
(* that account, unless what it remembers is from before another           *)
(* authenticator's change (local_disconnect, get_account_namespace).       *)
TokenIsTheOwners ==
    ~spoiled =>
        /\ token.account = wish
        /\ \A a \in Authenticator \ stale :
              /\ cache[a] \in {None, wish}
              /\ session[a] # Idle => session[a].account = wish
=============================================================================
