------------------------------ MODULE OAuthStore ------------------------------
(***************************************************************************)
(* The OAuth server of the MCP endpoint: the tables oauth_clients,         *)
(* oauth_pending_requests, oauth_codes and oauth_tokens, the approval      *)
(* cache in memory, and the methods of ReflectOAuthProvider.               *)
(*                                                                         *)
(* No method awaits anything between its first read and its last write, so *)
(* a method is one action.  Its statements are separate commits: when      *)
(* Crashes is TRUE the process may die between two of them, and the cache  *)
(* dies with it.                                                           *)
(*                                                                         *)
(* A definition named Faulty... is the next one with a plausible bug in    *)
(* it.  Nothing uses it: PROJECT.json names the property it would break.   *)
(***************************************************************************)
CONSTANTS Clients,   \* OAuth clients (Cursor, Claude, ...)
          Users,     \* accounts that may approve
          Requests,  \* identities of pending requests, UUIDs
          Secrets,   \* codes and tokens, UUIDs
          None,      \* SQL NULL, or no row
          Crashes    \* whether the process may die inside a method

\* "fresh" is a row whose expires_at lies ahead.
PendingRow == [client : Clients, fresh : BOOLEAN]
CodeRow == [client : Clients, user : Users \cup {None}, grant : Requests, fresh : BOOLEAN]
TokenRow == [token_type : {"access", "refresh"}, client : Clients,
             user : Users \cup {None}, grant : Requests, fresh : BOOLEAN]

ASSUME OAuthNone == None \notin Clients \cup Users \cup Secrets \cup PendingRow \cup CodeRow \cup TokenRow
ASSUME OAuthCrashes == Crashes \in BOOLEAN

VARIABLES registered,  \* oauth_clients
          pending,     \* oauth_pending_requests
          codes,       \* oauth_codes; the field grant is history
          tokens,      \* oauth_tokens; the field grant is history
          cache,       \* _approvalCache: the code in the redirect of a request
          asked,       \* history: who asked and who approved, per request
          issued       \* history: every credential handed out

oauthVars == <<registered, pending, codes, tokens, cache, asked, issued>>

Credentials == {"pending"} \X Requests \cup {"code", "access", "refresh"} \X Secrets

OAuthTypeOK ==
  /\ registered \subseteq Clients
  /\ pending \in [Requests -> PendingRow \cup {None}]
  /\ codes \in [Secrets -> CodeRow \cup {None}]
  /\ tokens \in [Secrets -> TokenRow \cup {None}]
  /\ cache \in [Requests -> Secrets \cup {None}]
  /\ asked \in [Requests -> [client : Clients \cup {None}, user : Users \cup {None}]]
  /\ issued \subseteq Credentials

NoCache == [r \in Requests |-> None]

OAuthInit ==
  /\ registered = {}
  /\ pending = [r \in Requests |-> None]
  /\ codes = [s \in Secrets |-> None]
  /\ tokens = [s \in Secrets |-> None]
  /\ cache = NoCache
  /\ asked = [r \in Requests |-> [client |-> None, user |-> None]]
  /\ issued = {}
-----------------------------------------------------------------------------
Unused(s) == \A kind \in {"code", "access", "refresh"} : <<kind, s>> \notin issued

Delete(table, key) == [table EXCEPT ![key] = None]

RegisterClient(c) ==
  /\ registered' = registered \cup {c}
  /\ UNCHANGED <<pending, codes, tokens, cache, asked, issued>>

\* authorize, for a redirect URI the client has registered.
Authorize(c, r) ==
  /\ c \in registered
  /\ <<"pending", r>> \notin issued
  /\ pending' = [pending EXCEPT ![r] = [client |-> c, fresh |-> TRUE]]
  /\ asked' = [asked EXCEPT ![r] = [client |-> c, user |-> None]]
  /\ issued' = issued \cup {<<"pending", r>>}
  /\ UNCHANGED <<registered, codes, tokens, cache>>

FaultyApprovePendingRequest(r, u) ==  \* inserts before it deletes
  /\ cache[r] = None
  /\ pending[r] # None
  /\ pending[r].fresh
  /\ \E s \in Secrets :
       /\ Unused(s)
       /\ codes' = [codes EXCEPT ![s] = [client |-> pending[r].client, user |-> u,
                                         grant |-> r, fresh |-> TRUE]]
       /\ issued' = issued \cup {<<"code", s>>}
       /\ asked' = [asked EXCEPT ![r].user = u]
       /\ \/ pending' = Delete(pending, r) /\ cache' = [cache EXCEPT ![r] = s]
          \/ Crashes /\ cache' = NoCache /\ UNCHANGED pending
  /\ UNCHANGED <<registered, tokens>>

\* approvePendingRequest, past the cache.  A submission the cache answers
\* changes nothing.  u is None when the e-mail could not be resolved.
ApprovePendingRequest(r, u) ==
  /\ cache[r] = None
  /\ pending[r] # None
  /\ pending[r].fresh
  /\ pending' = Delete(pending, r)
  /\ \/ \E s \in Secrets :
          /\ Unused(s)
          /\ codes' = [codes EXCEPT ![s] = [client |-> pending[r].client, user |-> u,
                                            grant |-> r, fresh |-> TRUE]]
          /\ issued' = issued \cup {<<"code", s>>}
          /\ asked' = [asked EXCEPT ![r].user = u]
          /\ \/ cache' = [cache EXCEPT ![r] = s]
             \/ Crashes /\ cache' = NoCache
     \/ Crashes /\ cache' = NoCache /\ UNCHANGED <<codes, issued, asked>>
  /\ UNCHANGED <<registered, tokens>>

FaultyToken(type, row, c) ==  \* the columns client_id and user_id swapped
  [token_type |-> type, client |-> row.user, user |-> c, grant |-> row.grant, fresh |-> TRUE]

Token(type, row, c) ==
  [token_type |-> type, client |-> c, user |-> row.user, grant |-> row.grant, fresh |-> TRUE]

\* The two INSERTs that end both exchanges: table is oauth_tokens after the
\* redeemed row is gone, row is that row.
InsertPair(table, row, c) ==
  \/ \E a, n \in Secrets :
       /\ a # n
       /\ Unused(a)
       /\ Unused(n)
       /\ tokens' = [table EXCEPT ![a] = Token("access", row, c), ![n] = Token("refresh", row, c)]
       /\ issued' = issued \cup {<<"access", a>>, <<"refresh", n>>}
       /\ UNCHANGED cache
  \/ \E a \in Secrets :
       /\ Crashes
       /\ Unused(a)
       /\ tokens' = [table EXCEPT ![a] = Token("access", row, c)]
       /\ issued' = issued \cup {<<"access", a>>}
       /\ cache' = NoCache
  \/ Crashes /\ tokens' = table /\ cache' = NoCache /\ UNCHANGED issued

FaultyExchangeAuthorizationCode(c, s) ==  \* the client of the code is not compared
  /\ codes[s] # None
  /\ codes[s].fresh
  /\ codes' = Delete(codes, s)
  /\ InsertPair(tokens, codes[s], c)
  /\ UNCHANGED <<registered, pending, asked>>

ExchangeAuthorizationCode(c, s) ==
  /\ codes[s] # None
  /\ codes[s].client = c
  /\ codes[s].fresh
  /\ codes' = Delete(codes, s)
  /\ InsertPair(tokens, codes[s], c)
  /\ UNCHANGED <<registered, pending, asked>>

FaultyExchangeRefreshToken(c, s) ==  \* the old token is kept
  /\ tokens[s] # None
  /\ tokens[s].token_type = "refresh"
  /\ tokens[s].client = c
  /\ tokens[s].fresh
  /\ InsertPair(tokens, tokens[s], c)
  /\ UNCHANGED <<registered, pending, codes, asked>>

ExchangeRefreshToken(c, s) ==
  /\ tokens[s] # None
  /\ tokens[s].token_type = "refresh"
  /\ tokens[s].client = c
  /\ tokens[s].fresh
  /\ InsertPair(Delete(tokens, s), tokens[s], c)
  /\ UNCHANGED <<registered, pending, codes, asked>>

RevokeToken(c, s) ==
  /\ tokens[s] # None
  /\ tokens[s].client = c
  /\ tokens' = Delete(tokens, s)
  /\ UNCHANGED <<registered, pending, codes, cache, asked, issued>>
-----------------------------------------------------------------------------
\* The early returns that find a row expired and delete it.
ApproveExpired(r) ==
  /\ cache[r] = None
  /\ pending[r] # None
  /\ ~pending[r].fresh
  /\ pending' = Delete(pending, r)
  /\ UNCHANGED <<registered, codes, tokens, cache, asked, issued>>

ExchangeExpiredCode(c, s) ==
  /\ codes[s] # None
  /\ codes[s].client = c
  /\ ~codes[s].fresh
  /\ codes' = Delete(codes, s)
  /\ UNCHANGED <<registered, pending, tokens, cache, asked, issued>>

\* exchangeRefreshToken compares the client, verifyAccessToken has none.
PresentExpiredToken(s) ==
  /\ tokens[s] # None
  /\ ~tokens[s].fresh
  /\ tokens' = Delete(tokens, s)
  /\ UNCHANGED <<registered, pending, codes, cache, asked, issued>>

\* Time.  The sixty seconds of a cache entry end before the five minutes of
\* the code it holds.  Nothing prunes the tables.
PendingExpires(r) ==
  /\ pending[r] # None
  /\ pending' = [pending EXCEPT ![r].fresh = FALSE]
  /\ UNCHANGED <<registered, codes, tokens, cache, asked, issued>>

CodeExpires(s) ==
  /\ codes[s] # None
  /\ \A r \in Requests : cache[r] # s
  /\ codes' = [codes EXCEPT ![s].fresh = FALSE]
  /\ UNCHANGED <<registered, pending, tokens, cache, asked, issued>>

TokenExpires(s) ==
  /\ tokens[s] # None
  /\ tokens' = [tokens EXCEPT ![s].fresh = FALSE]
  /\ UNCHANGED <<registered, pending, codes, cache, asked, issued>>

\* One entry lapses, or the process restarts and all are gone.
CacheLapses ==
  /\ \/ \E r \in Requests : cache' = [cache EXCEPT ![r] = None]
     \/ cache' = NoCache
  /\ UNCHANGED <<registered, pending, codes, tokens, asked, issued>>

OAuthNext ==
  \/ \E c \in Clients : RegisterClient(c)
  \/ \E c \in Clients, r \in Requests : Authorize(c, r)
  \/ \E r \in Requests, u \in Users \cup {None} : ApprovePendingRequest(r, u)
  \/ \E r \in Requests : ApproveExpired(r) \/ PendingExpires(r)
  \/ \E c \in Clients, s \in Secrets :
       \/ ExchangeAuthorizationCode(c, s)
       \/ ExchangeExpiredCode(c, s)
       \/ ExchangeRefreshToken(c, s)
       \/ RevokeToken(c, s)
  \/ \E s \in Secrets : PresentExpiredToken(s) \/ CodeExpires(s) \/ TokenExpires(s)
  \/ CacheLapses

OAuthSpec == OAuthInit /\ [][OAuthNext]_oauthVars
-----------------------------------------------------------------------------
CodesOf(r) == {s \in Secrets : codes[s] # None /\ codes[s].grant = r}
RefreshTokensOf(r) ==
  {s \in Secrets : tokens[s] # None /\ tokens[s].token_type = "refresh" /\ tokens[s].grant = r}

\* The credentials somebody could redeem for request r.
Held(r) ==
  {c \in {<<"pending", r>>} : pending[r] # None}
    \cup {<<"code", s>> : s \in CodesOf(r)}
    \cup {<<"refresh", s>> : s \in RefreshTokensOf(r)}

\* However the process dies inside approvePendingRequest or an exchange, and
\* whatever is submitted twice, one consent is never worth two redeemable
\* credentials: no second code, and no code beside the refresh token it bought.
OneCredential == \A r \in Requests : \A c, d \in Held(r) : c = d

\* Every code and token, through any number of rotations, still belongs to the
\* client that asked (authorize) and to the user who approved.
BoundToApproval ==
  \A s \in Secrets :
    /\ codes[s] # None => /\ codes[s].client = asked[codes[s].grant].client
                          /\ codes[s].user = asked[codes[s].grant].user
    /\ tokens[s] # None => /\ tokens[s].client = asked[tokens[s].grant].client
                           /\ tokens[s].user = asked[tokens[s].grant].user

Grants == INSTANCE OAuthGrants WITH
  held <- [r \in Requests |-> Held(r)],
  issued <- {c \in issued : c[1] # "access"}

\* The store implements OAuthGrants: what was redeemed never works again, and
\* each credential is bought with the one before it ("Authorization codes are
\* single-use", docs/enterprise/security-controls-formal.md).
RefinesGrants == Grants!GrantSpec
=============================================================================
