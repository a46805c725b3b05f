--------------------------- MODULE OAuthStoreProofs ---------------------------
(***************************************************************************)
(* For every choice of the constants: the OAuth tables keep their types,   *)
(* a consent is never worth two credentials, every row belongs to the      *)
(* client that asked and the user who approved, and OAuthStore implements  *)
(* OAuthGrants.                                                            *)
(***************************************************************************)
EXTENDS OAuthStore, TLAPS

USE OAuthNone

\* What the history says of every row there is.
Recorded ==
  /\ \A r \in Requests : pending[r] # None => <<"pending", r>> \in issued
  /\ \A s \in Secrets : codes[s] # None =>
       /\ <<"code", s>> \in issued
       /\ <<"pending", codes[s].grant>> \in issued
  /\ \A s \in Secrets : tokens[s] # None =>
       /\ <<tokens[s].token_type, s>> \in issued
       /\ <<"pending", tokens[s].grant>> \in issued

\* While a request is pending nothing has been derived from it, access tokens
\* included, and it still is what its client asked for.
PendingAlone ==
  \A r \in Requests : pending[r] # None =>
    /\ pending[r].client = asked[r].client
    /\ \A s \in Secrets : codes[s] # None => codes[s].grant # r
    /\ \A s \in Secrets : tokens[s] # None => tokens[s].grant # r

\* A code is the only one of its request, and no token is derived from it yet.
CodeAlone ==
  \A s \in Secrets : codes[s] # None =>
    /\ \A t \in Secrets : codes[t] # None /\ codes[t].grant = codes[s].grant => t = s
    /\ \A t \in Secrets : tokens[t] # None => tokens[t].grant # codes[s].grant

\* A refresh token is the only one of its request.
RefreshAlone ==
  \A s, t \in Secrets :
    /\ tokens[s] # None /\ tokens[s].token_type = "refresh"
    /\ tokens[t] # None /\ tokens[t].token_type = "refresh"
    /\ tokens[s].grant = tokens[t].grant
    => s = t

\* Together with the types this is inductive.
Shape == Recorded /\ PendingAlone /\ CodeAlone /\ RefreshAlone /\ BoundToApproval
-----------------------------------------------------------------------------
\* A row is not NULL, so deleting and inserting can be told apart.
LEMMA RowsAreRows ==
  ASSUME OAuthTypeOK
  PROVE  /\ \A r \in Requests : pending[r] # None => pending[r] \in PendingRow
         /\ \A s \in Secrets : codes[s] # None => codes[s] \in CodeRow
         /\ \A s \in Secrets : tokens[s] # None => tokens[s] \in TokenRow
  BY DEF OAuthTypeOK

\* A new token is a row, whatever it is derived from.
LEMMA TokenIsRow ==
  ASSUME NEW row \in CodeRow \cup TokenRow, NEW c \in Clients
  PROVE  \A type \in {"access", "refresh"} :
           /\ Token(type, row, c) \in TokenRow
           /\ Token(type, row, c) # None
           /\ Token(type, row, c).token_type = type
           /\ Token(type, row, c).client = c
           /\ Token(type, row, c).user = row.user
           /\ Token(type, row, c).grant = row.grant
  <1>1. row.user \in Users \cup {None} /\ row.grant \in Requests
    BY DEF CodeRow, TokenRow
  <1>2. ASSUME NEW type \in {"access", "refresh"}
        PROVE  Token(type, row, c) \in TokenRow
    BY <1>1 DEF Token, TokenRow
  <1>3. ASSUME NEW type \in {"access", "refresh"}
        PROVE  Token(type, row, c) # None
    BY <1>2
  <1> QED
    BY <1>2, <1>3 DEF Token

\* An expired row is still a row.
LEMMA FreshTyped ==
  /\ \A row \in PendingRow : [row EXCEPT !.fresh = FALSE] \in PendingRow
  /\ \A row \in CodeRow : [row EXCEPT !.fresh = FALSE] \in CodeRow
  /\ \A row \in TokenRow : [row EXCEPT !.fresh = FALSE] \in TokenRow
  BY DEF PendingRow, CodeRow, TokenRow

\* The INSERTs of an exchange, complete or cut short.
LEMMA PairEffect ==
  ASSUME OAuthTypeOK,
         NEW table \in [Secrets -> TokenRow \cup {None}],
         NEW row \in CodeRow \cup TokenRow, NEW c \in Clients,
         InsertPair(table, row, c)
  PROVE  /\ tokens' \in [Secrets -> TokenRow \cup {None}]
         /\ cache' \in [Requests -> Secrets \cup {None}]
         /\ issued \subseteq issued'
         /\ issued' \subseteq Credentials
         /\ \A x \in Secrets :
              \/ tokens'[x] = table[x]
              \/ /\ Unused(x)
                 /\ tokens'[x] = Token("access", row, c)
                 /\ <<"access", x>> \in issued'
              \/ /\ Unused(x)
                 /\ tokens'[x] = Token("refresh", row, c)
                 /\ <<"refresh", x>> \in issued'
         /\ \A x, y \in Secrets :
              /\ tokens'[x] # table[x] /\ tokens'[x].token_type = "refresh"
              /\ tokens'[y] # table[y] /\ tokens'[y].token_type = "refresh"
              => x = y
  <1>1. CASE \E a, n \in Secrets :
               /\ a # n
               /\ Unused(a)
               /\ Unused(n)
               /\ tokens' = [table EXCEPT ![a] = Token("access", row, c), ![n] = Token("refresh", row, c)]
               /\ issued' = issued \cup {<<"access", a>>, <<"refresh", n>>}
               /\ UNCHANGED cache
    <2>1. PICK a \in Secrets, n \in Secrets :
               /\ a # n
               /\ Unused(a)
               /\ Unused(n)
               /\ tokens' = [table EXCEPT ![a] = Token("access", row, c), ![n] = Token("refresh", row, c)]
               /\ issued' = issued \cup {<<"access", a>>, <<"refresh", n>>}
               /\ UNCHANGED cache
      BY <1>1
    <2>2. /\ tokens' \in [Secrets -> TokenRow \cup {None}]
          /\ tokens'[a] = Token("access", row, c)
          /\ tokens'[n] = Token("refresh", row, c)
          /\ \A x \in Secrets \ {a, n} : tokens'[x] = table[x]
      BY <2>1, TokenIsRow
    <2>3. Token("access", row, c).token_type # "refresh"
      BY TokenIsRow
    <2>4. issued' \subseteq Credentials
      BY <2>1 DEF OAuthTypeOK, Credentials
    <2> QED
      BY <2>1, <2>2, <2>3, <2>4 DEF OAuthTypeOK
  <1>2. CASE \E a \in Secrets :
               /\ Crashes
               /\ Unused(a)
               /\ tokens' = [table EXCEPT ![a] = Token("access", row, c)]
               /\ issued' = issued \cup {<<"access", a>>}
               /\ cache' = NoCache
    <2>1. PICK a \in Secrets :
               /\ Unused(a)
               /\ tokens' = [table EXCEPT ![a] = Token("access", row, c)]
               /\ issued' = issued \cup {<<"access", a>>}
               /\ cache' = NoCache
      BY <1>2
    <2>2. /\ tokens' \in [Secrets -> TokenRow \cup {None}]
          /\ tokens'[a] = Token("access", row, c)
          /\ \A x \in Secrets \ {a} : tokens'[x] = table[x]
      BY <2>1, TokenIsRow
    <2>3. Token("access", row, c).token_type # "refresh"
      BY TokenIsRow
    <2>4. issued' \subseteq Credentials
      BY <2>1 DEF OAuthTypeOK, Credentials
    <2> QED
      BY <2>1, <2>2, <2>3, <2>4 DEF OAuthTypeOK, NoCache
  <1>3. CASE Crashes /\ tokens' = table /\ cache' = NoCache /\ UNCHANGED issued
    BY <1>3 DEF OAuthTypeOK, NoCache
  <1> QED
    BY <1>1, <1>2, <1>3 DEF InsertPair
-----------------------------------------------------------------------------
\* Every action keeps the types.
LEMMA OAuthTyped ==
  ASSUME OAuthTypeOK, [OAuthNext]_oauthVars
  PROVE  OAuthTypeOK'
  <1>1. CASE \E c \in Clients : RegisterClient(c)
    BY <1>1 DEF OAuthTypeOK, RegisterClient
  <1>2. CASE \E c \in Clients, r \in Requests : Authorize(c, r)
    <2>1. PICK c \in Clients, r \in Requests : Authorize(c, r)
      BY <1>2
    <2>2. pending' \in [Requests -> PendingRow \cup {None}]
      BY <2>1 DEF OAuthTypeOK, Authorize, PendingRow
    <2>3. issued' \subseteq Credentials
      BY <2>1 DEF OAuthTypeOK, Authorize, Credentials
    <2>4. asked' \in [Requests -> [client : Clients \cup {None}, user : Users \cup {None}]]
      BY <2>1 DEF OAuthTypeOK, Authorize
    <2> QED
      BY <2>1, <2>2, <2>3, <2>4 DEF OAuthTypeOK, Authorize
  <1>3. CASE \E r \in Requests, u \in Users \cup {None} : ApprovePendingRequest(r, u)
    <2>1. PICK r \in Requests, u \in Users \cup {None} : ApprovePendingRequest(r, u)
      BY <1>3
    <2>2. pending' \in [Requests -> PendingRow \cup {None}]
      BY <2>1 DEF OAuthTypeOK, ApprovePendingRequest, Delete
    <2>3. codes' \in [Secrets -> CodeRow \cup {None}]
      <3>1. pending[r].client \in Clients
        BY <2>1, RowsAreRows DEF ApprovePendingRequest, PendingRow
      <3>2. [client |-> pending[r].client, user |-> u, grant |-> r, fresh |-> TRUE] \in CodeRow
        BY <3>1 DEF CodeRow
      <3> QED
        BY <2>1, <3>2 DEF OAuthTypeOK, ApprovePendingRequest
    <2>4. cache' \in [Requests -> Secrets \cup {None}]
      BY <2>1 DEF OAuthTypeOK, ApprovePendingRequest, NoCache
    <2>5. asked' \in [Requests -> [client : Clients \cup {None}, user : Users \cup {None}]]
      BY <2>1 DEF OAuthTypeOK, ApprovePendingRequest
    <2>6. issued' \subseteq Credentials
      BY <2>1 DEF OAuthTypeOK, ApprovePendingRequest, Credentials
    <2> QED
      BY <2>1, <2>2, <2>3, <2>4, <2>5, <2>6 DEF OAuthTypeOK, ApprovePendingRequest
  <1>4. CASE \E r \in Requests : ApproveExpired(r)
    BY <1>4 DEF OAuthTypeOK, ApproveExpired, Delete
  <1>5. CASE \E c \in Clients, s \in Secrets : ExchangeAuthorizationCode(c, s)
    <2>1. PICK c \in Clients, s \in Secrets : ExchangeAuthorizationCode(c, s)
      BY <1>5
    <2>2. codes[s] \in CodeRow
      BY <2>1, RowsAreRows DEF ExchangeAuthorizationCode
    <2>3. /\ tokens' \in [Secrets -> TokenRow \cup {None}]
          /\ cache' \in [Requests -> Secrets \cup {None}]
          /\ issued' \subseteq Credentials
      BY <2>1, <2>2, PairEffect DEF OAuthTypeOK, ExchangeAuthorizationCode
    <2>4. codes' \in [Secrets -> CodeRow \cup {None}]
      BY <2>1 DEF OAuthTypeOK, ExchangeAuthorizationCode, Delete
    <2> QED
      BY <2>1, <2>3, <2>4 DEF OAuthTypeOK, ExchangeAuthorizationCode
  <1>6. CASE \E c \in Clients, s \in Secrets : ExchangeRefreshToken(c, s)
    <2>1. PICK c \in Clients, s \in Secrets : ExchangeRefreshToken(c, s)
      BY <1>6
    <2>2. tokens[s] \in TokenRow /\ Delete(tokens, s) \in [Secrets -> TokenRow \cup {None}]
      BY <2>1, RowsAreRows DEF OAuthTypeOK, ExchangeRefreshToken, Delete
    <2>3. /\ tokens' \in [Secrets -> TokenRow \cup {None}]
          /\ cache' \in [Requests -> Secrets \cup {None}]
          /\ issued' \subseteq Credentials
      BY <2>1, <2>2, PairEffect DEF ExchangeRefreshToken
    <2> QED
      BY <2>1, <2>3 DEF OAuthTypeOK, ExchangeRefreshToken
  <1>7. CASE \E c \in Clients, s \in Secrets : ExchangeExpiredCode(c, s)
    BY <1>7 DEF OAuthTypeOK, ExchangeExpiredCode, Delete
  <1>8. CASE \E c \in Clients, s \in Secrets : RevokeToken(c, s)
    BY <1>8 DEF OAuthTypeOK, RevokeToken, Delete
  <1>9. CASE \E s \in Secrets : PresentExpiredToken(s)
    BY <1>9 DEF OAuthTypeOK, PresentExpiredToken, Delete
  <1>10. CASE \E r \in Requests : PendingExpires(r)
    <2>1. pending' \in [Requests -> PendingRow \cup {None}]
      BY <1>10, RowsAreRows, FreshTyped DEF OAuthTypeOK, PendingExpires
    <2> QED
      BY <1>10, <2>1 DEF OAuthTypeOK, PendingExpires
  <1>13. CASE \E s \in Secrets : CodeExpires(s)
    <2>1. codes' \in [Secrets -> CodeRow \cup {None}]
      BY <1>13, RowsAreRows, FreshTyped DEF OAuthTypeOK, CodeExpires
    <2> QED
      BY <1>13, <2>1 DEF OAuthTypeOK, CodeExpires
  <1>14. CASE \E s \in Secrets : TokenExpires(s)
    <2>1. tokens' \in [Secrets -> TokenRow \cup {None}]
      BY <1>14, RowsAreRows, FreshTyped DEF OAuthTypeOK, TokenExpires
    <2> QED
      BY <1>14, <2>1 DEF OAuthTypeOK, TokenExpires
  <1>11. CASE CacheLapses
    BY <1>11 DEF OAuthTypeOK, CacheLapses, NoCache
  <1>12. CASE UNCHANGED oauthVars
    BY <1>12 DEF OAuthTypeOK, oauthVars
  <1> QED
    BY <1>1, <1>2, <1>3, <1>4, <1>5, <1>6, <1>7, <1>8, <1>9, <1>10, <1>11, <1>12,
       <1>13, <1>14
       DEF OAuthNext

\* The OAuth tables keep their types under every method, every death of the
\* process and every expiry.
THEOREM OAuthTypeCorrect == OAuthSpec => []OAuthTypeOK
  <1>1. OAuthInit => OAuthTypeOK
    BY DEF OAuthInit, OAuthTypeOK, NoCache
  <1>2. OAuthTypeOK /\ [OAuthNext]_oauthVars => OAuthTypeOK'
    BY OAuthTyped
  <1> QED
    BY <1>1, <1>2, PTL DEF OAuthSpec
-----------------------------------------------------------------------------
\* A step that only deletes rows or lets them expire.
RowsKept ==
  /\ asked' = asked /\ issued' = issued
  /\ \A r \in Requests : pending'[r] # None =>
       pending[r] # None /\ pending'[r].client = pending[r].client
  /\ \A s \in Secrets : codes'[s] # None =>
       /\ codes[s] # None
       /\ codes'[s].client = codes[s].client
       /\ codes'[s].user = codes[s].user
       /\ codes'[s].grant = codes[s].grant
  /\ \A s \in Secrets : tokens'[s] # None =>
       /\ tokens[s] # None
       /\ tokens'[s].token_type = tokens[s].token_type
       /\ tokens'[s].client = tokens[s].client
       /\ tokens'[s].user = tokens[s].user
       /\ tokens'[s].grant = tokens[s].grant

\* Such a step keeps whatever the invariant says of the remaining rows.
LEMMA KeptShape ==
  ASSUME Shape, RowsKept
  PROVE  Shape'
  <1>1. Recorded'
    BY DEF Shape, RowsKept, Recorded
  <1>2. PendingAlone'
    BY DEF Shape, RowsKept, PendingAlone
  <1>3. CodeAlone'
    BY DEF Shape, RowsKept, CodeAlone
  <1>4. RefreshAlone'
    BY DEF Shape, RowsKept, RefreshAlone
  <1>5. BoundToApproval'
    BY DEF Shape, RowsKept, BoundToApproval
  <1> QED
    BY <1>1, <1>2, <1>3, <1>4, <1>5 DEF Shape

\* The steps that are of that kind.
LEMMA KeepingSteps ==
  ASSUME OAuthTypeOK,
         \/ \E c \in Clients : RegisterClient(c)
         \/ \E r \in Requests : ApproveExpired(r) \/ PendingExpires(r)
         \/ \E c \in Clients, s \in Secrets : ExchangeExpiredCode(c, s) \/ RevokeToken(c, s)
         \/ \E s \in Secrets : PresentExpiredToken(s) \/ CodeExpires(s) \/ TokenExpires(s)
         \/ CacheLapses
         \/ UNCHANGED oauthVars
  PROVE  RowsKept
  <1>1. CASE \E c \in Clients : RegisterClient(c)
    BY <1>1 DEF RegisterClient, RowsKept
  <1>2. CASE \E r \in Requests : ApproveExpired(r)
    BY <1>2 DEF OAuthTypeOK, ApproveExpired, Delete, RowsKept
  <1>3. CASE \E r \in Requests : PendingExpires(r)
    BY <1>3, RowsAreRows DEF OAuthTypeOK, PendingRow, PendingExpires, RowsKept
  <1>4. CASE \E c \in Clients, s \in Secrets : ExchangeExpiredCode(c, s)
    BY <1>4 DEF OAuthTypeOK, ExchangeExpiredCode, Delete, RowsKept
  <1>5. CASE \E c \in Clients, s \in Secrets : RevokeToken(c, s)
    BY <1>5 DEF OAuthTypeOK, RevokeToken, Delete, RowsKept
  <1>6. CASE \E s \in Secrets : PresentExpiredToken(s)
    BY <1>6 DEF OAuthTypeOK, PresentExpiredToken, Delete, RowsKept
  <1>7. CASE \E s \in Secrets : CodeExpires(s)
    BY <1>7, RowsAreRows DEF OAuthTypeOK, CodeRow, CodeExpires, RowsKept
  <1>8. CASE \E s \in Secrets : TokenExpires(s)
    BY <1>8, RowsAreRows DEF OAuthTypeOK, TokenRow, TokenExpires, RowsKept
  <1>9. CASE CacheLapses
    BY <1>9 DEF CacheLapses, RowsKept
  <1>10. CASE UNCHANGED oauthVars
    BY <1>10 DEF oauthVars, RowsKept
  <1> QED
    BY <1>1, <1>2, <1>3, <1>4, <1>5, <1>6, <1>7, <1>8, <1>9, <1>10

\* authorize: the request is new, so nothing can be derived from it.
LEMMA AuthorizeShape ==
  ASSUME OAuthTypeOK, Shape, NEW c \in Clients, NEW r \in Requests, Authorize(c, r)
  PROVE  Shape'
  <1>1. /\ pending'[r].client = c /\ pending[r] = None
        /\ asked'[r].client = c
        /\ \A q \in Requests \ {r} : pending'[q] = pending[q] /\ asked'[q] = asked[q]
        /\ issued' = issued \cup {<<"pending", r>>}
        /\ UNCHANGED <<codes, tokens>>
    BY DEF OAuthTypeOK, Shape, Recorded, Authorize
  <1>2. /\ \A s \in Secrets : codes[s] # None => codes[s].grant # r
        /\ \A s \in Secrets : tokens[s] # None => tokens[s].grant # r
    BY DEF Shape, Recorded, Authorize
  <1>3. /\ \A s \in Secrets : codes[s] # None => codes[s].grant \in Requests
        /\ \A s \in Secrets : tokens[s] # None => tokens[s].grant \in Requests
    BY RowsAreRows DEF CodeRow, TokenRow
  <1>4. Recorded'
    BY <1>1 DEF Shape, Recorded
  <1>5. PendingAlone'
    BY <1>1, <1>2 DEF Shape, PendingAlone
  <1>6. CodeAlone' /\ RefreshAlone'
    BY <1>1 DEF Shape, CodeAlone, RefreshAlone
  <1>7. BoundToApproval'
    BY <1>1, <1>2, <1>3 DEF Shape, BoundToApproval
  <1> QED
    BY <1>4, <1>5, <1>6, <1>7 DEF Shape

\* approvePendingRequest: the request goes, its code comes.
LEMMA ApproveShape ==
  ASSUME OAuthTypeOK, Shape, NEW r \in Requests, NEW u \in Users \cup {None},
         ApprovePendingRequest(r, u)
  PROVE  Shape'
  <1>1. CASE UNCHANGED <<codes, issued, asked>>
    <2>1. RowsKept
      BY <1>1 DEF OAuthTypeOK, ApprovePendingRequest, Delete, RowsKept
    <2> QED
      BY <2>1, KeptShape
  <1>2. CASE ~UNCHANGED <<codes, issued, asked>>
    <2> DEFINE row == [client |-> pending[r].client, user |-> u, grant |-> r, fresh |-> TRUE]
    <2>1. PICK s \in Secrets :
            /\ Unused(s)
            /\ codes' = [codes EXCEPT ![s] = row]
            /\ issued' = issued \cup {<<"code", s>>}
            /\ asked' = [asked EXCEPT ![r].user = u]
      BY <1>2 DEF ApprovePendingRequest
    <2>2. pending[r].client \in Clients
      BY RowsAreRows DEF ApprovePendingRequest, PendingRow
    <2>3. row \in CodeRow
      BY <2>2 DEF CodeRow
    <2> HIDE DEF row
    <2>4. row # None /\ row.client = pending[r].client /\ row.user = u /\ row.grant = r
      BY <2>3 DEF row
    <2>5. /\ codes[s] = None /\ codes'[s] = row
          /\ \A t \in Secrets \ {s} : codes'[t] = codes[t]
          /\ tokens' = tokens
      BY <2>1 DEF OAuthTypeOK, Shape, Recorded, Unused, ApprovePendingRequest
    <2>6. /\ pending[r] # None /\ pending'[r] = None
          /\ \A q \in Requests \ {r} : pending'[q] = pending[q] /\ asked'[q] = asked[q]
          /\ asked'[r].client = pending[r].client /\ asked'[r].user = u
      BY <2>1 DEF OAuthTypeOK, Shape, PendingAlone, ApprovePendingRequest, Delete
    <2>7. /\ \A t \in Secrets : codes[t] # None => codes[t].grant # r
          /\ \A t \in Secrets : tokens[t] # None => tokens[t].grant # r
      BY <2>6 DEF Shape, PendingAlone
    <2>8. /\ \A t \in Secrets : codes[t] # None => codes[t].grant \in Requests
          /\ \A t \in Secrets : tokens[t] # None => tokens[t].grant \in Requests
      BY RowsAreRows DEF CodeRow, TokenRow
    <2>9. Recorded'
      <3>1. <<"pending", r>> \in issued /\ issued \subseteq issued' /\ <<"code", s>> \in issued'
        BY <2>1, <2>6 DEF Shape, Recorded
      <3>2. \A q \in Requests : pending'[q] # None => <<"pending", q>> \in issued'
        BY <2>6, <3>1 DEF Shape, Recorded
      <3>3. \A t \in Secrets : codes'[t] # None =>
              <<"code", t>> \in issued' /\ <<"pending", codes'[t].grant>> \in issued'
        BY <2>4, <2>5, <3>1 DEF Shape, Recorded
      <3>4. \A t \in Secrets : tokens'[t] # None =>
              /\ <<tokens'[t].token_type, t>> \in issued'
              /\ <<"pending", tokens'[t].grant>> \in issued'
        BY <2>5, <3>1 DEF Shape, Recorded
      <3> QED
        BY <3>2, <3>3, <3>4 DEF Recorded
    <2>10. PendingAlone'
      BY <2>4, <2>5, <2>6 DEF Shape, PendingAlone
    <2>11. CodeAlone' /\ RefreshAlone'
      BY <2>4, <2>5, <2>7 DEF Shape, CodeAlone, RefreshAlone
    <2>12. BoundToApproval'
      <3>1. ASSUME NEW t \in Secrets \ {s}, codes'[t] # None
            PROVE  /\ codes'[t].client = asked'[codes'[t].grant].client
                   /\ codes'[t].user = asked'[codes'[t].grant].user
        <4>1. codes'[t] = codes[t] /\ codes[t].grant \in Requests \ {r}
          BY <3>1, <2>5, <2>7, <2>8
        <4> QED
          BY <3>1, <4>1, <2>6 DEF Shape, BoundToApproval
      <3>2. ASSUME NEW t \in Secrets, tokens'[t] # None
            PROVE  /\ tokens'[t].client = asked'[tokens'[t].grant].client
                   /\ tokens'[t].user = asked'[tokens'[t].grant].user
        <4>1. tokens'[t] = tokens[t] /\ tokens[t].grant \in Requests \ {r}
          BY <3>2, <2>5, <2>7, <2>8
        <4> QED
          BY <3>2, <4>1, <2>6 DEF Shape, BoundToApproval
      <3>3. /\ codes'[s].client = asked'[codes'[s].grant].client
            /\ codes'[s].user = asked'[codes'[s].grant].user
        BY <2>4, <2>5, <2>6
      <3> QED
        BY <3>1, <3>2, <3>3 DEF BoundToApproval
    <2> QED
      BY <2>9, <2>10, <2>11, <2>12 DEF Shape
  <1> QED
    BY <1>1, <1>2

\* After an exchange a token was there already, or is one of the new pair.
OldToken(x, table) ==
  tokens'[x] = table[x] /\ table[x] = tokens[x] /\ tokens[x] # None

NewToken(x, row, c) ==
  /\ tokens'[x].client = c
  /\ tokens'[x].user = row.user
  /\ tokens'[x].grant = row.grant
  /\ <<tokens'[x].token_type, x>> \in issued'

\* Both exchanges: the redeemed row is gone from codes' or table, and what is
\* inserted is derived from it.
LEMMA PairShape ==
  ASSUME OAuthTypeOK, Shape,
         NEW table \in [Secrets -> TokenRow \cup {None}],
         NEW row \in CodeRow \cup TokenRow, NEW c \in Clients,
         InsertPair(table, row, c),
         c = asked[row.grant].client, row.user = asked[row.grant].user,
         <<"pending", row.grant>> \in issued,
         pending[row.grant] = None,
         pending' = pending, asked' = asked,
         \A s \in Secrets : codes'[s] # None =>
           codes'[s] = codes[s] /\ codes[s].grant # row.grant,
         \A s \in Secrets : table[s] # None => table[s] = tokens[s],
         \A s \in Secrets : table[s] # None /\ table[s].token_type = "refresh" =>
           table[s].grant # row.grant
  PROVE  Shape'
  <1>1. /\ Token("access", row, c) # None /\ Token("refresh", row, c) # None
        /\ \A type \in {"access", "refresh"} :
             /\ Token(type, row, c).token_type = type
             /\ Token(type, row, c).client = c
             /\ Token(type, row, c).user = row.user
             /\ Token(type, row, c).grant = row.grant
    BY TokenIsRow
  <1>2. row.grant \in Requests
    BY DEF CodeRow, TokenRow
  <1>3. /\ issued \subseteq issued'
        /\ \A x \in Secrets : tokens'[x] # None => OldToken(x, table) \/ NewToken(x, row, c)
    <2>1. SUFFICES ASSUME NEW x \in Secrets, tokens'[x] # None
                   PROVE  OldToken(x, table) \/ NewToken(x, row, c)
      BY PairEffect
    <2>2. CASE tokens'[x] = table[x]
      BY <2>1, <2>2 DEF OldToken
    <2>3. CASE tokens'[x] = Token("access", row, c) /\ <<"access", x>> \in issued'
      BY <1>1, <2>3 DEF NewToken
    <2>4. CASE tokens'[x] = Token("refresh", row, c) /\ <<"refresh", x>> \in issued'
      BY <1>1, <2>4 DEF NewToken
    <2> QED
      BY <2>2, <2>3, <2>4, PairEffect
  <1>4. \A x, y \in Secrets :
          /\ tokens'[x] # table[x] /\ tokens'[x].token_type = "refresh"
          /\ tokens'[y] # table[y] /\ tokens'[y].token_type = "refresh"
          => x = y
    BY PairEffect
  <1>5. Recorded'
    <2>1. \A s \in Secrets : tokens'[s] # None =>
            /\ <<tokens'[s].token_type, s>> \in issued'
            /\ <<"pending", tokens'[s].grant>> \in issued'
      BY <1>3 DEF Shape, Recorded, OldToken, NewToken
    <2> QED
      BY <1>3, <2>1 DEF Shape, Recorded
  <1>6. PendingAlone'
    <2>1. ASSUME NEW r \in Requests, pending'[r] # None, NEW s \in Secrets, tokens'[s] # None
          PROVE  tokens'[s].grant # r
      <3>1. CASE OldToken(s, table)
        BY <2>1, <3>1 DEF Shape, PendingAlone, OldToken
      <3>2. CASE NewToken(s, row, c)
        BY <2>1, <3>2 DEF NewToken
      <3> QED
        BY <1>3, <2>1, <3>1, <3>2
    <2> QED
      BY <2>1 DEF Shape, PendingAlone
  <1>7. CodeAlone'
    <2>1. ASSUME NEW s \in Secrets, codes'[s] # None, NEW t \in Secrets, tokens'[t] # None
          PROVE  tokens'[t].grant # codes'[s].grant
      <3>1. CASE OldToken(t, table)
        BY <2>1, <3>1 DEF Shape, CodeAlone, OldToken
      <3>2. CASE NewToken(t, row, c)
        BY <2>1, <3>2 DEF NewToken
      <3> QED
        BY <1>3, <2>1, <3>1, <3>2
    <2>2. ASSUME NEW s \in Secrets, codes'[s] # None, NEW t \in Secrets, codes'[t] # None,
                 codes'[t].grant = codes'[s].grant
          PROVE  t = s
      BY <2>2 DEF Shape, CodeAlone
    <2> QED
      BY <2>1, <2>2 DEF CodeAlone
  <1>8. RefreshAlone'
    <2>1. SUFFICES ASSUME NEW s \in Secrets, NEW t \in Secrets,
                          tokens'[s] # None, tokens'[s].token_type = "refresh",
                          tokens'[t] # None, tokens'[t].token_type = "refresh",
                          tokens'[s].grant = tokens'[t].grant
                   PROVE  s = t
      BY DEF RefreshAlone
    <2>2. CASE OldToken(s, table) /\ OldToken(t, table)
      BY <2>1, <2>2 DEF Shape, RefreshAlone, OldToken
    <2>3. CASE OldToken(s, table) /\ tokens'[t].grant = row.grant
      BY <2>1, <2>3 DEF OldToken
    <2>4. CASE OldToken(t, table) /\ tokens'[s].grant = row.grant
      BY <2>1, <2>4 DEF OldToken
    <2>5. CASE ~OldToken(s, table) /\ ~OldToken(t, table)
      BY <2>1, <2>5, <1>4 DEF OldToken
    <2> QED
      BY <2>1, <2>2, <2>3, <2>4, <2>5, <1>3 DEF NewToken
  <1>9. BoundToApproval'
    <2>1. ASSUME NEW s \in Secrets, codes'[s] # None
          PROVE  /\ codes'[s].client = asked'[codes'[s].grant].client
                 /\ codes'[s].user = asked'[codes'[s].grant].user
      BY <2>1 DEF Shape, BoundToApproval
    <2>2. ASSUME NEW s \in Secrets, OldToken(s, table)
          PROVE  /\ tokens'[s].client = asked'[tokens'[s].grant].client
                 /\ tokens'[s].user = asked'[tokens'[s].grant].user
      BY <2>2 DEF Shape, BoundToApproval, OldToken
    <2>3. ASSUME NEW s \in Secrets, NewToken(s, row, c)
          PROVE  /\ tokens'[s].client = asked'[tokens'[s].grant].client
                 /\ tokens'[s].user = asked'[tokens'[s].grant].user
      BY <2>3 DEF NewToken
    <2> QED
      BY <1>3, <2>1, <2>2, <2>3 DEF BoundToApproval
  <1> QED
    BY <1>5, <1>6, <1>7, <1>8, <1>9 DEF Shape

\* exchangeAuthorizationCode
LEMMA ExchangeCodeShape ==
  ASSUME OAuthTypeOK, Shape, NEW c \in Clients, NEW s \in Secrets,
         ExchangeAuthorizationCode(c, s)
  PROVE  Shape'
  <1>1. codes[s] # None /\ codes[s] \in CodeRow /\ codes[s].client = c
    BY RowsAreRows DEF ExchangeAuthorizationCode
  <1>2. codes[s].grant \in Requests
    BY <1>1 DEF CodeRow
  <1>3. \A t \in Secrets : codes'[t] # None => codes'[t] = codes[t] /\ t # s
    BY DEF OAuthTypeOK, ExchangeAuthorizationCode, Delete
  <1>4. \A t \in Secrets : codes'[t] # None =>
          codes'[t] = codes[t] /\ codes[t].grant # codes[s].grant
    BY <1>1, <1>3 DEF Shape, CodeAlone
  <1>5. \A t \in Secrets : tokens[t] # None => tokens[t].grant # codes[s].grant
    BY <1>1 DEF Shape, CodeAlone
  <1>6. pending[codes[s].grant] = None
    BY <1>1, <1>2 DEF Shape, PendingAlone
  <1>7. /\ c = asked[codes[s].grant].client /\ codes[s].user = asked[codes[s].grant].user
        /\ <<"pending", codes[s].grant>> \in issued
    BY <1>1 DEF Shape, BoundToApproval, Recorded
  <1>8. /\ tokens \in [Secrets -> TokenRow \cup {None}]
        /\ InsertPair(tokens, codes[s], c)
        /\ pending' = pending /\ asked' = asked
    BY DEF OAuthTypeOK, ExchangeAuthorizationCode
  <1> QED
    BY <1>1, <1>4, <1>5, <1>6, <1>7, <1>8, PairShape

\* exchangeRefreshToken
LEMMA ExchangeRefreshShape ==
  ASSUME OAuthTypeOK, Shape, NEW c \in Clients, NEW s \in Secrets,
         ExchangeRefreshToken(c, s)
  PROVE  Shape'
  <1> DEFINE table == Delete(tokens, s)
  <1>1. /\ tokens[s] # None /\ tokens[s] \in TokenRow
        /\ tokens[s].client = c /\ tokens[s].token_type = "refresh"
    BY RowsAreRows DEF ExchangeRefreshToken
  <1>2. tokens[s].grant \in Requests
    BY <1>1 DEF TokenRow
  <1>3. /\ table \in [Secrets -> TokenRow \cup {None}]
        /\ \A t \in Secrets : table[t] # None => table[t] = tokens[t] /\ t # s
    BY DEF OAuthTypeOK, Delete
  <1>4. InsertPair(table, tokens[s], c) /\ pending' = pending /\ asked' = asked /\ codes' = codes
    BY DEF ExchangeRefreshToken
  <1> HIDE DEF table
  <1>5. \A t \in Secrets : table[t] # None /\ table[t].token_type = "refresh" =>
          table[t].grant # tokens[s].grant
    BY <1>1, <1>3 DEF Shape, RefreshAlone
  <1>6. \A t \in Secrets : codes'[t] # None =>
          codes'[t] = codes[t] /\ codes[t].grant # tokens[s].grant
    BY <1>1, <1>4 DEF Shape, CodeAlone
  <1>7. pending[tokens[s].grant] = None
    BY <1>1, <1>2 DEF Shape, PendingAlone
  <1>8. /\ c = asked[tokens[s].grant].client /\ tokens[s].user = asked[tokens[s].grant].user
        /\ <<"pending", tokens[s].grant>> \in issued
    BY <1>1 DEF Shape, BoundToApproval, Recorded
  <1>9. \A t \in Secrets : table[t] # None => table[t] = tokens[t]
    BY <1>3
  <1> QED
    BY <1>1, <1>3, <1>4, <1>5, <1>6, <1>7, <1>8, <1>9, PairShape

\* Every step keeps the whole invariant.
LEMMA ShapeKept ==
  ASSUME OAuthTypeOK, Shape, [OAuthNext]_oauthVars
  PROVE  Shape'
  <1>1. CASE \E c \in Clients, r \in Requests : Authorize(c, r)
    BY <1>1, AuthorizeShape
  <1>2. CASE \E r \in Requests, u \in Users \cup {None} : ApprovePendingRequest(r, u)
    BY <1>2, ApproveShape
  <1>3. CASE \E c \in Clients, s \in Secrets : ExchangeAuthorizationCode(c, s)
    BY <1>3, ExchangeCodeShape
  <1>4. CASE \E c \in Clients, s \in Secrets : ExchangeRefreshToken(c, s)
    BY <1>4, ExchangeRefreshShape
  <1> QED
    BY <1>1, <1>2, <1>3, <1>4, KeepingSteps, KeptShape DEF OAuthNext

LEMMA ShapeHolds == OAuthSpec => [](OAuthTypeOK /\ Shape)
  <1>1. OAuthInit => OAuthTypeOK /\ Shape
    BY DEF OAuthInit, OAuthTypeOK, NoCache, Shape, Recorded, PendingAlone, CodeAlone,
           RefreshAlone, BoundToApproval
  <1>2. OAuthTypeOK /\ Shape /\ [OAuthNext]_oauthVars => (OAuthTypeOK /\ Shape)'
    BY OAuthTyped, ShapeKept
  <1> QED
    BY <1>1, <1>2, PTL DEF OAuthSpec

\* Every code and token belongs to the client that asked and the user who
\* approved, however often it has been rotated.
THEOREM BindingCorrect == OAuthSpec => []BoundToApproval
  <1>1. Shape => BoundToApproval
    BY DEF Shape
  <1> QED
    BY <1>1, ShapeHolds, PTL

\* In particular no request has two redeemable credentials.
LEMMA ShapeOneCredential ==
  ASSUME Shape
  PROVE  OneCredential
  <1>1. SUFFICES ASSUME NEW r \in Requests, NEW c \in Held(r), NEW d \in Held(r)
                 PROVE  c = d
    BY DEF OneCredential
  <1>2. CASE pending[r] # None
    BY <1>1, <1>2 DEF Shape, PendingAlone, Held, CodesOf, RefreshTokensOf
  <1>3. CASE pending[r] = None
    BY <1>1, <1>3 DEF Shape, CodeAlone, RefreshAlone, Held, CodesOf, RefreshTokensOf
  <1> QED
    BY <1>2, <1>3

\* A request never has two redeemable credentials.
THEOREM CredentialCorrect == OAuthSpec => []OneCredential
  <1>1. Shape => OneCredential
    BY ShapeOneCredential
  <1> QED
    BY <1>1, ShapeHolds, PTL
-----------------------------------------------------------------------------
\* The rows of request q did not change, so neither did its credential.
LEMMA SameHeld ==
  ASSUME NEW q \in Requests,
         pending'[q] # None <=> pending[q] # None,
         \A s \in Secrets : codes'[s] # None /\ codes'[s].grant = q
                         <=> codes[s] # None /\ codes[s].grant = q,
         \A s \in Secrets :
           tokens'[s] # None /\ tokens'[s].token_type = "refresh" /\ tokens'[s].grant = q
           <=> tokens[s] # None /\ tokens[s].token_type = "refresh" /\ tokens[s].grant = q
  PROVE  Held(q)' = Held(q)
  <1>1. CodesOf(q)' = CodesOf(q) /\ RefreshTokensOf(q)' = RefreshTokensOf(q)
    BY DEF CodesOf, RefreshTokensOf
  <1> QED
    BY <1>1 DEF Held

\* Whatever row a credential is, it is the whole of Held.
HeldIsRow ==
  \A r \in Requests :
    /\ pending[r] # None => Held(r) = {<<"pending", r>>}
    /\ \A s \in CodesOf(r) : Held(r) = {<<"code", s>>}
    /\ \A s \in RefreshTokensOf(r) : Held(r) = {<<"refresh", s>>}
    /\ pending[r] = None /\ CodesOf(r) = {} /\ RefreshTokensOf(r) = {} => Held(r) = {}

LEMMA HeldSingle == OneCredential => HeldIsRow
  <1> SUFFICES ASSUME OneCredential, NEW r \in Requests
               PROVE  /\ pending[r] # None => Held(r) = {<<"pending", r>>}
                      /\ \A s \in CodesOf(r) : Held(r) = {<<"code", s>>}
                      /\ \A s \in RefreshTokensOf(r) : Held(r) = {<<"refresh", s>>}
                      /\ pending[r] = None /\ CodesOf(r) = {} /\ RefreshTokensOf(r) = {}
                           => Held(r) = {}
    BY DEF HeldIsRow
  <1>1. pending[r] # None => <<"pending", r>> \in Held(r)
    BY DEF Held
  <1>2. \A s \in CodesOf(r) : <<"code", s>> \in Held(r)
    BY DEF Held
  <1>3. \A s \in RefreshTokensOf(r) : <<"refresh", s>> \in Held(r)
    BY DEF Held
  <1>4. \A c \in Held(r) : Held(r) = {c}
    BY DEF OneCredential
  <1> QED
    BY <1>1, <1>2, <1>3, <1>4 DEF Held

\* The same after a step.
LEMMA HeldSingleNext == Shape' => OneCredential' /\ HeldIsRow'
  <1>1. Shape => OneCredential
    BY ShapeOneCredential
  <1> QED
    BY <1>1, HeldSingle, PTL

\* A step that shrinks one Held set and leaves the others alone ends a grant,
\* or is no step of OAuthGrants.
LEMMA EndedOrSame ==
  ASSUME OneCredential, NEW r \in Requests,
         Held(r)' \subseteq Held(r),
         \A q \in Requests \ {r} : Held(q)' = Held(q),
         {c \in issued' : c[1] # "access"} = {c \in issued : c[1] # "access"}
  PROVE  Grants!Ended(r) \/ UNCHANGED Grants!grantVars
  <1>1. CASE Held(r)' = Held(r)
    BY <1>1 DEF Grants!grantVars
  <1>2. CASE Held(r)' # Held(r)
    <2>1. Held(r) # {} /\ Held(r)' = {}
      BY <1>2 DEF OneCredential
    <2> QED
      BY <2>1 DEF Grants!Ended
  <1> QED
    BY <1>1, <1>2

AbstractIssued == {c \in issued : c[1] # "access"}

\* authorize is Ask.
LEMMA AuthorizeRefines ==
  ASSUME OAuthTypeOK, Shape, NEW c \in Clients, NEW r \in Requests, Authorize(c, r)
  PROVE  Grants!Ask(r)
  <1>1. Shape' /\ HeldIsRow'
    BY AuthorizeShape, HeldSingleNext
  <1>2. /\ pending'[r] # None
        /\ \A q \in Requests \ {r} : pending'[q] = pending[q]
        /\ UNCHANGED <<codes, tokens>>
        /\ <<"pending", r>> \notin issued
        /\ issued' = issued \cup {<<"pending", r>>}
    <2>1. [client |-> c, fresh |-> TRUE] \in PendingRow
      BY DEF PendingRow
    <2>2. [client |-> c, fresh |-> TRUE] # None
      BY <2>1
    <2> QED
      BY <2>2 DEF OAuthTypeOK, Authorize
  <1>3. Held(r)' = {<<"pending", r>>}
    BY <1>1, <1>2 DEF HeldIsRow
  <1>4. \A q \in Requests \ {r} : Held(q)' = Held(q)
    BY <1>2, SameHeld
  <1>5. AbstractIssued' = AbstractIssued \cup {<<"pending", r>>}
    BY <1>2 DEF AbstractIssued
  <1> QED
    BY <1>2, <1>3, <1>4, <1>5 DEF Grants!Ask, Grants!PendingOf, AbstractIssued

\* approvePendingRequest buys a code, or the process dies and the grant ends.
LEMMA ApproveRefines ==
  ASSUME OAuthTypeOK, Shape, NEW r \in Requests, NEW u \in Users \cup {None},
         ApprovePendingRequest(r, u)
  PROVE  Grants!Approved(r) \/ Grants!Ended(r) \/ UNCHANGED Grants!grantVars
  <1>1. Shape' /\ HeldIsRow' /\ HeldIsRow /\ OneCredential
    BY ApproveShape, HeldSingleNext, HeldSingle, ShapeOneCredential
  <1>2. /\ Held(r) = {<<"pending", r>>}
        /\ \A q \in Requests \ {r} : pending'[q] = pending[q]
        /\ pending'[r] = None
        /\ tokens' = tokens
    BY <1>1 DEF OAuthTypeOK, HeldIsRow, ApprovePendingRequest, Delete
  <1>3. CASE UNCHANGED <<codes, issued, asked>>
    <2>1. \A q \in Requests \ {r} : Held(q)' = Held(q)
      BY <1>2, <1>3, SameHeld
    <2>2. Held(r)' \subseteq Held(r)
      BY <1>2, <1>3 DEF Held, CodesOf, RefreshTokensOf
    <2> QED
      BY <1>1, <1>3, <2>1, <2>2, EndedOrSame
  <1>4. CASE ~UNCHANGED <<codes, issued, asked>>
    <2>1. PICK s \in Secrets :
            /\ Unused(s)
            /\ codes' = [codes EXCEPT ![s] = [client |-> pending[r].client, user |-> u,
                                               grant |-> r, fresh |-> TRUE]]
            /\ issued' = issued \cup {<<"code", s>>}
      BY <1>4 DEF ApprovePendingRequest
    <2>2. [client |-> pending[r].client, user |-> u, grant |-> r, fresh |-> TRUE] # None
      <3>1. pending[r].client \in Clients
        BY RowsAreRows DEF ApprovePendingRequest, PendingRow
      <3>2. [client |-> pending[r].client, user |-> u, grant |-> r, fresh |-> TRUE] \in CodeRow
        BY <3>1 DEF CodeRow
      <3> QED
        BY <3>2
    <2>3. /\ codes[s] = None /\ codes'[s] # None /\ codes'[s].grant = r
          /\ \A t \in Secrets \ {s} : codes'[t] = codes[t]
      BY <2>1, <2>2 DEF OAuthTypeOK, Shape, Recorded, Unused
    <2>4. Held(r)' = {<<"code", s>>}
      BY <1>1, <2>3 DEF HeldIsRow, CodesOf
    <2>5. ASSUME NEW q \in Requests \ {r}
          PROVE  Held(q)' = Held(q)
      BY <1>2, <2>3, SameHeld
    <2>6. AbstractIssued' = AbstractIssued \cup {<<"code", s>>} /\ <<"code", s>> \notin AbstractIssued
      BY <2>1 DEF AbstractIssued, Unused
    <2> QED
      BY <1>2, <2>4, <2>5, <2>6
         DEF Grants!Approved, Grants!Redeem, Grants!PendingOf, Grants!CodeOf, AbstractIssued
  <1> QED
    BY <1>3, <1>4

\* Both exchanges buy a refresh token with the redeemed row, or the process
\* dies before there is one and the grant ends.
LEMMA PairRefines ==
  ASSUME OAuthTypeOK, Shape', OneCredential,
         NEW table \in [Secrets -> TokenRow \cup {None}],
         NEW row \in CodeRow \cup TokenRow, NEW c \in Clients, NEW old,
         InsertPair(table, row, c),
         Held(row.grant) = {old},
         \A s \in Secrets : tokens[s] # None => <<tokens[s].token_type, s>> \in issued,
         pending' = pending, pending[row.grant] = None,
         \A s \in Secrets : codes'[s] # None => codes'[s].grant # row.grant,
         \A q \in Requests \ {row.grant} : \A s \in Secrets :
           codes'[s] # None /\ codes'[s].grant = q <=> codes[s] # None /\ codes[s].grant = q,
         \A s \in Secrets : table[s] = tokens[s] \/ table[s] = None,
         \A s \in Secrets : table[s] # tokens[s] => tokens[s].grant = row.grant,
         \A s \in Secrets : table[s] # None /\ table[s].token_type = "refresh" =>
           table[s].grant # row.grant
  PROVE  \/ \E n \in Secrets : Grants!Redeem(row.grant, old, <<"refresh", n>>)
         \/ Grants!Ended(row.grant)
         \/ UNCHANGED Grants!grantVars
  <1> DEFINE r == row.grant
  <1>1. r \in Requests
    BY DEF CodeRow, TokenRow
  <1>2. HeldIsRow'
    BY HeldSingleNext
  <1>3. /\ Token("access", row, c) # None /\ Token("refresh", row, c) # None
        /\ \A type \in {"access", "refresh"} :
             /\ Token(type, row, c).token_type = type
             /\ Token(type, row, c).grant = r
             /\ Token(type, row, c) \in TokenRow
    BY TokenIsRow
  <1> HIDE DEF r
  <1>4. CodesOf(r)' = {}
    BY DEF CodesOf, r
  <1>5. ASSUME NEW a \in Secrets, NEW n \in Secrets, a # n, Unused(a), Unused(n),
               tokens' = [table EXCEPT ![a] = Token("access", row, c), ![n] = Token("refresh", row, c)],
               issued' = issued \cup {<<"access", a>>, <<"refresh", n>>}
        PROVE  Grants!Redeem(r, old, <<"refresh", n>>)
    <2>1. tokens[a] = None /\ tokens[n] = None
      <3>1. \A s \in Secrets : tokens[s] # None => tokens[s].token_type \in {"access", "refresh"}
        BY RowsAreRows DEF TokenRow
      <3> QED
        BY <1>5, <3>1 DEF Unused
    <2>2. /\ tokens'[a] = Token("access", row, c)
          /\ tokens'[n] = Token("refresh", row, c)
          /\ \A x \in Secrets \ {a, n} : tokens'[x] = table[x]
      BY <1>5
    <2>3. Held(r)' = {<<"refresh", n>>}
      BY <1>1, <1>2, <1>3, <2>2 DEF HeldIsRow, RefreshTokensOf
    <2>4. ASSUME NEW q \in Requests \ {r}
          PROVE  Held(q)' = Held(q)
      <3>1. ASSUME NEW s \in Secrets
            PROVE  tokens'[s] # None /\ tokens'[s].token_type = "refresh" /\ tokens'[s].grant = q
                   <=> tokens[s] # None /\ tokens[s].token_type = "refresh" /\ tokens[s].grant = q
        <4>1. CASE s \in {a, n}
          BY <1>3, <2>1, <2>2, <2>4, <4>1
        <4>2. CASE s \notin {a, n}
          BY <2>2, <2>4, <4>2 DEF r
        <4> QED
          BY <4>1, <4>2
      <3> QED
        BY <2>4, <3>1, SameHeld DEF r
    <2>5. AbstractIssued' = AbstractIssued \cup {<<"refresh", n>>} /\ <<"refresh", n>> \notin AbstractIssued
      BY <1>5 DEF AbstractIssued, Unused
    <2> QED
      <3>1. Held(r) = {old}
        BY DEF r
      <3>2. [q \in Requests |-> Held(q)]' = [[q \in Requests |-> Held(q)] EXCEPT ![r] = {<<"refresh", n>>}]
        BY <1>1, <2>3, <2>4
      <3> QED
        BY <1>1, <2>5, <3>1, <3>2 DEF Grants!Redeem, AbstractIssued
  <1> DEFINE AccessOnly(s) ==
        (tokens'[s] = table[s]) \/ (tokens[s] = None /\ tokens'[s] = Token("access", row, c))
  <1>6. ASSUME \A s \in Secrets : AccessOnly(s),
               AbstractIssued' = AbstractIssued
        PROVE  Grants!Ended(r) \/ UNCHANGED Grants!grantVars
    <2>1. ASSUME NEW s \in Secrets, tokens'[s] # None, tokens'[s].token_type = "refresh"
          PROVE  tokens'[s] = tokens[s] /\ tokens[s].grant # r
      BY <1>3, <1>6, <2>1 DEF r
    <2>2. RefreshTokensOf(r)' = {}
      BY <2>1 DEF RefreshTokensOf
    <2>3. Held(r)' = {}
      BY <1>1, <1>2, <1>4, <2>2 DEF HeldIsRow, r
    <2>4. ASSUME NEW q \in Requests \ {r}
          PROVE  Held(q)' = Held(q)
      <3>1. ASSUME NEW s \in Secrets
            PROVE  tokens'[s] # None /\ tokens'[s].token_type = "refresh" /\ tokens'[s].grant = q
                   <=> tokens[s] # None /\ tokens[s].token_type = "refresh" /\ tokens[s].grant = q
        <4>1. CASE tokens'[s] = table[s]
          BY <2>4, <4>1 DEF r
        <4>2. CASE tokens[s] = None /\ tokens'[s] = Token("access", row, c)
          BY <1>3, <4>2
        <4> QED
          BY <1>6, <4>1, <4>2
      <3> QED
        BY <2>4, <3>1, SameHeld DEF r
    <2> QED
      BY <1>1, <1>6, <2>3, <2>4, EndedOrSame DEF AbstractIssued
  <1>7. ASSUME NEW a \in Secrets, Unused(a), tokens' = [table EXCEPT ![a] = Token("access", row, c)],
               issued' = issued \cup {<<"access", a>>}
        PROVE  Grants!Ended(r) \/ UNCHANGED Grants!grantVars
    <2>1. tokens[a] = None
      <3>1. \A s \in Secrets : tokens[s] # None => tokens[s].token_type \in {"access", "refresh"}
        BY RowsAreRows DEF TokenRow
      <3> QED
        BY <1>7, <3>1 DEF Unused
    <2>2. ASSUME NEW s \in Secrets
          PROVE  AccessOnly(s)
      <3>1. \A t \in Secrets \ {a} : tokens'[t] = table[t]
        BY <1>7
      <3>2. tokens'[a] = Token("access", row, c)
        BY <1>7
      <3>3. CASE s = a
        BY <2>1, <3>2, <3>3
      <3>4. CASE s # a
        BY <3>1, <3>4
      <3> QED
        BY <3>3, <3>4
    <2>3. AbstractIssued' = AbstractIssued
      BY <1>7 DEF AbstractIssued
    <2> HIDE DEF AccessOnly
    <2> QED
      BY <1>6, <2>2, <2>3
  <1>8. CASE tokens' = table /\ UNCHANGED issued
    <2>1. AbstractIssued' = AbstractIssued
      BY <1>8 DEF AbstractIssued
    <2>2. \A s \in Secrets : AccessOnly(s)
      BY <1>8
    <2> HIDE DEF AccessOnly
    <2> QED
      BY <1>6, <2>1, <2>2 DEF r
  <1> QED
    BY <1>5, <1>7, <1>8 DEF InsertPair, r

\* exchangeAuthorizationCode is Exchanged.
LEMMA ExchangeCodeRefines ==
  ASSUME OAuthTypeOK, Shape, NEW c \in Clients, NEW s \in Secrets,
         ExchangeAuthorizationCode(c, s)
  PROVE  \E r \in Requests : Grants!Exchanged(r) \/ Grants!Ended(r) \/ UNCHANGED Grants!grantVars
  <1>1. Shape' /\ OneCredential /\ HeldIsRow
    BY ExchangeCodeShape, ShapeOneCredential, HeldSingle
  <1>2. codes[s] # None /\ codes[s] \in CodeRow
    BY RowsAreRows DEF ExchangeAuthorizationCode
  <1>3. codes[s].grant \in Requests
    BY <1>2 DEF CodeRow
  <1>4. Held(codes[s].grant) = {<<"code", s>>}
    BY <1>1, <1>2, <1>3 DEF HeldIsRow, CodesOf
  <1>5. /\ tokens \in [Secrets -> TokenRow \cup {None}]
        /\ InsertPair(tokens, codes[s], c)
        /\ pending' = pending
    BY DEF OAuthTypeOK, ExchangeAuthorizationCode
  <1>6. /\ codes'[s] = None
        /\ \A t \in Secrets \ {s} : codes'[t] = codes[t]
    BY DEF OAuthTypeOK, ExchangeAuthorizationCode, Delete
  <1>7. \A t \in Secrets : codes'[t] # None => codes'[t].grant # codes[s].grant
    BY <1>2, <1>6 DEF Shape, CodeAlone
  <1>8. \A t \in Secrets : tokens[t] # None => tokens[t].grant # codes[s].grant
    BY <1>2 DEF Shape, CodeAlone
  <1>9. pending[codes[s].grant] = None
    BY <1>2, <1>3 DEF Shape, PendingAlone
  <1>10. \A q \in Requests \ {codes[s].grant} : \A t \in Secrets :
           codes'[t] # None /\ codes'[t].grant = q <=> codes[t] # None /\ codes[t].grant = q
    BY <1>6
  <1>11. \A t \in Secrets : tokens[t] # None => <<tokens[t].token_type, t>> \in issued
    BY DEF Shape, Recorded
  <1>12. \/ \E n \in Secrets : Grants!Redeem(codes[s].grant, <<"code", s>>, <<"refresh", n>>)
         \/ Grants!Ended(codes[s].grant)
         \/ UNCHANGED Grants!grantVars
    <2>1. /\ \A t \in Secrets : tokens[t] = tokens[t] \/ tokens[t] = None
          /\ \A t \in Secrets : tokens[t] # tokens[t] => tokens[t].grant = codes[s].grant
      OBVIOUS
    <2>2. \A t \in Secrets : tokens[t] # None /\ tokens[t].token_type = "refresh" =>
            tokens[t].grant # codes[s].grant
      BY <1>8
    <2> QED
      BY <1>1, <1>2, <1>4, <1>5, <1>7, <1>9, <1>10, <1>11, <2>1, <2>2, PairRefines
  <1> QED
    BY <1>3, <1>12 DEF Grants!Exchanged, Grants!CodeOf, Grants!RefreshOf

\* exchangeRefreshToken is Rotated.
LEMMA ExchangeRefreshRefines ==
  ASSUME OAuthTypeOK, Shape, NEW c \in Clients, NEW s \in Secrets,
         ExchangeRefreshToken(c, s)
  PROVE  \E r \in Requests : Grants!Rotated(r) \/ Grants!Ended(r) \/ UNCHANGED Grants!grantVars
  <1> DEFINE table == Delete(tokens, s)
  <1>1. Shape' /\ OneCredential /\ HeldIsRow
    BY ExchangeRefreshShape, ShapeOneCredential, HeldSingle
  <1>2. tokens[s] # None /\ tokens[s] \in TokenRow /\ tokens[s].token_type = "refresh"
    BY RowsAreRows DEF ExchangeRefreshToken
  <1>3. tokens[s].grant \in Requests
    BY <1>2 DEF TokenRow
  <1>4. Held(tokens[s].grant) = {<<"refresh", s>>}
    BY <1>1, <1>2, <1>3 DEF HeldIsRow, RefreshTokensOf
  <1>5. InsertPair(table, tokens[s], c) /\ pending' = pending /\ codes' = codes
    BY DEF ExchangeRefreshToken
  <1>6. /\ table \in [Secrets -> TokenRow \cup {None}]
        /\ table[s] = None
        /\ \A t \in Secrets \ {s} : table[t] = tokens[t]
    BY DEF OAuthTypeOK, Delete
  <1> HIDE DEF table
  <1>7. /\ \A t \in Secrets : table[t] = tokens[t] \/ table[t] = None
        /\ \A t \in Secrets : table[t] # tokens[t] => tokens[t].grant = tokens[s].grant
    BY <1>6
  <1>8. \A t \in Secrets : table[t] # None /\ table[t].token_type = "refresh" =>
          table[t].grant # tokens[s].grant
    BY <1>2, <1>6 DEF Shape, RefreshAlone
  <1>9. pending[tokens[s].grant] = None
    BY <1>2, <1>3 DEF Shape, PendingAlone
  <1>10. \A t \in Secrets : codes'[t] # None => codes'[t].grant # tokens[s].grant
    BY <1>2, <1>5 DEF Shape, CodeAlone
  <1>11. \A t \in Secrets : tokens[t] # None => <<tokens[t].token_type, t>> \in issued
    BY DEF Shape, Recorded
  <1>12. \/ \E n \in Secrets : Grants!Redeem(tokens[s].grant, <<"refresh", s>>, <<"refresh", n>>)
         \/ Grants!Ended(tokens[s].grant)
         \/ UNCHANGED Grants!grantVars
    BY <1>1, <1>2, <1>4, <1>5, <1>6, <1>7, <1>8, <1>9, <1>10, <1>11, PairRefines
  <1> QED
    BY <1>3, <1>12 DEF Grants!Rotated, Grants!RefreshOf

\* Expiry and registration change no credential; a deletion ends at most the
\* grant of the deleted row.
LEMMA KeepingRefines ==
  ASSUME OAuthTypeOK, Shape,
         \/ \E c \in Clients : RegisterClient(c)
         \/ \E r \in Requests : ApproveExpired(r) \/ PendingExpires(r)
         \/ \E c \in Clients, s \in Secrets : ExchangeExpiredCode(c, s) \/ RevokeToken(c, s)
         \/ \E s \in Secrets : PresentExpiredToken(s) \/ CodeExpires(s) \/ TokenExpires(s)
         \/ CacheLapses
         \/ UNCHANGED oauthVars
  PROVE  (\E r \in Requests : Grants!Ended(r)) \/ UNCHANGED Grants!grantVars
  <1>1. RowsKept
    BY KeepingSteps
  <1>2. issued' = issued
    BY <1>1 DEF RowsKept
  <1>3. OneCredential
    BY ShapeOneCredential
  <1>4. ASSUME \A q \in Requests : Held(q)' = Held(q)
        PROVE  UNCHANGED Grants!grantVars
    BY <1>2, <1>4 DEF Grants!grantVars
  <1>5. \A q \in Requests : Held(q)' \subseteq Held(q)
    BY <1>1 DEF RowsKept, Held, CodesOf, RefreshTokensOf
  <1>6. ASSUME NEW r \in Requests, \A q \in Requests \ {r} : Held(q)' = Held(q)
        PROVE  Grants!Ended(r) \/ UNCHANGED Grants!grantVars
    BY <1>2, <1>3, <1>5, <1>6, EndedOrSame
  <1>7. CASE \/ \E c \in Clients : RegisterClient(c)
             \/ CacheLapses
             \/ UNCHANGED oauthVars
    <2>1. UNCHANGED <<pending, codes, tokens>>
      BY <1>7 DEF RegisterClient, CacheLapses, oauthVars
    <2>2. \A q \in Requests : Held(q)' = Held(q)
      BY <2>1, SameHeld
    <2> QED
      BY <1>4, <2>2
  <1>8. CASE \E r \in Requests : ApproveExpired(r) \/ PendingExpires(r)
    <2>1. PICK r \in Requests : ApproveExpired(r) \/ PendingExpires(r)
      BY <1>8
    <2>2. UNCHANGED <<codes, tokens>> /\ \A q \in Requests \ {r} : pending'[q] = pending[q]
      BY <2>1 DEF OAuthTypeOK, ApproveExpired, PendingExpires, Delete
    <2>3. \A q \in Requests \ {r} : Held(q)' = Held(q)
      BY <2>2, SameHeld
    <2> QED
      BY <1>6, <2>3
  <1>9. CASE \E s \in Secrets : CodeExpires(s) \/ \E c \in Clients : ExchangeExpiredCode(c, s)
    <2>1. PICK s \in Secrets : CodeExpires(s) \/ \E c \in Clients : ExchangeExpiredCode(c, s)
      BY <1>9
    <2>2. codes[s] # None /\ codes[s] \in CodeRow
      BY <2>1, RowsAreRows DEF CodeExpires, ExchangeExpiredCode
    <2>3. codes[s].grant \in Requests
      BY <2>2 DEF CodeRow
    <2>4. UNCHANGED <<pending, tokens>> /\ \A t \in Secrets \ {s} : codes'[t] = codes[t]
      BY <2>1 DEF OAuthTypeOK, CodeExpires, ExchangeExpiredCode, Delete
    <2>5. codes'[s] # None => codes'[s].grant = codes[s].grant
      BY <1>1 DEF RowsKept
    <2>6. ASSUME NEW q \in Requests \ {codes[s].grant}
          PROVE  Held(q)' = Held(q)
      <3>1. \A t \in Secrets :
              codes'[t] # None /\ codes'[t].grant = q <=> codes[t] # None /\ codes[t].grant = q
        BY <2>4, <2>5
      <3> QED
        BY <2>4, <3>1, SameHeld
    <2> QED
      BY <1>6, <2>3, <2>6
  <1>10. CASE \E s \in Secrets : \/ TokenExpires(s)
                                \/ PresentExpiredToken(s)
                                \/ \E c \in Clients : RevokeToken(c, s)
    <2>1. PICK s \in Secrets : \/ TokenExpires(s)
                              \/ PresentExpiredToken(s)
                              \/ \E c \in Clients : RevokeToken(c, s)
      BY <1>10
    <2>2. tokens[s] # None /\ tokens[s] \in TokenRow
      BY <2>1, RowsAreRows DEF TokenExpires, PresentExpiredToken, RevokeToken
    <2>3. tokens[s].grant \in Requests
      BY <2>2 DEF TokenRow
    <2>4. UNCHANGED <<pending, codes>> /\ \A t \in Secrets \ {s} : tokens'[t] = tokens[t]
      BY <2>1 DEF OAuthTypeOK, TokenExpires, PresentExpiredToken, RevokeToken, Delete
    <2>5. tokens'[s] # None => tokens'[s].grant = tokens[s].grant
      BY <1>1 DEF RowsKept
    <2>6. ASSUME NEW q \in Requests \ {tokens[s].grant}
          PROVE  Held(q)' = Held(q)
      <3>1. \A t \in Secrets :
              tokens'[t] # None /\ tokens'[t].token_type = "refresh" /\ tokens'[t].grant = q
              <=> tokens[t] # None /\ tokens[t].token_type = "refresh" /\ tokens[t].grant = q
        BY <2>4, <2>5
      <3> QED
        BY <2>4, <3>1, SameHeld
    <2> QED
      BY <1>6, <2>3, <2>6
  <1> QED
    BY <1>7, <1>8, <1>9, <1>10

\* The store implements the abstract lifecycle of a grant.
THEOREM StoreRefinesGrants == OAuthSpec => RefinesGrants
  <1>1. OAuthInit => Grants!GrantInit
    BY DEF OAuthInit, Grants!GrantInit, Held, CodesOf, RefreshTokensOf
  <1>2. ASSUME OAuthTypeOK, Shape, [OAuthNext]_oauthVars
        PROVE  [Grants!GrantNext]_(Grants!grantVars)
    <2>1. CASE \E c \in Clients, r \in Requests : Authorize(c, r)
      BY <1>2, <2>1, AuthorizeRefines DEF Grants!GrantNext
    <2>2. CASE \E r \in Requests, u \in Users \cup {None} : ApprovePendingRequest(r, u)
      BY <1>2, <2>2, ApproveRefines DEF Grants!GrantNext
    <2>3. CASE \E c \in Clients, s \in Secrets : ExchangeAuthorizationCode(c, s)
      BY <1>2, <2>3, ExchangeCodeRefines DEF Grants!GrantNext
    <2>4. CASE \E c \in Clients, s \in Secrets : ExchangeRefreshToken(c, s)
      BY <1>2, <2>4, ExchangeRefreshRefines DEF Grants!GrantNext
    <2> QED
      BY <1>2, <2>1, <2>2, <2>3, <2>4, KeepingRefines DEF OAuthNext, Grants!GrantNext
  <1> QED
    BY <1>1, <1>2, ShapeHolds, PTL DEF OAuthSpec, RefinesGrants, Grants!GrantSpec
=============================================================================
