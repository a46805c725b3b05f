----------------------------- MODULE OAuthGrants -----------------------------
(***************************************************************************)
(* What the authorization server promises about one authorization request: *)
(* it is, at any moment, worth at most one redeemable credential.  The     *)
(* pending request is redeemed for a code, the code for a refresh token,   *)
(* a refresh token for the next one, and what has been redeemed is spent   *)
(* for good.  OAuthStore implements this.                                  *)
(***************************************************************************)
CONSTANTS Requests, Secrets

VARIABLES held,   \* the credentials a request is worth now
          issued  \* every credential ever handed out

grantVars == <<held, issued>>

PendingOf(r) == <<"pending", r>>
CodeOf(s) == <<"code", s>>
RefreshOf(s) == <<"refresh", s>>

GrantInit ==
  /\ held = [r \in Requests |-> {}]
  /\ issued = {}

\* A new request, under an identity nobody has used.
Ask(r) ==
  /\ PendingOf(r) \notin issued
  /\ held' = [held EXCEPT ![r] = {PendingOf(r)}]
  /\ issued' = issued \cup {PendingOf(r)}

\* The one credential old of r is redeemed for the unused credential new.
Redeem(r, old, new) ==
  /\ held[r] = {old}
  /\ new \notin issued
  /\ held' = [held EXCEPT ![r] = {new}]
  /\ issued' = issued \cup {new}

\* The user approves r; the client redeems a code; the client rotates.
Approved(r) == \E s \in Secrets : Redeem(r, PendingOf(r), CodeOf(s))
Exchanged(r) == \E s, n \in Secrets : Redeem(r, CodeOf(s), RefreshOf(n))
Rotated(r) == \E s, n \in Secrets : Redeem(r, RefreshOf(s), RefreshOf(n))

\* Expiry, revocation, or a death of the process between the two writes.
Ended(r) ==
  /\ held[r] # {}
  /\ held' = [held EXCEPT ![r] = {}]
  /\ UNCHANGED issued

GrantNext == \E r \in Requests : Ask(r) \/ Approved(r) \/ Exchanged(r) \/ Rotated(r) \/ Ended(r)

GrantSpec == GrantInit /\ [][GrantNext]_grantVars
=============================================================================
