------------------------------- MODULE Access -------------------------------
(***************************************************************************)
(* Bearer tokens: what the login route signs, what the authentication      *)
(* lambda signs (external), and the principal _resolve_principal finds in  *)
(* a token under the settings of one process.  Signatures are the secret   *)
(* they were made with.  The tokens are within their lifetime: exp only     *)
(* takes from what is accepted, at every process at the same time.         *)
(***************************************************************************)

Nobody == [role |-> "none"]   \* 403: Invalid or expired token

\* AdminJwtService.create_token
AdminToken(s) ==
  [role |-> "admin", signed |-> s.secret, issuer |-> s.issuer, customer_id |-> "none"]

\* External: the lambda shares CUSTOMER_JWT_SECRET and CUSTOMER_JWT_ISSUER.
CustomerToken(s) ==
  [role |-> "customer", signed |-> s.customer_secret, issuer |-> s.customer_issuer,
   customer_id |-> "c1"]

\* jwt.decode
Decodes(token, secret, issuer) ==
  token.signed = secret /\ token.issuer = issuer

IsCustomer(token, s) ==
  /\ Decodes(token, s.customer_secret, s.customer_issuer)
  /\ token.role = "customer" /\ token.customer_id # "none"

\* Mutant: the role of the claims is not looked at.
IsAdminByKey(token, s) == Decodes(token, s.secret, s.issuer)

IsAdmin(token, s) == Decodes(token, s.secret, s.issuer) /\ token.role = "admin"

Customer(token) == [role |-> "customer", customer_id |-> token.customer_id]

Administrator == [role |-> "admin"]

\* Mutant: a token the customers' key opens is not tried as an administrator's.
ResolveByKey(token, s) ==
  CASE IsCustomer(token, s)                                    -> Customer(token)
    [] ~IsCustomer(token, s) /\ IsAdmin(token, s)
         /\ ~Decodes(token, s.customer_secret, s.customer_issuer) -> Administrator
    [] OTHER                                                   -> Nobody

\* The customers' key is tried first.
Resolve(token, s) ==
  CASE IsCustomer(token, s)                        -> Customer(token)
    [] ~IsCustomer(token, s) /\ IsAdmin(token, s)  -> Administrator
    [] OTHER                                       -> Nobody
=============================================================================
