----------------------------- MODULE MCTenants -----------------------------
(***************************************************************************)
(* An instance of Tenants for TLC.                                            *)
(***************************************************************************)
EXTENDS Tenants, TLC

CONSTANTS ann, e1, e2, e3, e4

MCEmailOf == Owner :> e1 @@ ann :> e2

OwnerOfAsks(m, op, user, email) ==
  [NoRequest EXCEPT !.op = op, !.role = "merchant_owner", !.caller = m,
                    !.merchant = m, !.user = user, !.email = email]
OwnerAsks(op, user, email) == OwnerOfAsks(Shop, op, user, email)
Onboard(email, proof) ==
  [NoRequest EXCEPT !.op = "onboard", !.role = "anonymous", !.email = email,
                    !.tier = "growth", !.proof = proof]
Patch(m, t, pay) ==
  [NoRequest EXCEPT !.merchant = m, !.tier = t, !.payment_status = pay]

\* A signup with a free and a taken email and without proof; additions up to the limit,
\* in the new tenant too; edits, removals and resets of one operator; a change of
\* plan or of nothing; and what is refused: an operator's call, another tenant's, an unknown merchant.
MCRequests ==
  {Onboard(e4, TRUE), Onboard(e2, TRUE), Onboard(e4, FALSE),
   OwnerAsks("add", Unset, e4), OwnerAsks("add", Unset, e3),
   OwnerAsks("edit", ann, e4), OwnerAsks("edit", ann, e3), OwnerAsks("edit", ann, NoEmail),
   OwnerAsks("remove", ann, NoEmail), OwnerAsks("reset", ann, NoEmail),
   [OwnerAsks("remove", ann, NoEmail) EXCEPT !.role = "operation_user"],
   Patch(Shop, "pro", Unset)}
  \cup UNION {{OwnerOfAsks(i, "add", Unset, e3), OwnerOfAsks(i, "remove", ann, NoEmail),
               [OwnerOfAsks(i, "remove", ann, NoEmail) EXCEPT !.merchant = Shop],
               Patch(i, Unset, "paid"), Patch(i, Unset, Unset)} : i \in Invocation}

InvocationSymmetry == Permutations(Invocation)

\* Around every inclusion and rounding boundary of the catalog.
MCCardCounts == {0, 199, 200, 201, 202, 205, 1000, 1003, 1005, 5001, 5013}
MCNotificationCounts == {0, 501, 503, 1001, 1007, 10001, 10003}

\* Around the limits of two and five.
MCOperatorCounts == 0..7
=============================================================================
