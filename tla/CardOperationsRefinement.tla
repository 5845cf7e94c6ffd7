----------------------- MODULE CardOperationsRefinement -----------------------
(***************************************************************************)
(* How the operations of CardOperations keep the promise of CardLedger, and  *)
(* what they need of their surroundings for it.                              *)
(***************************************************************************)
EXTENDS CardOperations

\* Clients and their retries send one request at a time on a card and on a key.
Isolated == ~AllowOverlap

\* No instance is killed between two calls, and operators have a profile: nothing
\* ends an invocation between its cards UPDATE and its record.
Dependable ==
  "crash" \notin Faults /\ \A r \in Request : r.body.operator \in Profile

\* The step that makes an operation take effect is its cards UPDATE: from then
\* on its key counts as answered, with the response that will be recorded.
LedgerAnswer ==
  [k \in Key |->
     {[hash |-> r.hash, body |-> r.body] : r \in RecordsFor(k)}
     \cup {[hash |-> BodyOf(w.inv), body |-> Response(w)] :
             w \in {v \in written : KeyOf(v.inv) = k}}]

Ledger == INSTANCE CardLedger WITH
  Account <- ExistingCard, Txn <- Invocation, Requests <- Request,
  balance <- cards, answer <- LedgerAnswer

\* Handled one at a time per card and per key, without crashes and by registered
\* operators, the service is the keyed ledger: each step of the handlers is one
\* indivisible answer of it or changes nothing a client could tell.
RefinesLedger == Ledger!LedgerSpec

\* The ledger's books balance in the tables too: handled one at a time per card,
\* every written accrual is in the row to the last stamp or point and every written
\* redemption is counted, also when instances are killed after their UPDATE.
NothingLost == Ledger!LedgerBalances
=============================================================================
