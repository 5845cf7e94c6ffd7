-------------------------- MODULE EnrollmentProofs --------------------------
(***************************************************************************)
(* Proofs about Enrollment for every set of invocations, programs, devices   *)
(* and requests, with crashes and wallet failures allowed or not.            *)
(***************************************************************************)
EXTENDS Enrollment, TLAPS

\* The labels at which an invocation has the card of its answer in hand.
HasCard(i) == pc[i] \in WalletCall \cup {"store_put"}

LEMMA RequestFacts ==
  ASSUME TypeOK, NEW i \in Invocation
  PROVE  /\ req[i] \in Request
         /\ KeyOf(i) \in Key /\ BodyOf(i) \in Body
         /\ ProgramOf(i) \in Program /\ DeviceOf(i) \in DedupeKey
<1>1. req[i] \in Request
  BY DEF TypeOK
<1>2. req[i] \in [key: Key, program: Program, body: Body]
  BY <1>1, RequestAssumption
<1> QED BY <1>1, <1>2 DEF KeyOf, BodyOf, ProgramOf, DeviceOf, Body

LEMMA NoRowType == NoRow \in ProgramRow
  BY DEF NoRow, ProgramRow, NoDate

LEMMA NewCardType ==
  ASSUME TypeOK, NEW i \in Invocation, NEW row \in ProgramRow
  PROVE  /\ NewCard(i, row) \in CardRow
         /\ NewCard(i, row).id = i /\ NewCard(i, row).customer = i
         /\ NewCard(i, row).program = ProgramOf(i)
         /\ NewCard(i, row).device = DeviceOf(i)
  BY RequestFacts DEF NewCard, CardRow, ProgramRow

LEMMA InitTypeOK == Init => TypeOK
  BY ProgramAssumption, NoRowType DEF Init, TypeOK, Label, Link

LEMMA RefuseKeepsTypeOK ==
  ASSUME TypeOK, NEW i \in Invocation,
         NEW code \in {404, 409, 422, 500, 504}, Refuse(i, code)
  PROVE  TypeOK'
  BY NoRowType DEF TypeOK, Refuse, Reply, Goto, tables, wallet, Label, Link

\* Everything but LookupKey, StoreRecord and the two rows that enrolment creates.
LEMMA WalletKeepsTypeOK ==
  ASSUME TypeOK, NEW i \in Invocation,
         \/ GetClass(i) \/ WriteClass(i) \/ GetObject(i) \/ WriteObject(i)
         \/ ProbeObject(i) \/ WalletFails(i)
  PROVE  TypeOK'
<1>1. ASSUME GetClass(i) PROVE TypeOK'
  BY <1>1 DEF TypeOK, GetClass, Goto, tables, wallet, Label
<1>2. ASSUME WriteClass(i) PROVE TypeOK'
  BY <1>2, RequestFacts DEF TypeOK, WriteClass, NoLink, Goto, tables, wallet, Label
<1>3. ASSUME GetObject(i) PROVE TypeOK'
  BY <1>3 DEF TypeOK, GetObject, Goto, tables, wallet, Label
<1>4. ASSUME WriteObject(i) PROVE TypeOK'
  BY <1>4 DEF TypeOK, WriteObject, NoLink, SaveLink, Goto, tables, wallet, Label, Link
<1>5. ASSUME ProbeObject(i) PROVE TypeOK'
  BY <1>5 DEF TypeOK, ProbeObject, SaveLink, Goto, tables, wallet, Label, Link
<1>6. ASSUME WalletFails(i) PROVE TypeOK'
  BY <1>6 DEF TypeOK, WalletFails, NoLink, Goto, tables, wallet, Label
<1> QED BY <1>1, <1>2, <1>3, <1>4, <1>5, <1>6

LEMMA StepKeepsTypeOK == TypeOK /\ [Next]_vars => TypeOK'
<1> SUFFICES ASSUME TypeOK, [Next]_vars PROVE TypeOK'
  OBVIOUS
<1>1. ASSUME NEW i \in Invocation, LookupKey(i) PROVE TypeOK'
  <2>1. \A r \in idempotency_records : r.body \in ResponseBody /\ r.body.status \in {200, 201}
    BY DEF TypeOK, ResponseBody
  <2>2. CASE Reply(i, 409) /\ UNCHANGED answers
    BY <1>1, <2>2, RefuseKeepsTypeOK DEF LookupKey, Refuse
  <2>3. CASE /\ Goto(i, "get_program")
             /\ UNCHANGED <<program, card, found, link, status, answers>>
    BY <1>1, <2>3 DEF TypeOK, LookupKey, Goto, tables, wallet, Label
  <2>4. ASSUME NEW r \in RecordsFor(KeyOf(i)), Reply(i, r.body.status),
               answers' = answers \cup {[inv |-> i, body |-> r.body]}
        PROVE  TypeOK'
    <3>1. r.body \in ResponseBody /\ r.body.status \in {200, 201}
      BY <2>1 DEF RecordsFor
    <3>2. answers' \subseteq [inv: Invocation, body: ResponseBody]
      BY <2>4, <3>1 DEF TypeOK
    <3>3. UNCHANGED <<tables, wallet, today, req>>
      BY <1>1 DEF LookupKey
    <3> QED
      BY <2>4, <3>1, <3>2, <3>3, NoRowType
      DEF TypeOK, Reply, Goto, tables, wallet, Label, Link
  <2> QED BY <1>1, <2>2, <2>3, <2>4 DEF LookupKey
<1>2. ASSUME NEW i \in Invocation, ReadProgram(i) PROVE TypeOK'
  <2>1. CASE Refuse(i, 404) \/ Refuse(i, 422)
    BY <2>1, RefuseKeepsTypeOK
  <2>2. CASE ~(Refuse(i, 404) \/ Refuse(i, 422))
    BY <1>2, <2>2 DEF TypeOK, ReadProgram, Goto, tables, wallet, Label
  <2> QED BY <2>1, <2>2
<1>3. ASSUME NEW i \in Invocation, FindCard(i) PROVE TypeOK'
  <2>1. CASE Refuse(i, 422)
    BY <2>1, RefuseKeepsTypeOK
  <2>2. CASE ~Refuse(i, 422)
    <3>1. \A c \in FoundCards(ProgramOf(i), DeviceOf(i)) : c.id \in Invocation
      BY DEF TypeOK, FoundCards, CardsOf, CardRow
    <3> QED BY <1>3, <2>2, <3>1 DEF TypeOK, FindCard, Goto, tables, wallet, Label
  <2> QED BY <2>1, <2>2
<1>4. ASSUME NEW i \in Invocation, CreateCustomer(i) PROVE TypeOK'
  BY <1>4 DEF TypeOK, CreateCustomer, Goto, wallet, Label
<1>5. ASSUME NEW i \in Invocation, CreateCard(i) PROVE TypeOK'
  <2>1. CASE Refuse(i, 500)
    BY <2>1, RefuseKeepsTypeOK
  <2>2. CASE ~Refuse(i, 500)
    <3>1. NewCard(i, program[i]) \in CardRow
      BY NewCardType DEF TypeOK
    <3> QED BY <1>5, <2>2, <3>1 DEF TypeOK, CreateCard, Goto, wallet, Label
  <2> QED BY <2>1, <2>2
<1>6. ASSUME NEW i \in Invocation, StoreRecord(i) PROVE TypeOK'
  <2>1. CASE Refuse(i, 500)
    BY <2>1, RefuseKeepsTypeOK
  <2>2. CASE ~Refuse(i, 500)
    <3>1. Response(i) \in ResponseBody /\ Response(i).status \in {200, 201}
      BY DEF TypeOK, Response, ResponseBody
    <3>2. answers' \subseteq [inv: Invocation, body: ResponseBody]
      BY <1>6, <2>2, <3>1 DEF TypeOK, StoreRecord
    <3>3. idempotency_records' \subseteq [key: Key, hash: Body, body: ResponseBody]
      BY <1>6, <2>2, <3>1, RequestFacts DEF TypeOK, StoreRecord
    <3>4. Reply(i, Response(i).status)
          /\ UNCHANGED <<programs, customers, cards, wallet, today, req>>
      BY <1>6, <2>2 DEF StoreRecord
    <3> QED
      BY <3>1, <3>2, <3>3, <3>4, NoRowType DEF TypeOK, Reply, Goto, wallet, Label, Link
  <2> QED BY <2>1, <2>2
<1>7. ASSUME NEW i \in Invocation, Crash(i) PROVE TypeOK'
  BY <1>7, RefuseKeepsTypeOK DEF Crash
<1>8. ASSUME NEW a \in answers, SavePass(a) PROVE TypeOK'
  <2>1. a.body.card \in Invocation
    BY DEF TypeOK, ResponseBody
  <2> QED BY <1>8, <2>1 DEF TypeOK, SavePass, tables, locals
<1>9. ASSUME NEW p \in DOMAIN programs, SwitchProgram(p) PROVE TypeOK'
  <2>1. programs[p] \in ProgramRow /\ programs[p].active \in BOOLEAN
    BY DEF TypeOK, ProgramRow
  <2>2. (~programs[p].active) \in BOOLEAN
    BY <2>1
  <2>3. [programs[p] EXCEPT !.active = ~programs[p].active] \in ProgramRow
    BY <2>1, <2>2 DEF ProgramRow
  <2>4. programs' = [programs EXCEPT ![p] =
                       [programs[p] EXCEPT !.active = ~programs[p].active]]
    BY <1>9 DEF SwitchProgram
  <2>5. programs' \in [DOMAIN Programs -> ProgramRow]
    BY <2>3, <2>4 DEF TypeOK
  <2> QED BY <1>9, <2>5 DEF TypeOK, SwitchProgram, wallet, locals
<1>10. CASE NextDay
  BY <1>10 DEF TypeOK, NextDay, tables, wallet, locals
<1>11. CASE UNCHANGED vars
  BY <1>11 DEF TypeOK, vars, tables, wallet, locals
<1> QED
  BY <1>1, <1>2, <1>3, <1>4, <1>5, <1>6, <1>7, <1>8, <1>9, <1>10, <1>11, WalletKeepsTypeOK
  DEF Next, Progress

\* The tables, the wallet and every local keep their types, whatever requests,
\* crashes and wallet failures interleave.
THEOREM TypeCorrect == Spec => []TypeOK
  BY InitTypeOK, StepKeepsTypeOK, PTL DEF Spec

-----------------------------------------------------------------------------
(* Which card an answer names. *)

OneCardPerDevice ==
  \A c, d \in cards :
    (c.program = d.program /\ c.device = d.device /\ c.device # NoDevice) => c = d

\* What an invocation is about to answer, and what a record will replay, match
\* the request they were computed for.
HandMatches == \A i \in Invocation : HasCard(i) => CardMatches(card[i], i)
RecordMatches ==
  \A r \in idempotency_records : \E j \in Invocation :
    KeyOf(j) = r.key /\ BodyOf(j) = r.hash /\ CardMatches(r.body.card, j)
MatchInv == TypeOK /\ HandMatches /\ RecordMatches /\ AnswerMatchesRequest

\* Cards are never deleted and requests never change, so a match lasts.
LEMMA MatchesLast ==
  ASSUME cards \subseteq cards', req' = req
  PROVE  \A id, i : CardMatches(id, i) => CardMatches(id, i)'
  BY DEF CardMatches, ProgramOf, DeviceOf

\* A step that answers nobody and gives nobody a card.
Quiet ==
  /\ UNCHANGED <<cards, idempotency_records, req, answers>>
  /\ \A i \in Invocation : HasCard(i)' => HasCard(i) /\ card'[i] = card[i]

LEMMA QuietKeepsMatchInv ==
  ASSUME MatchInv, TypeOK', Quiet
  PROVE  MatchInv'
<1>1. \A id, i : CardMatches(id, i) => CardMatches(id, i)'
  BY MatchesLast DEF Quiet
<1>2. HandMatches'
  BY <1>1 DEF MatchInv, HandMatches, Quiet
<1>3. RecordMatches'
  BY <1>1 DEF MatchInv, RecordMatches, Quiet, KeyOf, BodyOf
<1>4. AnswerMatchesRequest'
  BY <1>1 DEF MatchInv, AnswerMatchesRequest, Quiet
<1> QED BY <1>2, <1>3, <1>4 DEF MatchInv

LEMMA RefuseIsQuiet ==
  ASSUME TypeOK, NEW i \in Invocation, NEW code, Refuse(i, code)
  PROVE  Quiet
  BY DEF TypeOK, Refuse, Reply, Goto, Quiet, HasCard, WalletCall, tables

\* What the wallet's steps have in common.
WalletStepOf(i) ==
  /\ HasCard(i)
  /\ \E label \in {"get_class", "write_class", "get_object", "write_object", "store_put"} :
       Goto(i, label)
  /\ UNCHANGED <<tables, today, req, program, card, status, answers>>

LEMMA WalletStep ==
  ASSUME NEW i,
         \/ GetClass(i) \/ WriteClass(i) \/ GetObject(i) \/ WriteObject(i)
         \/ ProbeObject(i) \/ WalletFails(i)
  PROVE  WalletStepOf(i)
<1> USE DEF WalletStepOf, HasCard, WalletCall
<1>1. CASE GetClass(i)
  BY <1>1 DEF GetClass
<1>2. CASE WriteClass(i)
  BY <1>2 DEF WriteClass, NoLink
<1>3. CASE GetObject(i)
  BY <1>3 DEF GetObject
<1>4. CASE WriteObject(i)
  BY <1>4 DEF WriteObject, NoLink
<1>5. CASE ProbeObject(i)
  BY <1>5 DEF ProbeObject
<1>6. CASE WalletFails(i)
  BY <1>6 DEF WalletFails, NoLink
<1> QED BY <1>1, <1>2, <1>3, <1>4, <1>5, <1>6

LEMMA WalletStepIsQuiet ==
  ASSUME TypeOK, NEW i \in Invocation, WalletStepOf(i)
  PROVE  Quiet
  BY DEF TypeOK, WalletStepOf, Goto, Quiet, HasCard, tables

\* LookupKey, FindCard, CreateCard and StoreRecord are the steps that are not quiet.
LEMMA QuietSteps ==
  ASSUME TypeOK, [Next]_vars,
         ~ \E i \in Invocation :
             LookupKey(i) \/ FindCard(i) \/ CreateCard(i) \/ StoreRecord(i)
  PROVE  Quiet
<1> USE DEF Quiet, HasCard, WalletCall, TypeOK, Goto, tables, wallet
<1>1. ASSUME NEW i \in Invocation, ReadProgram(i) PROVE Quiet
  <2>1. CASE Refuse(i, 404) \/ Refuse(i, 422)
    BY <2>1, RefuseIsQuiet
  <2>2. CASE ~(Refuse(i, 404) \/ Refuse(i, 422))
    BY <1>1, <2>2 DEF ReadProgram
  <2> QED BY <2>1, <2>2
<1>2. ASSUME NEW i \in Invocation, CreateCustomer(i) PROVE Quiet
  BY <1>2 DEF CreateCustomer
<1>3. ASSUME NEW i \in Invocation,
             \/ GetClass(i) \/ WriteClass(i) \/ GetObject(i) \/ WriteObject(i)
             \/ ProbeObject(i) \/ WalletFails(i)
      PROVE  Quiet
  BY <1>3, WalletStep, WalletStepIsQuiet
<1>4. ASSUME NEW i \in Invocation, Crash(i) PROVE Quiet
  BY <1>4, RefuseIsQuiet DEF Crash
<1>5. CASE \/ \E a \in answers : SavePass(a)
           \/ \E p \in DOMAIN programs : SwitchProgram(p)
           \/ NextDay \/ UNCHANGED vars
  BY <1>5 DEF SavePass, SwitchProgram, NextDay, vars, locals
<1> QED BY <1>1, <1>2, <1>3, <1>4, <1>5 DEF Next, Progress

LEMMA StepKeepsMatchInv ==
  ASSUME KeysStayInProgram, MatchInv, [Next]_vars
  PROVE  MatchInv'
<1>1. TypeOK /\ TypeOK'
  BY StepKeepsTypeOK DEF MatchInv
<1>2. ASSUME NEW i \in Invocation, LookupKey(i) PROVE MatchInv'
  <2>1. CASE Reply(i, 409) /\ UNCHANGED answers
    BY <1>1, <1>2, <2>1, RefuseIsQuiet, QuietKeepsMatchInv DEF LookupKey, Refuse
  <2>2. CASE /\ Goto(i, "get_program")
             /\ UNCHANGED <<program, card, found, link, status, answers>>
    <3>1. Quiet
      BY <1>1, <1>2, <2>2
      DEF LookupKey, Quiet, TypeOK, Goto, HasCard, WalletCall, tables
    <3> QED BY <1>1, <3>1, QuietKeepsMatchInv
  <2>3. ASSUME NEW r \in RecordsFor(KeyOf(i)), HashMatches(r, i), Reply(i, r.body.status),
               answers' = answers \cup {[inv |-> i, body |-> r.body]}
        PROVE  MatchInv'
    <3>1. UNCHANGED <<cards, idempotency_records, req>>
      BY <1>2 DEF LookupKey, tables
    <3>2. \A id, j : CardMatches(id, j) => CardMatches(id, j)'
      BY <3>1, MatchesLast
    <3>3. PICK j \in Invocation :
            KeyOf(j) = r.key /\ BodyOf(j) = r.hash /\ CardMatches(r.body.card, j)
      BY DEF MatchInv, RecordMatches, RecordsFor
    <3>4. KeyOf(j) = KeyOf(i) /\ BodyOf(j) = BodyOf(i)
      BY <2>3, <3>3 DEF RecordsFor, HashMatches
    <3>5. req[i] \in Request /\ req[j] \in Request
      BY <1>1, RequestFacts
    <3>6. ProgramOf(j) = ProgramOf(i) /\ DeviceOf(j) = DeviceOf(i)
      BY <3>4, <3>5 DEF KeysStayInProgram, KeyOf, BodyOf, ProgramOf, DeviceOf
    <3>7. CardMatches(r.body.card, i)'
      BY <3>2, <3>3, <3>6 DEF CardMatches
    <3>8. AnswerMatchesRequest'
      BY <2>3, <3>2, <3>7 DEF MatchInv, AnswerMatchesRequest
    <3>9. RecordMatches'
      BY <3>1, <3>2 DEF MatchInv, RecordMatches, KeyOf, BodyOf
    <3>10. HandMatches'
      BY <1>1, <2>3, <3>2 DEF MatchInv, HandMatches, HasCard, WalletCall, TypeOK, Reply, Goto
    <3> QED BY <1>1, <3>8, <3>9, <3>10 DEF MatchInv
  <2> QED BY <1>2, <2>1, <2>2, <2>3 DEF LookupKey
<1>3. ASSUME NEW i \in Invocation, FindCard(i) PROVE MatchInv'
  <2>1. CASE Refuse(i, 422)
    BY <1>1, <2>1, RefuseIsQuiet, QuietKeepsMatchInv
  <2>2. CASE Goto(i, "create_customer") /\ UNCHANGED card
    <3>1. Quiet
      BY <1>1, <1>3, <2>2
      DEF FindCard, Refuse, Quiet, TypeOK, Goto, Reply, HasCard, WalletCall, tables
    <3> QED BY <1>1, <3>1, QuietKeepsMatchInv
  <2>3. ASSUME NEW c \in FoundCards(ProgramOf(i), DeviceOf(i)),
               card' = [card EXCEPT ![i] = c.id], Goto(i, "probe_object"),
               UNCHANGED <<tables, req, answers>>
        PROVE  MatchInv'
    <3>1. \A id, j : CardMatches(id, j) => CardMatches(id, j)'
      BY <2>3, MatchesLast DEF tables
    <3>2. CardMatches(c.id, i)
      BY DEF FoundCards, CardsOf, CardMatches
    <3>3. HandMatches'
      BY <1>1, <2>3, <3>1, <3>2 DEF MatchInv, HandMatches, HasCard, WalletCall, TypeOK, Goto
    <3>4. RecordMatches' /\ AnswerMatchesRequest'
      BY <2>3, <3>1
      DEF MatchInv, RecordMatches, AnswerMatchesRequest, KeyOf, BodyOf, tables
    <3> QED BY <1>1, <3>3, <3>4 DEF MatchInv
  <2> QED BY <1>3, <2>1, <2>2, <2>3 DEF FindCard
<1>4. ASSUME NEW i \in Invocation, CreateCard(i) PROVE MatchInv'
  <2>1. CASE Refuse(i, 500)
    BY <1>1, <2>1, RefuseIsQuiet, QuietKeepsMatchInv
  <2>2. CASE /\ cards' = cards \cup {NewCard(i, program[i])}
             /\ card' = [card EXCEPT ![i] = i]
             /\ Goto(i, "get_class")
             /\ UNCHANGED <<idempotency_records, req, answers>>
    <3>1. \A id, j : CardMatches(id, j) => CardMatches(id, j)'
      BY <2>2, MatchesLast
    <3>2. CardMatches(i, i)'
      <4>1. program[i] \in ProgramRow
        BY <1>1 DEF TypeOK
      <4> QED
        BY <1>1, <2>2, <4>1, NewCardType DEF CardMatches, ProgramOf, DeviceOf
    <3>3. HandMatches'
      BY <1>1, <2>2, <3>1, <3>2 DEF MatchInv, HandMatches, HasCard, WalletCall, TypeOK, Goto
    <3>4. RecordMatches' /\ AnswerMatchesRequest'
      BY <2>2, <3>1 DEF MatchInv, RecordMatches, AnswerMatchesRequest, KeyOf, BodyOf
    <3> QED BY <1>1, <3>3, <3>4 DEF MatchInv
  <2> QED BY <1>4, <2>1, <2>2 DEF CreateCard
<1>5. ASSUME NEW i \in Invocation, StoreRecord(i) PROVE MatchInv'
  <2>1. CASE Refuse(i, 500)
    BY <1>1, <2>1, RefuseIsQuiet, QuietKeepsMatchInv
  <2>2. CASE ~Refuse(i, 500)
    <3>1. /\ idempotency_records' = idempotency_records \cup
               {[key |-> KeyOf(i), hash |-> BodyOf(i), body |-> Response(i)]}
          /\ answers' = answers \cup {[inv |-> i, body |-> Response(i)]}
          /\ Reply(i, Response(i).status) /\ UNCHANGED <<cards, req>>
      BY <1>5, <2>2 DEF StoreRecord
    <3>2. \A id, j : CardMatches(id, j) => CardMatches(id, j)'
      BY <3>1, MatchesLast
    <3>3. CardMatches(Response(i).card, i)
      BY <1>5 DEF MatchInv, HandMatches, HasCard, StoreRecord, Response
    <3>4. HandMatches'
      BY <1>1, <3>1, <3>2 DEF MatchInv, HandMatches, HasCard, WalletCall, TypeOK, Reply, Goto
    <3>5. RecordMatches'
      BY <3>1, <3>2, <3>3 DEF MatchInv, RecordMatches, KeyOf, BodyOf
    <3>6. AnswerMatchesRequest'
      BY <3>1, <3>2, <3>3 DEF MatchInv, AnswerMatchesRequest
    <3> QED BY <1>1, <3>4, <3>5, <3>6 DEF MatchInv
  <2> QED BY <2>1, <2>2
<1>6. CASE ~ \E i \in Invocation :
               LookupKey(i) \/ FindCard(i) \/ CreateCard(i) \/ StoreRecord(i)
  BY <1>1, <1>6, QuietSteps, QuietKeepsMatchInv
<1> QED BY <1>2, <1>3, <1>4, <1>5, <1>6

LEMMA InitMatchInv == Init => MatchInv
  BY InitTypeOK
  DEF Init, MatchInv, HandMatches, HasCard, WalletCall, RecordMatches, AnswerMatchesRequest

\* If clients keep a key and body to one program, every answer, computed or
\* replayed, names a card of the program and the device that asked.
THEOREM AnswersMatch ==
  ASSUME KeysStayInProgram
  PROVE  Spec => []AnswerMatchesRequest
<1>1. MatchInv /\ [Next]_vars => MatchInv'
  BY StepKeepsMatchInv
<1>2. MatchInv => AnswerMatchesRequest
  BY DEF MatchInv
<1> QED BY <1>1, <1>2, InitMatchInv, PTL DEF Spec

-----------------------------------------------------------------------------
(* One card for a device, and no customer without a card. *)

\* Only CreateCard writes cards, and a refused request writes none.
LEMMA CardsChangeOnlyInCreateCard ==
  ASSUME TypeOK, [Next]_vars, ~ \E i \in Invocation : CreateCard(i)
  PROVE  UNCHANGED <<cards, req>>
<1>1. ASSUME NEW i \in Invocation,
             LookupKey(i) \/ FindCard(i) \/ StoreRecord(i)
      PROVE  UNCHANGED <<cards, req>>
  BY <1>1 DEF LookupKey, FindCard, StoreRecord, Refuse, tables
<1>2. CASE ~ \E i \in Invocation :
               LookupKey(i) \/ FindCard(i) \/ CreateCard(i) \/ StoreRecord(i)
  BY <1>2, QuietSteps DEF Quiet
<1> QED BY <1>1, <1>2

LEMMA StepKeepsOneCard ==
  ASSUME TypeOK, OneCardPerDevice, [Next]_vars
  PROVE  OneCardPerDevice'
<1>1. ASSUME NEW i \in Invocation, CreateCard(i) PROVE OneCardPerDevice'
  <2>1. CASE Refuse(i, 500)
    BY <2>1 DEF Refuse, tables, OneCardPerDevice
  <2>2. CASE ~Refuse(i, 500)
    <3> DEFINE new == NewCard(i, program[i])
    <3>1. cards' = cards \cup {new} /\ ~IndexRefuses(ProgramOf(i), DeviceOf(i))
      BY <1>1, <2>2 DEF CreateCard
    <3>2. new.program = ProgramOf(i) /\ new.device = DeviceOf(i)
      <4>1. program[i] \in ProgramRow
        BY DEF TypeOK
      <4> QED BY <4>1, NewCardType
    <3>3. \A c \in cards :
            ~(c.program = new.program /\ c.device = new.device /\ new.device # NoDevice)
      BY <3>1, <3>2 DEF IndexRefuses, CardsOf
    <3> HIDE DEF new
    <3> QED BY <3>1, <3>3 DEF OneCardPerDevice
  <2> QED BY <2>1, <2>2
<1>2. CASE ~ \E i \in Invocation : CreateCard(i)
  BY <1>2, CardsChangeOnlyInCreateCard DEF OneCardPerDevice
<1> QED BY <1>1, <1>2

\* The unique index keeps the promise of the lookup: however enrolments overlap,
\* crash and are repeated, a device has at most one card in a program.  This needs
\* nothing of the clients.
THEOREM DeviceHasOneCard == Spec => []OneCardPerDevice
<1>1. Init => OneCardPerDevice
  BY DEF Init, OneCardPerDevice
<1>2. TypeOK /\ OneCardPerDevice /\ [Next]_vars => OneCardPerDevice'
  BY StepKeepsOneCard
<1> QED BY <1>1, <1>2, TypeCorrect, PTL DEF Spec

\* Two answers to one device name the same card, if clients keep a key and body
\* to one program.
THEOREM SameCard ==
  ASSUME KeysStayInProgram
  PROVE  Spec => []SameCardForDevice
<1>1. AnswerMatchesRequest /\ OneCardPerDevice => SameCardForDevice
  <2> SUFFICES ASSUME AnswerMatchesRequest, OneCardPerDevice,
                      NEW a \in answers, NEW b \in answers,
                      ProgramOf(a.inv) = ProgramOf(b.inv),
                      DeviceOf(a.inv) = DeviceOf(b.inv), DeviceOf(a.inv) # NoDevice
               PROVE  a.body.card = b.body.card
    BY DEF SameCardForDevice
  <2>1. PICK c \in cards : c.id = a.body.card /\ c.program = ProgramOf(a.inv)
                           /\ c.device = DeviceOf(a.inv)
    BY DEF AnswerMatchesRequest, CardMatches
  <2>2. PICK d \in cards : d.id = b.body.card /\ d.program = ProgramOf(b.inv)
                           /\ d.device = DeviceOf(b.inv)
    BY DEF AnswerMatchesRequest, CardMatches
  <2>3. c = d
    BY <2>1, <2>2 DEF OneCardPerDevice
  <2> QED BY <2>1, <2>2, <2>3
<1> QED BY <1>1, AnswersMatch, DeviceHasOneCard, PTL

\* A status is final, and an orphan's request is at create_card or has failed.
OrphanInv ==
  /\ TypeOK
  /\ \A i \in Invocation : status[i] # 0 => pc[i] = "done"
  /\ OrphansOnlyBehindFailures

\* Steps after which an orphan is still one for the same reason.
Harmless ==
  /\ cards \subseteq cards' /\ customers' = customers
  /\ \A i \in Invocation : pc[i] = "create_card" => pc'[i] = "create_card"
  /\ \A i \in Invocation : status[i] # 0 => status'[i] = status[i]
  /\ \A i \in Invocation : status'[i] # 0 => pc'[i] = "done"

LEMMA HarmlessKeepsOrphanInv ==
  ASSUME OrphanInv, TypeOK', Harmless
  PROVE  OrphanInv'
  BY DEF OrphanInv, TypeOK, Harmless, OrphansOnlyBehindFailures

LEMMA ReplyIsHarmless ==
  ASSUME OrphanInv, NEW i \in Invocation, NEW code, Reply(i, code),
         pc[i] \notin {"create_card", "done"}, UNCHANGED <<customers, cards>>
  PROVE  Harmless
  BY DEF OrphanInv, TypeOK, Reply, Goto, Harmless

LEMMA GotoIsHarmless ==
  ASSUME OrphanInv, NEW i \in Invocation, NEW label, Goto(i, label),
         pc[i] \notin {"create_card", "done"}, UNCHANGED <<customers, cards, status>>
  PROVE  Harmless
  BY DEF OrphanInv, TypeOK, Goto, Harmless

LEMMA FailureKeepsOrphanInv ==
  ASSUME OrphanInv, TypeOK', NEW i \in Invocation, NEW code \in {500, 504},
         Refuse(i, code), pc[i] # "done"
  PROVE  OrphanInv'
<1>1. /\ UNCHANGED <<customers, cards>>
      /\ pc' = [pc EXCEPT ![i] = "done"] /\ status' = [status EXCEPT ![i] = code]
  BY DEF Refuse, Reply, Goto, tables
<1>2. \A j \in Invocation : status'[j] # 0 => pc'[j] = "done"
  BY <1>1 DEF OrphanInv, TypeOK
<1>3. OrphansOnlyBehindFailures'
  BY <1>1 DEF OrphanInv, TypeOK, OrphansOnlyBehindFailures
<1> QED BY <1>2, <1>3 DEF OrphanInv

LEMMA StepKeepsOrphanInv == OrphanInv /\ [Next]_vars => OrphanInv'
<1> SUFFICES ASSUME OrphanInv, [Next]_vars PROVE OrphanInv'
  OBVIOUS
<1>1. TypeOK /\ TypeOK'
  BY StepKeepsTypeOK DEF OrphanInv
<1>2. ASSUME NEW i \in Invocation, CreateCustomer(i) PROVE OrphanInv'
  <2>1. /\ pc' = [pc EXCEPT ![i] = "create_card"] /\ pc[i] = "create_customer"
        /\ customers' = customers \cup {i} /\ UNCHANGED <<cards, status>>
    BY <1>2 DEF CreateCustomer, Goto
  <2>2. \A j \in Invocation : status'[j] # 0 => pc'[j] = "done"
    BY <1>1, <2>1 DEF OrphanInv, TypeOK
  <2>3. OrphansOnlyBehindFailures'
    BY <1>1, <2>1 DEF OrphanInv, TypeOK, OrphansOnlyBehindFailures
  <2> QED BY <1>1, <2>2, <2>3 DEF OrphanInv
<1>3. ASSUME NEW i \in Invocation, CreateCard(i) PROVE OrphanInv'
  <2>1. CASE Refuse(i, 500)
    BY <1>1, <1>3, <2>1, FailureKeepsOrphanInv DEF CreateCard
  <2>2. CASE /\ cards' = cards \cup {NewCard(i, program[i])}
             /\ Goto(i, "get_class") /\ UNCHANGED <<customers, status>>
    <3>1. NewCard(i, program[i]).customer = i
      <4>1. program[i] \in ProgramRow
        BY <1>1 DEF TypeOK
      <4> QED BY <1>1, <4>1, NewCardType
    <3>2. \A j \in Invocation : j # i => pc'[j] = pc[j]
      BY <1>1, <2>2 DEF TypeOK, Goto
    <3>3. status[i] = 0
      BY <1>3 DEF OrphanInv, CreateCard
    <3>4. \A j \in Invocation : status'[j] # 0 => pc'[j] = "done"
      BY <2>2, <3>2, <3>3 DEF OrphanInv
    <3>5. OrphansOnlyBehindFailures'
      <4> SUFFICES ASSUME NEW u \in customers
                   PROVE  \/ \E c \in cards' : c.customer = u
                          \/ pc'[u] = "create_card"
                          \/ status'[u] \in {500, 504}
        BY <2>2 DEF OrphansOnlyBehindFailures
      <4>1. u \in Invocation
        BY <1>1 DEF TypeOK
      <4>2. CASE u = i
        BY <2>2, <3>1, <4>2
      <4>3. CASE u # i
        BY <2>2, <3>2, <4>1, <4>3 DEF OrphanInv, OrphansOnlyBehindFailures
      <4> QED BY <4>2, <4>3
    <3> QED BY <1>1, <3>4, <3>5 DEF OrphanInv
  <2> QED BY <1>3, <2>1, <2>2 DEF CreateCard
<1>4. ASSUME NEW i \in Invocation, Crash(i) PROVE OrphanInv'
  BY <1>1, <1>4, FailureKeepsOrphanInv DEF Crash, Running
<1>5. ASSUME NEW i \in Invocation, LookupKey(i) PROVE Harmless
  <2>1. UNCHANGED <<customers, cards>> /\ pc[i] = "idle"
    BY <1>5 DEF LookupKey, tables
  <2>2. \/ \E code : Reply(i, code)
        \/ Goto(i, "get_program") /\ UNCHANGED status
    BY <1>5 DEF LookupKey
  <2> QED BY <2>1, <2>2, ReplyIsHarmless, GotoIsHarmless
<1>6. ASSUME NEW i \in Invocation, ReadProgram(i) \/ FindCard(i) PROVE Harmless
  <2>1. UNCHANGED <<customers, cards>> /\ pc[i] \in {"get_program", "find_card"}
    BY <1>6 DEF ReadProgram, FindCard, Refuse, tables
  <2>2. \/ Reply(i, 404) \/ Reply(i, 422)
        \/ \E label \in Label : Goto(i, label) /\ UNCHANGED status
    BY <1>6 DEF ReadProgram, FindCard, Refuse, Label
  <2> QED BY <2>1, <2>2, ReplyIsHarmless, GotoIsHarmless
<1>7. ASSUME NEW i \in Invocation,
             \/ GetClass(i) \/ WriteClass(i) \/ GetObject(i) \/ WriteObject(i)
             \/ ProbeObject(i) \/ WalletFails(i)
      PROVE  Harmless
  <2>1. WalletStepOf(i)
    BY <1>7, WalletStep
  <2>2. /\ UNCHANGED <<customers, cards, status>> /\ pc[i] \notin {"create_card", "done"}
        /\ \E label : Goto(i, label)
    BY <2>1 DEF WalletStepOf, HasCard, WalletCall, tables
  <2> QED BY <2>2, GotoIsHarmless
<1>8. ASSUME NEW i \in Invocation, StoreRecord(i) PROVE Harmless
  <2>1. UNCHANGED <<customers, cards>> /\ pc[i] = "store_put"
    BY <1>8 DEF StoreRecord, Refuse, tables
  <2>2. \E code : Reply(i, code)
    BY <1>8 DEF StoreRecord, Refuse
  <2> QED BY <2>1, <2>2, ReplyIsHarmless
<1>9. CASE \/ \E a \in answers : SavePass(a)
           \/ \E p \in DOMAIN programs : SwitchProgram(p)
           \/ NextDay \/ UNCHANGED vars
  <2>1. UNCHANGED <<customers, cards, pc, status>>
    BY <1>9 DEF SavePass, SwitchProgram, NextDay, vars, tables, locals
  <2>2. Harmless
    BY <2>1 DEF OrphanInv, Harmless
  <2> QED BY <1>1, <2>2, HarmlessKeepsOrphanInv
<1> QED
  BY <1>1, <1>2, <1>3, <1>4, <1>5, <1>6, <1>7, <1>8, <1>9, HarmlessKeepsOrphanInv
  DEF Next, Progress

\* A customer row without a card belongs to a request that is about to insert the
\* card, or that failed: a successful enrolment leaves none.
THEOREM NoOrphansBehindSuccess == Spec => []OrphansOnlyBehindFailures
<1>1. Init => OrphanInv
  BY InitTypeOK DEF Init, OrphanInv, OrphansOnlyBehindFailures
<1>2. OrphanInv => OrphansOnlyBehindFailures
  BY DEF OrphanInv
<1> QED BY <1>1, <1>2, StepKeepsOrphanInv, PTL DEF Spec

-----------------------------------------------------------------------------
(* Links that refer to a pass. *)

LinksInHand ==
  \A i \in Invocation :
    link[i] = "reference" => pc[i] = "store_put" /\ card[i] \in objects
RecordLinks ==
  \A r \in idempotency_records : r.body.link = "reference" => r.body.card \in objects
LinkInv == TypeOK /\ LinksInHand /\ RecordLinks /\ ReferenceLinksResolve

\* Passes are never deleted: records and answers stay good.
LEMMA PassesLast ==
  ASSUME LinkInv, TypeOK', objects \subseteq objects', LinksInHand',
         UNCHANGED <<idempotency_records, answers>>
  PROVE  LinkInv'
  BY DEF LinkInv, RecordLinks, ReferenceLinksResolve

LEMMA ReplyDropsLink ==
  ASSUME LinkInv, NEW i \in Invocation, NEW code, Reply(i, code),
         objects' = objects
  PROVE  LinksInHand'
  BY DEF LinkInv, TypeOK, LinksInHand, Reply, Goto

LEMMA GotoKeepsLinks ==
  ASSUME LinkInv, NEW i \in Invocation, NEW label, Goto(i, label),
         pc[i] # "store_put", objects \subseteq objects', UNCHANGED link,
         \A j \in Invocation : j # i => card'[j] = card[j]
  PROVE  LinksInHand'
  BY DEF LinkInv, TypeOK, LinksInHand, Goto

LEMMA StepKeepsLinkInv == LinkInv /\ [Next]_vars => LinkInv'
<1> SUFFICES ASSUME LinkInv, [Next]_vars PROVE LinkInv'
  OBVIOUS
<1>1. TypeOK /\ TypeOK'
  BY StepKeepsTypeOK DEF LinkInv
<1>2. ASSUME NEW i \in Invocation, NEW code, Refuse(i, code) PROVE LinkInv'
  BY <1>1, <1>2, ReplyDropsLink, PassesLast DEF Refuse, tables, wallet
<1>3. ASSUME NEW i \in Invocation, LookupKey(i) PROVE LinkInv'
  <2>1. UNCHANGED <<idempotency_records, objects>> /\ pc[i] = "idle"
    BY <1>3 DEF LookupKey, tables, wallet
  <2>2. LinksInHand'
    <3>1. \/ \E code : Reply(i, code)
          \/ Goto(i, "get_program") /\ UNCHANGED <<link, card>>
      BY <1>3 DEF LookupKey
    <3> QED BY <2>1, <3>1, ReplyDropsLink, GotoKeepsLinks
  <2>3. \/ answers' = answers
        \/ \E r \in idempotency_records : answers' = answers \cup {[inv |-> i, body |-> r.body]}
    BY <1>3 DEF LookupKey, RecordsFor
  <2>4. ReferenceLinksResolve'
    BY <2>1, <2>3 DEF LinkInv, RecordLinks, ReferenceLinksResolve
  <2> QED BY <1>1, <2>1, <2>2, <2>4 DEF LinkInv, RecordLinks
<1>4. ASSUME NEW i \in Invocation, StoreRecord(i) PROVE LinkInv'
  <2>1. CASE Refuse(i, 500)
    BY <1>2, <2>1
  <2>2. CASE ~Refuse(i, 500)
    <3>1. /\ idempotency_records' = idempotency_records \cup
               {[key |-> KeyOf(i), hash |-> BodyOf(i), body |-> Response(i)]}
          /\ answers' = answers \cup {[inv |-> i, body |-> Response(i)]}
          /\ Reply(i, Response(i).status) /\ UNCHANGED objects
      BY <1>4, <2>2 DEF StoreRecord, wallet
    <3>2. Response(i).link = "reference" => Response(i).card \in objects
      BY DEF LinkInv, LinksInHand, Response
    <3>3. LinksInHand'
      BY <3>1, ReplyDropsLink
    <3>4. RecordLinks' /\ ReferenceLinksResolve'
      BY <3>1, <3>2 DEF LinkInv, RecordLinks, ReferenceLinksResolve
    <3> QED BY <1>1, <3>3, <3>4 DEF LinkInv
  <2> QED BY <2>1, <2>2
<1>5. ASSUME NEW i \in Invocation, ReadProgram(i) \/ FindCard(i) PROVE LinkInv'
  <2>1. CASE Refuse(i, 404) \/ Refuse(i, 422)
    BY <1>2, <2>1
  <2>2. CASE ~(Refuse(i, 404) \/ Refuse(i, 422))
    <3>1. /\ UNCHANGED <<objects, idempotency_records, answers, link>>
          /\ pc[i] # "store_put" /\ \E label \in Label : Goto(i, label)
          /\ \A j \in Invocation : j # i => card'[j] = card[j]
      BY <1>1, <1>5, <2>2 DEF ReadProgram, FindCard, TypeOK, tables, wallet, Label
    <3> QED BY <1>1, <3>1, GotoKeepsLinks, PassesLast
  <2> QED BY <2>1, <2>2
<1>6. ASSUME NEW i \in Invocation, CreateCustomer(i) \/ CreateCard(i) PROVE LinkInv'
  <2>1. CASE Refuse(i, 500)
    BY <1>2, <2>1
  <2>2. CASE ~Refuse(i, 500)
    <3>1. /\ UNCHANGED <<objects, idempotency_records, answers, link>>
          /\ pc[i] # "store_put" /\ \E label : Goto(i, label)
          /\ \A j \in Invocation : j # i => card'[j] = card[j]
      BY <1>1, <1>6, <2>2 DEF CreateCustomer, CreateCard, TypeOK, wallet
    <3> QED BY <1>1, <3>1, GotoKeepsLinks, PassesLast
  <2> QED BY <2>1, <2>2
<1>7. ASSUME NEW i \in Invocation,
             \/ GetClass(i) \/ WriteClass(i) \/ GetObject(i) \/ WriteObject(i)
             \/ ProbeObject(i) \/ WalletFails(i)
      PROVE  LinkInv'
  <2>1. WalletStepOf(i)
    BY <1>7, WalletStep
  <2>2. objects \subseteq objects' /\ pc[i] # "store_put"
    BY <1>7
    DEF GetClass, WriteClass, GetObject, WriteObject, ProbeObject, WalletFails, NoLink,
        WalletCall, wallet
  <2>3. \/ link' = link
        \/ Goto(i, "store_put") /\ card[i] \in objects' /\ \E l : link' = [link EXCEPT ![i] = l]
        \/ Goto(i, "store_put") /\ link' = [link EXCEPT ![i] = "self_contained"]
    BY <1>7
    DEF GetClass, WriteClass, GetObject, WriteObject, ProbeObject, WalletFails, NoLink,
        SaveLink, wallet
  <2>4. LinksInHand'
    <3>1. \E label : Goto(i, label)
      BY <2>1 DEF WalletStepOf
    <3>2. UNCHANGED card
      BY <2>1 DEF WalletStepOf
    <3> QED BY <1>1, <2>2, <2>3, <3>1, <3>2 DEF LinkInv, LinksInHand, TypeOK, Goto
  <2> QED BY <1>1, <2>1, <2>2, <2>4, PassesLast DEF WalletStepOf, tables
<1>8. CASE \/ \E a \in answers : SavePass(a)
           \/ \E p \in DOMAIN programs : SwitchProgram(p)
           \/ NextDay \/ UNCHANGED vars
  <2>1. /\ UNCHANGED <<idempotency_records, answers, pc, card, link>>
        /\ objects \subseteq objects'
    BY <1>8 DEF SavePass, SwitchProgram, NextDay, vars, tables, wallet, locals
  <2>2. LinksInHand'
    BY <2>1 DEF LinkInv, LinksInHand
  <2> QED BY <1>1, <2>1, <2>2, PassesLast
<1>9. ASSUME NEW i \in Invocation, Crash(i) PROVE LinkInv'
  BY <1>2, <1>9 DEF Crash
<1> QED
  BY <1>3, <1>4, <1>5, <1>6, <1>7, <1>8, <1>9 DEF Next, Progress

\* Every link that only refers to a pass, fresh or replayed, refers to one that
\* exists, whichever wallet call failed and however two first issues raced.
THEOREM LinksResolve == Spec => []ReferenceLinksResolve
<1>1. Init => LinkInv
  BY InitTypeOK DEF Init, LinkInv, LinksInHand, RecordLinks, ReferenceLinksResolve
<1>2. LinkInv => ReferenceLinksResolve
  BY DEF LinkInv
<1> QED BY <1>1, <1>2, StepKeepsLinkInv, PTL DEF Spec

-----------------------------------------------------------------------------
(* The window of a campaign.                                                  *)

Opened(row) == (IsSeasonal(row) /\ row.valid_from # NoDate) => row.valid_from <= today

SameWindow(row, other) == row.type = other.type /\ row.valid_from = other.valid_from

\* A card is of a program that has opened; so will be the card of a request that has
\* passed require_active, whose copy of the row has the window of the table's.
OpeningInv ==
  /\ TypeOK
  /\ \A c \in cards : c.program \in DOMAIN programs /\ Opened(programs[c.program])
  /\ \A i \in Invocation :
       /\ pc[i] \in {"find_card", "create_customer", "create_card"} =>
            ProgramOf(i) \in DOMAIN programs /\ SameWindow(program[i], programs[ProgramOf(i)])
       /\ pc[i] \in {"create_customer", "create_card"} => Opened(program[i])

\* Only the switch of a program changes its row, and time does not run backwards.
LEMMA WindowsLast ==
  ASSUME TypeOK, [Next]_vars
  PROVE  /\ req' = req /\ today' \in Nat /\ today' >= today
         /\ DOMAIN programs' = DOMAIN programs
         /\ \A p \in DOMAIN programs : SameWindow(programs'[p], programs[p])
<1>0. today \in Nat /\ programs \in [DOMAIN Programs -> ProgramRow]
  BY DEF TypeOK
<1>1. CASE UNCHANGED <<req, today, programs>>
  BY <1>0, <1>1 DEF SameWindow
<1>2. CASE NextDay
  BY <1>0, <1>2 DEF NextDay, tables, SameWindow
<1>3. ASSUME NEW p \in DOMAIN programs, SwitchProgram(p)
      PROVE  /\ req' = req /\ today' = today /\ DOMAIN programs' = DOMAIN programs
             /\ \A q \in DOMAIN programs : SameWindow(programs'[q], programs[q])
  <2>1. programs[p] \in ProgramRow
    BY <1>0
  <2>2. programs' = [programs EXCEPT ![p] =
                       [programs[p] EXCEPT !.active = ~programs[p].active]]
    BY <1>3 DEF SwitchProgram
  <2>3. SameWindow([programs[p] EXCEPT !.active = ~programs[p].active], programs[p])
    BY <2>1 DEF ProgramRow, SameWindow
  <2> QED BY <1>0, <1>3, <2>2, <2>3 DEF SwitchProgram, SameWindow
<1>4. CASE ~NextDay /\ ~ \E p \in DOMAIN programs : SwitchProgram(p)
  <2>1. ASSUME NEW i \in Invocation, LookupKey(i) \/ ReadProgram(i) \/ FindCard(i)
        PROVE  UNCHANGED <<req, today, programs>>
    BY <2>1 DEF LookupKey, ReadProgram, FindCard, Refuse, tables
  <2>2. ASSUME NEW i \in Invocation, CreateCustomer(i) \/ CreateCard(i) \/ StoreRecord(i)
        PROVE  UNCHANGED <<req, today, programs>>
    BY <2>2 DEF CreateCustomer, CreateCard, StoreRecord, Refuse, tables
  <2>3. ASSUME NEW i \in Invocation,
               \/ GetClass(i) \/ WriteClass(i) \/ GetObject(i) \/ WriteObject(i)
               \/ ProbeObject(i) \/ WalletFails(i)
        PROVE  UNCHANGED <<req, today, programs>>
    BY <2>3, WalletStep DEF WalletStepOf, tables
  <2>4. ASSUME NEW i \in Invocation, Crash(i) PROVE UNCHANGED <<req, today, programs>>
    BY <2>4 DEF Crash, Refuse, tables
  <2>5. ASSUME (\E a \in answers : SavePass(a)) \/ UNCHANGED vars
        PROVE  UNCHANGED <<req, today, programs>>
    BY <2>5 DEF SavePass, vars, tables
  <2> QED BY <1>1, <1>4, <2>1, <2>2, <2>3, <2>4, <2>5 DEF Next, Progress
<1> QED BY <1>0, <1>2, <1>3, <1>4

\* What has opened stays open to a later day.
LEMMA OpenedLasts ==
  ASSUME TypeOK, NEW row \in ProgramRow, NEW other, Opened(row), SameWindow(other, row),
         today' \in Nat, today' >= today
  PROVE  Opened(other)'
<1>1. row.valid_from \in Nat /\ today \in Nat
  BY DEF ProgramRow, TypeOK
<1> QED BY <1>1 DEF Opened, SameWindow, IsSeasonal

\* require_active lets nobody in early.
LEMMA ActiveIsOpened ==
  ASSUME TypeOK, NEW row \in ProgramRow, CampaignStatus(row, today) = "active"
  PROVE  Opened(row)
<1>1. row.valid_from \in Nat /\ today \in Nat
  BY DEF ProgramRow, TypeOK
<1>2. ~(row.active /\ Upcoming(row, today))
  BY DEF CampaignStatus
<1>3. row.active
  BY DEF CampaignStatus
<1> QED BY <1>1, <1>2, <1>3 DEF Opened, Upcoming

\* A request comes nearer to its card only past the checks of the one before it.
LEMMA OpeningStep ==
  ASSUME TypeOK, [Next]_vars, NEW i \in Invocation,
         pc'[i] \in {"find_card", "create_customer", "create_card"}
  PROVE  \/ pc'[i] = pc[i] /\ program'[i] = program[i]
         \/ /\ pc[i] = "get_program" /\ pc'[i] = "find_card"
            /\ ProgramOf(i) \in DOMAIN programs /\ program'[i] = programs[ProgramOf(i)]
         \/ /\ pc[i] = "find_card" /\ program'[i] = program[i]
            /\ CampaignStatus(program[i], today) = "active"
         \/ pc[i] = "create_customer" /\ program'[i] = program[i]
<1> USE DEF Goto, Reply
<1>0. pc \in [Invocation -> Label] /\ program \in [Invocation -> ProgramRow]
  BY DEF TypeOK
<1>1. ASSUME NEW j \in Invocation, LookupKey(j)
      PROVE  pc'[i] = pc[i] /\ program'[i] = program[i]
  BY <1>0, <1>1 DEF LookupKey
<1>2. ASSUME NEW j \in Invocation, ReadProgram(j)
      PROVE  \/ pc'[i] = pc[i] /\ program'[i] = program[i]
             \/ /\ pc[i] = "get_program" /\ pc'[i] = "find_card"
                /\ ProgramOf(i) \in DOMAIN programs /\ program'[i] = programs[ProgramOf(i)]
  BY <1>0, <1>2 DEF ReadProgram, Refuse
<1>3. ASSUME NEW j \in Invocation, FindCard(j)
      PROVE  \/ pc'[i] = pc[i] /\ program'[i] = program[i]
             \/ /\ pc[i] = "find_card" /\ program'[i] = program[i]
                /\ CampaignStatus(program[i], today) = "active"
  BY <1>0, <1>3 DEF FindCard, Refuse
<1>4. ASSUME NEW j \in Invocation, CreateCustomer(j)
      PROVE  \/ pc'[i] = pc[i] /\ program'[i] = program[i]
             \/ pc[i] = "create_customer" /\ program'[i] = program[i]
  BY <1>0, <1>4 DEF CreateCustomer
<1>5. ASSUME NEW j \in Invocation, CreateCard(j) \/ StoreRecord(j) \/ Crash(j)
      PROVE  pc'[i] = pc[i] /\ program'[i] = program[i]
  BY <1>0, <1>5 DEF CreateCard, StoreRecord, Crash, Refuse
<1>6. ASSUME NEW j \in Invocation,
             \/ GetClass(j) \/ WriteClass(j) \/ GetObject(j) \/ WriteObject(j)
             \/ ProbeObject(j) \/ WalletFails(j)
      PROVE  pc'[i] = pc[i] /\ program'[i] = program[i]
  BY <1>0, <1>6, WalletStep DEF WalletStepOf
<1>7. CASE \/ \E a \in answers : SavePass(a)
           \/ \E p \in DOMAIN programs : SwitchProgram(p)
           \/ NextDay \/ UNCHANGED vars
  BY <1>7 DEF SavePass, SwitchProgram, NextDay, vars, locals
<1> QED BY <1>1, <1>2, <1>3, <1>4, <1>5, <1>6, <1>7 DEF Next, Progress

\* The cards of a step are those there were and the one of a request past the checks.
LEMMA CardOrigin ==
  ASSUME TypeOK, [Next]_vars, NEW c \in cards'
  PROVE  c \in cards \/ \E i \in Invocation : pc[i] = "create_card" /\ c.program = ProgramOf(i)
<1>1. ASSUME NEW i \in Invocation, CreateCard(i), c \notin cards
      PROVE  pc[i] = "create_card" /\ c.program = ProgramOf(i)
  <2>1. program[i] \in ProgramRow
    BY DEF TypeOK
  <2>2. c = NewCard(i, program[i])
    BY <1>1 DEF CreateCard, Refuse, tables
  <2> QED BY <1>1, <2>1, <2>2, NewCardType DEF CreateCard
<1>2. CASE ~ \E i \in Invocation : CreateCard(i)
  BY <1>2, CardsChangeOnlyInCreateCard
<1> QED BY <1>1, <1>2

LEMMA StepKeepsOpeningInv ==
  ASSUME OpeningInv, [Next]_vars
  PROVE  OpeningInv'
<1>1. TypeOK /\ TypeOK'
  BY StepKeepsTypeOK DEF OpeningInv
<1>2. /\ req' = req /\ today' \in Nat /\ today' >= today
      /\ DOMAIN programs' = DOMAIN programs
      /\ \A p \in DOMAIN programs : SameWindow(programs'[p], programs[p])
  BY <1>1, WindowsLast
<1>3. \A i \in Invocation : ProgramOf(i)' = ProgramOf(i)
  BY <1>2 DEF ProgramOf
<1>4. \A i \in Invocation : program[i] \in ProgramRow
  BY <1>1 DEF TypeOK
<1>5. \A p \in DOMAIN programs : programs[p] \in ProgramRow
  BY <1>1 DEF TypeOK
<1>6. ASSUME NEW p \in DOMAIN programs, Opened(programs[p])
      PROVE  p \in DOMAIN programs' /\ Opened(programs[p])'
  BY <1>1, <1>2, <1>5, <1>6, OpenedLasts
<1>7. ASSUME NEW c \in cards'
      PROVE  c.program \in DOMAIN programs' /\ Opened(programs[c.program])'
  <2>1. CASE c \in cards
    BY <1>6, <2>1 DEF OpeningInv
  <2>2. ASSUME NEW i \in Invocation, pc[i] = "create_card", c.program = ProgramOf(i)
        PROVE  c.program \in DOMAIN programs /\ Opened(programs[c.program])
    BY <2>2 DEF OpeningInv, Opened, SameWindow, IsSeasonal
  <2> QED BY <1>1, <1>6, <2>1, <2>2, CardOrigin
<1>8. ASSUME NEW i \in Invocation,
             pc'[i] \in {"find_card", "create_customer", "create_card"}
      PROVE  /\ ProgramOf(i) \in DOMAIN programs'
             /\ SameWindow(program'[i], programs'[ProgramOf(i)])
             /\ pc'[i] \in {"create_customer", "create_card"} => Opened(program[i])'
  <2>1. /\ ProgramOf(i) \in DOMAIN programs
        /\ SameWindow(program'[i], programs[ProgramOf(i)])
        /\ pc'[i] \in {"create_customer", "create_card"} =>
             program'[i] = program[i] /\ Opened(program[i])
    BY <1>1, <1>4, <1>8, OpeningStep, ActiveIsOpened DEF OpeningInv, SameWindow
  <2>2. pc'[i] \in {"create_customer", "create_card"} => Opened(program[i])'
    <3> SUFFICES ASSUME pc'[i] \in {"create_customer", "create_card"}
                 PROVE  Opened(program[i])'
      OBVIOUS
    <3>1. SameWindow(program'[i], program[i])
      BY <2>1 DEF SameWindow
    <3> QED BY <1>1, <1>2, <1>4, <2>1, <3>1, OpenedLasts
  <2> QED BY <1>2, <2>1, <2>2 DEF SameWindow
<1> QED BY <1>1, <1>3, <1>7, <1>8 DEF OpeningInv

\* No interleaving, switch or midnight gives a device a card of a campaign that has
\* not opened, although the date is checked two inserts before the card.
THEOREM NobodyIsEarly == Spec => []NoCardBeforeOpening
<1>1. Init => OpeningInv
  BY InitTypeOK DEF Init, OpeningInv
<1>2. OpeningInv => NoCardBeforeOpening
  BY DEF OpeningInv, Opened, NoCardBeforeOpening, IsSeasonal
<1> QED BY <1>1, <1>2, StepKeepsOpeningInv, PTL DEF Spec

\* A 422 on a campaign that is not switched off goes to devices without a card only:
\* the dates are looked at after the dedupe lookup.
THEOREM HoldersAreServed == Spec => CardHoldersAreServed
<1>1. ASSUME TypeOK, [Next]_vars
      PROVE  [\A i \in Invocation :
                (status[i] = 0 /\ status'[i] = 422
                   /\ CampaignStatus(programs[ProgramOf(i)], today) # "disabled")
                => FoundCards(ProgramOf(i), DeviceOf(i)) = {}]_vars
  <2> SUFFICES ASSUME NEW i \in Invocation, status[i] = 0, status'[i] = 422,
                      CampaignStatus(programs[ProgramOf(i)], today) # "disabled"
               PROVE  FoundCards(ProgramOf(i), DeviceOf(i)) = {}
    OBVIOUS
  <2> USE DEF Goto, Reply
  <2>0. status \in [Invocation -> {0, 200, 201, 404, 409, 422, 500, 504}]
    BY <1>1 DEF TypeOK
  <2>1. ASSUME NEW j \in Invocation, LookupKey(j) PROVE FALSE
    <3>1. \A r \in RecordsFor(KeyOf(j)) : r.body.status \in {200, 201}
      BY <1>1 DEF TypeOK, RecordsFor, ResponseBody
    <3> QED BY <2>0, <2>1, <3>1 DEF LookupKey
  <2>2. ASSUME NEW j \in Invocation, ReadProgram(j) PROVE FALSE
    BY <2>0, <2>2 DEF ReadProgram, Refuse, SwitchedOff
  <2>3. ASSUME NEW j \in Invocation, FindCard(j)
        PROVE  FoundCards(ProgramOf(i), DeviceOf(i)) = {}
    BY <2>0, <2>3 DEF FindCard, Refuse
  <2>4. ASSUME NEW j \in Invocation, CreateCustomer(j) \/ CreateCard(j) \/ Crash(j) PROVE FALSE
    BY <2>0, <2>4 DEF CreateCustomer, CreateCard, Crash, Refuse
  <2>5. ASSUME NEW j \in Invocation, StoreRecord(j) PROVE FALSE
    <3>1. Response(j).status \in {200, 201}
      BY DEF Response
    <3> QED BY <2>0, <2>5, <3>1 DEF StoreRecord, Refuse
  <2>6. ASSUME NEW j \in Invocation,
               \/ GetClass(j) \/ WriteClass(j) \/ GetObject(j) \/ WriteObject(j)
               \/ ProbeObject(j) \/ WalletFails(j)
        PROVE  FALSE
    BY <2>0, <2>6, WalletStep DEF WalletStepOf
  <2>7. CASE \/ \E a \in answers : SavePass(a)
             \/ \E p \in DOMAIN programs : SwitchProgram(p)
             \/ NextDay \/ UNCHANGED vars
    BY <2>7 DEF SavePass, SwitchProgram, NextDay, vars, locals
  <2> QED BY <1>1, <2>1, <2>2, <2>3, <2>4, <2>5, <2>6, <2>7 DEF Next, Progress
<1> QED BY TypeCorrect, <1>1, PTL DEF Spec, CardHoldersAreServed
=============================================================================
