----------------------------- MODULE Enrollment -----------------------------
(***************************************************************************)
(* Customer enrolment (services/enrollment) with the issue of the wallet      *)
(* pass (providers/google_wallet.py).  As in CardOperations, an Invocation is *)
(* one HTTP request in one Lambda instance and an action is one Data API or    *)
(* wallet call with the local computation up to the next one.  A row created   *)
(* by invocation i has the id i.                                               *)
(***************************************************************************)
EXTENDS Campaigns, FiniteSets

CONSTANTS
  Invocation,
  Key,           \* Idempotency-Key values
  Program,       \* program ids a request can name
  Device,        \* dedupe keys of devices
  NoDevice,      \* a request without a dedupe key
  Blank,         \* the empty dedupe key
  Person,        \* the rest of a request's body
  Request,       \* what clients send
  Programs,      \* the programs table at the start: a row for each existing one
  MaxDay,        \* bound on the date
  Switchable,    \* bound: the programs whose owner switches them off and on
  Faults         \* which of "crash", "wallet" can happen

DedupeKey == Device \cup {NoDevice, Blank}
Body == [device: DedupeKey, person: Person]

ASSUME RequestAssumption == Request \subseteq [key: Key, program: Program, body: Body]
ASSUME ProgramAssumption == DOMAIN Programs \subseteq Program
                            /\ Programs \in [DOMAIN Programs -> ProgramRow]
ASSUME DeviceAssumption == NoDevice \notin Device \cup {Blank} /\ Blank \notin Device
ASSUME BoundAssumption == /\ MaxDay \in Nat /\ Switchable \subseteq Program
                          /\ Faults \subseteq {"crash", "wallet"}

\* Clients that never send one key and one body to two programs.  The code does
\* not check this; the theorems that need it say so.
KeysStayInProgram ==
  \A r, s \in Request : (r.key = s.key /\ r.body = s.body) => r.program = s.program

VARIABLES
  programs, customers, cards, idempotency_records,   \* the tables
  classes, objects,       \* wallet: programs with a class, cards with an object
  today,
  req, pc,
  program,                \* local: the programs row compute has read
  card,                   \* local: the id of the card to answer with
  found,                  \* local: did the last wallet GET find its resource?
  link,                   \* local: walletLinks.google
  status,
  answers                 \* history: the 200 and 201 bodies handed out

tables == <<programs, customers, cards, idempotency_records>>
wallet == <<classes, objects>>
locals == <<pc, program, card, found, link, status>>
vars == <<tables, wallet, today, req, locals, answers>>

\* what `program` holds before it is read
NoRow == [type |-> "loyalty_stamps", active |-> FALSE, valid_from |-> NoDate,
          valid_until |-> NoDate, mechanic |-> "none", welcome_bonus |-> 0]

Label == {"idle", "get_program", "find_card", "probe_object", "create_customer",
          "create_card", "get_class", "write_class", "get_object", "write_object",
          "store_put", "done"}
WalletCall == {"probe_object", "get_class", "write_class", "get_object", "write_object"}
Link == {"none", "reference", "self_contained"}
CardRow == [id: Invocation, program: Program, customer: Invocation,
            device: DedupeKey, stamps: Int, points: Int,
            rewards_available: {0, 1}]
ResponseBody == [status: {200, 201}, card: Invocation, link: Link]

-----------------------------------------------------------------------------
KeyOf(i) == req[i].key
BodyOf(i) == req[i].body
ProgramOf(i) == req[i].program
DeviceOf(i) == req[i].body.device

Running(i) == pc[i] \notin {"idle", "done"}
RecordsFor(k) == {r \in idempotency_records : r.key = k}

\* The cards of a device in a program, by the unique index: null is never equal.
CardsOf(p, device) == {c \in cards : c.program = p /\ c.device = device /\ device # NoDevice}

\* find_card_by_dedupe, which the handler skips for a missing or an empty key.
FoundCards(p, device) == IF device = Blank THEN {} ELSE CardsOf(p, device)

\* A table without the unique index (faulty variant).
NoIndex(p, device) == FALSE

\* cards_program_dedupe_uidx refuses a second card of a device in a program.
IndexRefuses(p, device) == CardsOf(p, device) # {}

\* A lookup that ignores the request hash (faulty variant).
HashIgnored(r, i) == TRUE

\* The hash covers the body; the program is in the path.
HashMatches(r, i) == r.hash = BodyOf(i)

\* Campaigns that are not open answer nobody (faulty variant).
NotOpen(row) == CampaignStatus(row, today) # "active"

SwitchedOff(row) == CampaignStatus(row, today) = "disabled"

\* A link that trusts the pass to exist (faulty variant).
AlwaysReference(exists) == "reference"

\* _save_link: by id where the pass is known to exist, else the whole pass.
SaveLink(exists) == IF exists THEN "reference" ELSE "self_contained"

\* A new card has its id's invocation as creator; any other was found.
Response(i) == [status |-> IF card[i] = i THEN 201 ELSE 200, card |-> card[i],
                link |-> link[i]]

Goto(i, label) == pc' = [pc EXCEPT ![i] = label]

\* The handler returns or raises: its local variables are gone.
Reply(i, code) ==
  /\ Goto(i, "done")
  /\ status' = [status EXCEPT ![i] = code]
  /\ program' = [program EXCEPT ![i] = NoRow]
  /\ card' = [card EXCEPT ![i] = i]
  /\ found' = [found EXCEPT ![i] = FALSE]
  /\ link' = [link EXCEPT ![i] = "none"]

Refuse(i, code) ==
  Reply(i, code) /\ UNCHANGED <<tables, wallet, today, req, answers>>

-----------------------------------------------------------------------------
Init ==
  /\ programs = Programs
  /\ customers = {} /\ cards = {} /\ idempotency_records = {}
  /\ classes = {} /\ objects = {}
  /\ today = 1
  /\ req \in [Invocation -> Request]
  /\ pc = [i \in Invocation |-> "idle"]
  /\ program = [i \in Invocation |-> NoRow]
  /\ card = [i \in Invocation |-> i]
  /\ found = [i \in Invocation |-> FALSE]
  /\ link = [i \in Invocation |-> "none"]
  /\ status = [i \in Invocation |-> 0]
  /\ answers = {}

\* run_idempotent: store.get(key)
LookupKey(i) ==
  /\ pc[i] = "idle"
  /\ \/ /\ RecordsFor(KeyOf(i)) = {}
        /\ Goto(i, "get_program")
        /\ UNCHANGED <<program, card, found, link, status, answers>>
     \/ \E r \in RecordsFor(KeyOf(i)) :
          IF HashMatches(r, i)
          THEN Reply(i, r.body.status) /\ answers' = answers \cup {[inv |-> i, body |-> r.body]}
          ELSE Reply(i, 409) /\ UNCHANGED answers
  /\ UNCHANGED <<tables, wallet, today, req>>

\* get_program, 404, and the refusal of a switched-off campaign
ReadProgram(i) ==
  LET p == ProgramOf(i) IN
  /\ pc[i] = "get_program"
  /\ \/ p \notin DOMAIN programs /\ Refuse(i, 404)
     \/ /\ p \in DOMAIN programs
        /\ SwitchedOff(programs[p])
        /\ Refuse(i, 422)
     \/ /\ p \in DOMAIN programs
        /\ ~SwitchedOff(programs[p])
        /\ program' = [program EXCEPT ![i] = programs[p]]
        /\ Goto(i, "find_card")
        /\ UNCHANGED <<tables, wallet, today, req, card, found, link, status, answers>>

\* The dedupe lookup before the customer exists is what avoids orphans: here the
\* customer comes first (faulty variant).
FindCardAfterCustomer(i) ==
  /\ pc[i] = "find_card"
  /\ customers' = customers \cup {i}
  /\ \/ \E c \in FoundCards(ProgramOf(i), DeviceOf(i)) :
          card' = [card EXCEPT ![i] = c.id] /\ Goto(i, "probe_object")
     \/ /\ FoundCards(ProgramOf(i), DeviceOf(i)) = {}
        /\ Goto(i, "create_customer") /\ UNCHANGED card
  /\ UNCHANGED <<programs, cards, idempotency_records, wallet, today, req, program,
                 found, link, status, answers>>

\* The dedupe lookup, then require_active.
FindCard(i) ==
  LET known == FoundCards(ProgramOf(i), DeviceOf(i))
      open == CampaignStatus(program[i], today) = "active"
  IN
  /\ pc[i] = "find_card"
  /\ \/ \E c \in known :
          /\ card' = [card EXCEPT ![i] = c.id]
          /\ Goto(i, "probe_object")
          /\ UNCHANGED <<tables, wallet, today, req, program, found, link, status, answers>>
     \/ known = {} /\ ~open /\ Refuse(i, 422)
     \/ /\ known = {} /\ open
        /\ Goto(i, "create_customer")
        /\ UNCHANGED <<tables, wallet, today, req, program, card, found, link, status, answers>>

CreateCustomer(i) ==
  /\ pc[i] = "create_customer"
  /\ customers' = customers \cup {i}
  /\ Goto(i, "create_card")
  /\ UNCHANGED <<programs, cards, idempotency_records, wallet, today, req, program,
                 card, found, link, status, answers>>

\* The row create_card inserts: the welcome bonus goes to the mechanic's counter
\* and a seasonal card is born with its single discount.
NewCard(i, row) ==
  [id |-> i, program |-> ProgramOf(i), customer |-> i, device |-> DeviceOf(i),
   stamps |-> IF row.mechanic = "stamps" THEN row.welcome_bonus ELSE 0,
   points |-> IF row.mechanic = "points" THEN row.welcome_bonus ELSE 0,
   rewards_available |-> IF IsSeasonal(row) THEN 1 ELSE 0]

CreateCard(i) ==
  /\ pc[i] = "create_card"
  /\ \/ IndexRefuses(ProgramOf(i), DeviceOf(i)) /\ Refuse(i, 500)
     \/ /\ ~IndexRefuses(ProgramOf(i), DeviceOf(i))
        /\ cards' = cards \cup {NewCard(i, program[i])}
        /\ card' = [card EXCEPT ![i] = i]
        /\ Goto(i, "get_class")
        /\ UNCHANGED <<programs, customers, idempotency_records, wallet, today, req,
                       program, found, link, status, answers>>

\* provider.issue: _ensure_class ...
GetClass(i) ==
  /\ pc[i] = "get_class"
  /\ found' = [found EXCEPT ![i] = ProgramOf(i) \in classes]
  /\ Goto(i, "write_class")
  /\ UNCHANGED <<tables, wallet, today, req, program, card, link, status, answers>>

\* A POST of what exists by now is refused, and with it the whole issue.
NoLink(i) ==
  /\ Goto(i, "store_put")
  /\ UNCHANGED <<tables, wallet, today, req, program, card, found, link, status, answers>>

WriteClass(i) ==
  /\ pc[i] = "write_class"
  /\ \/ ~found[i] /\ ProgramOf(i) \in classes /\ NoLink(i)
     \/ /\ found[i] \/ ProgramOf(i) \notin classes
        /\ classes' = classes \cup {ProgramOf(i)}
        /\ Goto(i, "get_object")
        /\ UNCHANGED <<tables, objects, today, req, program, card, found, link, status, answers>>

\* ... then the object, and a link that refers to it
GetObject(i) ==
  /\ pc[i] = "get_object"
  /\ found' = [found EXCEPT ![i] = card[i] \in objects]
  /\ Goto(i, "write_object")
  /\ UNCHANGED <<tables, wallet, today, req, program, card, link, status, answers>>

WriteObject(i) ==
  /\ pc[i] = "write_object"
  /\ \/ ~found[i] /\ card[i] \in objects /\ NoLink(i)
     \/ /\ found[i] \/ card[i] \notin objects
        /\ objects' = objects \cup {card[i]}
        /\ link' = [link EXCEPT ![i] = SaveLink(TRUE)]
        /\ Goto(i, "store_put")
        /\ UNCHANGED <<tables, classes, today, req, program, card, found, status, answers>>

\* provider.add_link of a found card: a probe that fails counts as not found
ProbeObject(i) ==
  /\ pc[i] = "probe_object"
  /\ \/ card[i] \in objects /\ link' = [link EXCEPT ![i] = SaveLink(TRUE)]
     \/ /\ card[i] \notin objects \/ "wallet" \in Faults
        /\ link' = [link EXCEPT ![i] = SaveLink(FALSE)]
  /\ Goto(i, "store_put")
  /\ UNCHANGED <<tables, wallet, today, req, program, card, found, status, answers>>

\* A wallet failure that becomes the request's own (faulty variant).
WalletRaises(i) ==
  "wallet" \in Faults /\ pc[i] \in WalletCall /\ Refuse(i, 502)

\* Any other failure of the wallet leaves the answer without a link.
WalletFails(i) ==
  /\ "wallet" \in Faults
  /\ pc[i] \in WalletCall
  /\ NoLink(i)

StoreRecord(i) ==
  /\ pc[i] = "store_put"
  /\ \/ RecordsFor(KeyOf(i)) # {} /\ Refuse(i, 500)
     \/ /\ RecordsFor(KeyOf(i)) = {}
        /\ idempotency_records' = idempotency_records \cup
             {[key |-> KeyOf(i), hash |-> BodyOf(i), body |-> Response(i)]}
        /\ answers' = answers \cup {[inv |-> i, body |-> Response(i)]}
        /\ Reply(i, Response(i).status)
        /\ UNCHANGED <<programs, customers, cards, wallet, today, req>>

Crash(i) == "crash" \in Faults /\ Running(i) /\ Refuse(i, 504)

\* The customer follows a link that carries the whole pass.
SavePass(a) ==
  /\ a.body.link = "self_contained"
  /\ objects' = objects \cup {a.body.card}
  /\ UNCHANGED <<tables, classes, today, req, locals, answers>>

\* The owner switches a campaign off or on (PATCH active).
SwitchProgram(p) ==
  /\ programs' = [programs EXCEPT ![p].active = ~@]
  /\ UNCHANGED <<customers, cards, idempotency_records, wallet, today, req, locals, answers>>

NextDay ==
  /\ today < MaxDay
  /\ today' = today + 1
  /\ UNCHANGED <<tables, wallet, req, locals, answers>>

Progress(i) ==
  \/ ReadProgram(i) \/ FindCard(i) \/ CreateCustomer(i) \/ CreateCard(i)
  \/ GetClass(i) \/ WriteClass(i) \/ GetObject(i) \/ WriteObject(i)
  \/ ProbeObject(i) \/ WalletFails(i) \/ StoreRecord(i)

Next ==
  \/ \E i \in Invocation : LookupKey(i) \/ Progress(i) \/ Crash(i)
  \/ \E a \in answers : SavePass(a)
  \/ \E p \in Switchable \cap DOMAIN programs : SwitchProgram(p)
  \/ NextDay

Spec == Init /\ [][Next]_vars
-----------------------------------------------------------------------------
(* Properties. *)

\* Types of the tables, of the wallet and of the invocations' local state.
TypeOK ==
  /\ programs \in [DOMAIN Programs -> ProgramRow]
  /\ customers \subseteq Invocation
  /\ cards \subseteq CardRow
  /\ idempotency_records \subseteq [key: Key, hash: Body, body: ResponseBody]
  /\ classes \subseteq Program /\ objects \subseteq Invocation
  /\ today \in Nat
  /\ req \in [Invocation -> Request]
  /\ pc \in [Invocation -> Label]
  /\ program \in [Invocation -> ProgramRow]
  /\ card \in [Invocation -> Invocation]
  /\ found \in [Invocation -> BOOLEAN]
  /\ link \in [Invocation -> Link]
  /\ status \in [Invocation -> {0, 200, 201, 404, 409, 422, 500, 504}]
  /\ answers \subseteq [inv: Invocation, body: ResponseBody]

\* Every answer names an existing card, of the program and the device that asked.
CardMatches(id, i) ==
  \E c \in cards : c.id = id /\ c.program = ProgramOf(i) /\ c.device = DeviceOf(i)
AnswerMatchesRequest == \A a \in answers : CardMatches(a.body.card, a.inv)

\* "a repeat submission from the same device returns the same card" (handler.py):
\* overlapping, crashed and repeated requests of a device never get two cards.
SameCardForDevice ==
  \A a, b \in answers :
    (/\ ProgramOf(a.inv) = ProgramOf(b.inv)
     /\ DeviceOf(a.inv) = DeviceOf(b.inv) /\ DeviceOf(a.inv) # NoDevice)
    => a.body.card = b.body.card

\* A link that only refers to a pass is handed out for passes that exist: issue
\* and add_link choose the self-contained form whenever they cannot be sure.
ReferenceLinksResolve ==
  \A a \in answers : a.body.link = "reference" => a.body.card \in objects

\* A customer row without a card is the trace of a request that still runs or
\* failed: no successful enrolment leaves one behind.
OrphansOnlyBehindFailures ==
  \A u \in customers :
    \/ \E c \in cards : c.customer = u
    \/ pc[u] = "create_card"
    \/ status[u] \in {500, 504}

\* Nobody holds a card of a campaign whose window has not opened.  (Its dates are
\* constant here: a PATCH could move the opening past a card already issued.)
NoCardBeforeOpening ==
  \A c \in cards : LET p == programs[c.program] IN
    (p.type = "seasonal_discount" /\ p.valid_from # NoDate) => p.valid_from <= today

\* "a repeat visit to the link still returns it after the end": a device that has
\* its card is turned away by a switched-off campaign only.
CardHoldersAreServed ==
  [][\A i \in Invocation :
       (status[i] = 0 /\ status'[i] = 422
          /\ CampaignStatus(programs[ProgramOf(i)], today) # "disabled")
       => FoundCards(ProgramOf(i), DeviceOf(i)) = {}]_vars
=============================================================================
