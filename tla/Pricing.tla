------------------------------ MODULE Pricing ------------------------------
(***************************************************************************)
(* The pricing module (pricing.service.ts, rate-selection.ts) and the      *)
(* creation of a trip as far as its price goes (operations.service.ts).    *)
(* Time is a clock that ticks between any two statements.  GET             *)
(* /rates/lookup takes the steps of a creation and answers instead of      *)
(* inserting.  Cards and rates are never deleted, so the checks that they  *)
(* exist cannot go stale; the client of a card never changes.              *)
(***************************************************************************)
EXTENDS Integers

CONSTANTS Slots, Duties, Cards, Rates, Trips, Clients, Labels,
          ClientOf,    \* the client each card is created for
          Prices,      \* the money columns of a rate
          Overrides,   \* what a caller may ask for instead, column by column
          MaxTime,     \* the clock stops here
          None         \* not a value of any other set

Kinds   == {"close", "record"}
Columns == {"bill", "driverPay", "helperPay"}
Times   == 0 .. MaxTime

ASSUME DutiesAssumption == Duties \in [Slots -> SUBSET Kinds]
ASSUME ClientOfAssumption == ClientOf \in [Cards -> Clients]
ASSUME PricesAssumption == Prices \subseteq [Columns -> Nat]
ASSUME OverridesAssumption == Overrides \subseteq [Columns -> Nat \cup {None}]
ASSUME TimeAssumption == MaxTime \in Nat
ASSUME NoneAssumption == None \notin Cards \cup Rates \cup Clients \cup Labels \cup Prices \cup Int

VARIABLES card,   \* RateCard.status
          rate,   \* table Rate
          trip,   \* table Trip, with what was asked and found as history
          req,    \* the request each slot serves
          now,    \* the clock
          fate,   \* what happened to each rate (history)
          down    \* since when a card is disabled (history)

vars == <<card, rate, trip, req, now, fate, down>>

-----------------------------------------------------------------------------
RateRow == [card : Cards \cup {None}, label : Labels \cup {None}, price : Prices \cup {None},
            from : Times, to : Times \cup {None}]
NoRate  == [card |-> None, label |-> None, price |-> None, from |-> 0, to |-> None]

\* A rate as a query returns it.
Offer   == [id : Rates \cup {None}, price : Prices \cup {None}, from : Times,
            to : Times \cup {None}]
NoOffer == [id |-> None, price |-> None, from |-> 0, to |-> None]

TripRow == [client : Clients \cup {None}, label : Labels \cup {None},
            rate : Rates \cup {None}, money : [Columns -> Nat],
            explicit : BOOLEAN, asked : Overrides \cup {None},
            price : Prices \cup {None}, began : Times, created : Times]
NoTrip  == [client |-> None, label |-> None, rate |-> None, money |-> [c \in Columns |-> 0],
            explicit |-> FALSE, asked |-> None, price |-> None, began |-> 0, created |-> 0]

Request == [pc : {"idle", "close", "find", "select", "insert"}, rate : Rates \cup {None},
            at : Times, client : Clients \cup {None}, label : Labels \cup {None},
            asked : Overrides \cup {None}, rows : SUBSET Offer, found : Offer]
Idle == [pc |-> "idle", rate |-> None, at |-> 0, client |-> None, label |-> None,
         asked |-> None, rows |-> {}, found |-> NoOffer]

Created(r) == rate[r].card # None
Entered(t) == trip[t].client # None
Row(r) == [id |-> r, price |-> rate[r].price, from |-> rate[r].from, to |-> rate[r].to]

Serves(s, duty) == duty \in Duties[s] /\ req[s].pc = "idle"
Return(s) == req' = [req EXCEPT ![s] = Idle]

Init ==
    /\ card = [c \in Cards |-> "absent"]
    /\ rate = [r \in Rates |-> NoRate]
    /\ trip = [t \in Trips |-> NoTrip]
    /\ req = [s \in Slots |-> Idle]
    /\ now = 0
    /\ fate = [r \in Rates |-> [born |-> 0, closed |-> None, revised |-> FALSE, lapsed |-> FALSE]]
    /\ down = [c \in Cards |-> None]

Tick ==
    /\ now < MaxTime
    /\ now' = now + 1
    /\ UNCHANGED <<card, rate, trip, req, fate, down>>

-----------------------------------------------------------------------------
\* Rate cards: created, activated and deactivated.

CreateCard(c, status) ==
    /\ card[c] = "absent"
    /\ card' = [card EXCEPT ![c] = status]
    /\ down' = [down EXCEPT ![c] = IF status = "active" THEN None ELSE now]
    /\ UNCHANGED <<rate, trip, req, now, fate>>

SetCard(c, status) ==
    /\ card[c] # "absent"
    /\ card[c] # status
    /\ card' = [card EXCEPT ![c] = status]
    /\ down' = [down EXCEPT ![c] = IF status = "active" THEN None ELSE now]
    /\ fate' = [r \in Rates |-> IF rate[r].card = c THEN [fate[r] EXCEPT !.lapsed = TRUE]
                                                    ELSE fate[r]]
    /\ UNCHANGED <<rate, trip, req, now>>

-----------------------------------------------------------------------------
\* Rates: created, patched column by column, closed.

CreateRate(r, row) ==
    /\ ~Created(r)
    /\ row.card \in Cards
    /\ row.price \in Prices
    /\ card[row.card] # "absent"
    /\ rate' = [rate EXCEPT ![r] = row]
    /\ fate' = [fate EXCEPT ![r] = [born |-> now, closed |-> None, revised |-> FALSE,
                                    lapsed |-> card[row.card] # "active"]]
    /\ UNCHANGED <<card, trip, req, now, down>>

\* A patch names columns to write; none of them can be emptied again.
UpdateRate(r, row) ==
    /\ Created(r)
    /\ row.card = rate[r].card
    /\ row.price \in Prices
    /\ rate[r].label # None => row.label # None
    /\ rate[r].to # None => row.to # None
    /\ rate' = [rate EXCEPT ![r] = row]
    /\ fate' = [fate EXCEPT ![r] = [@ EXCEPT !.revised = TRUE, !.closed = None]]
    /\ UNCHANGED <<card, trip, req, now, down>>

\* The end is taken from the clock before the row is written.
StartClose(s, r) ==
    /\ Serves(s, "close")
    /\ Created(r)
    /\ req' = [req EXCEPT ![s] = [Idle EXCEPT !.pc = "close", !.rate = r, !.at = now]]
    /\ UNCHANGED <<card, rate, trip, now, fate, down>>

CloseRate(s) ==
    /\ req[s].pc = "close"
    /\ rate' = [rate EXCEPT ![req[s].rate].to = req[s].at]
    /\ fate' = [fate EXCEPT ![req[s].rate].closed = now]
    /\ Return(s)
    /\ UNCHANGED <<card, trip, now, down>>

-----------------------------------------------------------------------------
\* Creation of a trip: its rate is the one asked for, or the effective one.

StartTrip(s, client, label, asked, r) ==
    /\ Serves(s, "record")
    /\ req' = [req EXCEPT ![s] = [Idle EXCEPT !.pc = "find", !.client = client, !.at = now,
                                              !.label = label, !.asked = asked, !.rate = r]]
    /\ UNCHANGED <<card, rate, trip, now, fate, down>>

\* Any rate will do: nothing is asked of its card, its client or its window.
FindRate(s) == LET r == req[s].rate IN
    /\ req[s].pc = "find"
    /\ r # None
    /\ req' = IF Created(r) THEN [req EXCEPT ![s].pc = "insert", ![s].found = Row(r)]
                            ELSE [req EXCEPT ![s] = Idle]        \* unknown rate
    /\ UNCHANGED <<card, rate, trip, now, fate, down>>

\* Mutant of RatesFor: the rates of all clients.
RatesForAll(client, label) == {r \in Rates :
    /\ Created(r)
    /\ card[rate[r].card] = "active"
    /\ label # None => rate[r].label = label}

RatesFor(client, label) == {r \in Rates :
    /\ Created(r)
    /\ ClientOf[rate[r].card] = client
    /\ card[rate[r].card] = "active"
    /\ label # None => rate[r].label = label}

FindRates(s) ==
    /\ req[s].pc = "find"
    /\ req[s].rate = None
    /\ req' = [req EXCEPT ![s].pc = "select",
                          ![s].rows = {Row(r) : r \in RatesFor(req[s].client, req[s].label)}]
    /\ UNCHANGED <<card, rate, trip, now, fate, down>>

\* Mutant of Effective: the end of the window is not looked at.
Begun(row, at) == row.from <= at

Effective(row, at) == row.from <= at /\ (row.to # None => row.to >= at)

\* Mutant of selectEffectiveRate: any effective rate will do.
AnyEffective(rows, at) == {r \in rows : Effective(r, at)}

\* The latest to begin; of several the first, and the query asks for no order.
selectEffectiveRate(rows, at) ==
    LET active == {r \in rows : Effective(r, at)}
    IN  {r \in active : \A q \in active : q.from <= r.from}

\* The clock is read when the query has been answered.
Select(s) == LET best == selectEffectiveRate(req[s].rows, now) IN
    /\ req[s].pc = "select"
    /\ \E found \in IF best = {} THEN {NoOffer} ELSE best :
          req' = [req EXCEPT ![s].pc = "insert", ![s].rows = {}, ![s].found = found]
    /\ UNCHANGED <<card, rate, trip, now, fate, down>>

\* Mutants of resolveTripFinancials: nothing stands in for what is missing; a
\* zero is taken for nothing.
WithoutZero(asked, found) == [c \in Columns |->
    IF asked[c] # None \/ found = NoOffer THEN asked[c] ELSE found.price[c]]
ZeroIsNothing(asked, found) == [c \in Columns |->
    IF asked[c] \notin {None, 0} THEN asked[c]
    ELSE IF found # NoOffer THEN found.price[c] ELSE 0]

resolveTripFinancials(asked, found) == [c \in Columns |->
    IF asked[c] # None THEN asked[c]
    ELSE IF found # NoOffer THEN found.price[c] ELSE 0]

InsertTrip(s, t) == LET q == req[s] IN
    /\ q.pc = "insert"
    /\ ~Entered(t)
    /\ trip' = [trip EXCEPT ![t] =
          [client |-> q.client, label |-> q.label, rate |-> q.found.id,
           money |-> resolveTripFinancials(q.asked, q.found),
           explicit |-> q.rate # None, asked |-> q.asked, price |-> q.found.price,
           began |-> q.at, created |-> now]]
    /\ Return(s)
    /\ UNCHANGED <<card, rate, now, fate, down>>

\* The end of a lookup: nothing was asked for but the effective rate.
AnswerLookup(s) ==
    /\ req[s].pc = "insert"
    /\ req[s].rate = None
    /\ \A c \in Columns : req[s].asked[c] = None
    /\ Return(s)
    /\ UNCHANGED <<card, rate, trip, now, fate, down>>

\* A statement throws or the process dies.
Fail(s) ==
    /\ req[s].pc # "idle"
    /\ Return(s)
    /\ UNCHANGED <<card, rate, trip, now, fate, down>>

-----------------------------------------------------------------------------
PriceStep ==
    \/ \E c \in Cards, status \in {"active", "disabled"} :
          CreateCard(c, status) \/ SetCard(c, status)
    \/ \E r \in Rates, row \in RateRow : CreateRate(r, row) \/ UpdateRate(r, row)
    \/ \E s \in Slots, r \in Rates : StartClose(s, r)
    \/ \E s \in Slots : CloseRate(s)

TripStep(s) ==
    \/ \E client \in Clients, label \in Labels \cup {None}, asked \in Overrides,
          r \in Rates \cup {None} : StartTrip(s, client, label, asked, r)
    \/ FindRate(s) \/ FindRates(s) \/ Select(s) \/ AnswerLookup(s)
    \/ \E t \in Trips : InsertTrip(s, t)

Next == Tick \/ PriceStep \/ \E s \in Slots : TripStep(s) \/ Fail(s)

Spec == Init /\ [][Next]_vars

-----------------------------------------------------------------------------
\* Every variable holds a value of its type: a trip's money, numbers.
TypeOK ==
    /\ card \in [Cards -> {"absent", "active", "disabled"}]
    /\ rate \in [Rates -> RateRow]
    /\ trip \in [Trips -> TripRow]
    /\ req \in [Slots -> Request]
    /\ now \in Times
    /\ fate \in [Rates -> [born : Times, closed : Times \cup {None}, revised : BOOLEAN,
                           lapsed : BOOLEAN]]
    /\ down \in [Cards -> Times \cup {None}]

\* The trips whose rate the code has chosen, and those among them with one.
Chosen == {t \in Trips : Entered(t) /\ ~trip[t].explicit}
Priced == {t \in Chosen : trip[t].rate # None}

\* "Only rates on ACTIVE rate cards are considered", and only the client's
\* own: no trip gets the rate of somebody else's card, nor, begun after a
\* card was disabled, one of that card.
OwnCard == \A t \in Priced : LET c == rate[trip[t].rate].card IN
    /\ ClientOf[c] = trip[t].client
    /\ down[c] # None => trip[t].began <= down[c]

\* A rate holds from its beginning to its close, whatever is changed between
\* the query and the choice: no trip is created before its rate begins, and
\* none that has that rate was begun after the rate was closed.
InItsTime == \A t \in Priced : LET r == trip[t].rate IN
    /\ ~fate[r].revised => rate[r].from <= trip[t].created
    /\ fate[r].closed # None => trip[t].began <= fate[r].closed

\* "A newer rate supersedes an older overlapping one": a rate in force all the
\* while, created before the trip is begun, is the trip's, or is older than
\* the trip's; no trip goes without a price while there is one.
InForceFor(r, t) ==
    /\ Created(r) /\ ~fate[r].revised /\ ~fate[r].lapsed /\ fate[r].closed = None
    /\ ClientOf[rate[r].card] = trip[t].client
    /\ trip[t].label # None => rate[r].label = trip[t].label
    /\ fate[r].born < trip[t].began
    /\ Effective(rate[r], trip[t].began) /\ Effective(rate[r], trip[t].created)

Supersedes == \A t \in Chosen, r \in Rates :
    InForceFor(r, t) =>
        /\ trip[t].rate # None
        /\ ~fate[trip[t].rate].revised => rate[r].from <= rate[trip[t].rate].from

\* "Caller override wins, else the effective rate prepopulates, else 0", "an
\* explicit 0 is honoured": whatever happens to the rate later.
MoneyAsAsked == \A t \in Trips : Entered(t) => \A c \in Columns :
    CASE trip[t].asked[c] # None -> trip[t].money[c] = trip[t].asked[c]
      [] trip[t].asked[c] = None /\ trip[t].rate # None -> trip[t].money[c] = trip[t].price[c]
      [] OTHER -> trip[t].money[c] = 0
=============================================================================
