--------------------------- MODULE PricingProofs ---------------------------
(***************************************************************************)
(* Theorems about Pricing, for any cards, rates, prices, slots and clock.  *)
(***************************************************************************)
EXTENDS Pricing, WellFoundedInduction, TLAPS

LEMMA TimesAreNumbers == Times \subseteq Nat
BY TimeAssumption DEF Times

LEMMA IdleTyped == Idle \in Request /\ Idle.pc = "idle" /\ NoOffer \in Offer
BY TimeAssumption DEF Idle, Request, NoOffer, Offer, Times

-----------------------------------------------------------------------------
\* The types, with what a row that exists and a request under way hold.

\* Rates have a card and a price.
Stocked == \A r \in Rates : Created(r) => rate[r].card \in Cards /\ rate[r].price \in Prices

\* A rate in force has its card; cards in force are not down; what is closed
\* has an end; trips are of the past.
Timely ==
    /\ \A r \in Rates : Created(r) /\ ~fate[r].lapsed => card[rate[r].card] = "active"
    /\ \A c \in Cards : card[c] = "active" => down[c] = None
    /\ \A r \in Rates : fate[r].closed # None =>
          rate[r].to # None /\ rate[r].to <= fate[r].closed
    /\ \A t \in Trips : trip[t].began <= now

Sent(o) == o.id \in Rates /\ o.price \in Prices

ServedOf(s) ==
    /\ req[s].at <= now
    /\ req[s].pc = "close" => req[s].rate \in Rates /\ Created(req[s].rate)
    /\ req[s].pc \in {"find", "select", "insert"} =>
          req[s].client \in Clients /\ req[s].asked \in Overrides
    /\ \A o \in req[s].rows : Sent(o)
    /\ req[s].found = NoOffer \/ Sent(req[s].found)

TypeInv == TypeOK /\ Stocked /\ Timely /\ \A s \in Slots : ServedOf(s)

\* What is served stays served while no rate goes and no clock runs back.
LEMMA ServedKept ==
    ASSUME TypeInv, NEW s \in Slots, req'[s] = req[s], now' \in Times, now <= now',
           \A r \in Rates : Created(r) => Created(r)'
    PROVE  ServedOf(s)'
<1>1. ServedOf(s)
  BY DEF TypeInv
<1>2. req'[s].at <= now'
  BY <1>1, TimesAreNumbers DEF ServedOf, TypeInv, TypeOK, Request
<1> QED
  BY <1>1, <1>2 DEF ServedOf, Sent

\* Nothing is under way of an idle request.
LEMMA IdleServed ==
    ASSUME NEW s \in Slots, req'[s] = Idle, now' \in Times
    PROVE  ServedOf(s)'
BY TimesAreNumbers DEF ServedOf, Idle, NoOffer

\* The end of a request, whatever it was.
LEMMA ReturnServes ==
    ASSUME TypeInv, NEW s \in Slots, Return(s), now' = now,
           \A r \in Rates : Created(r) => Created(r)'
    PROVE  req' \in [Slots -> Request] /\ \A x \in Slots : ServedOf(x)'
<1>1. req' \in [Slots -> Request] /\ req'[s] = Idle
      /\ \A x \in Slots \ {s} : req'[x] = req[x]
  BY IdleTyped DEF Return, TypeInv, TypeOK
<1>2. now' \in Times /\ now <= now'
  BY TimesAreNumbers DEF TypeInv, TypeOK
<1> QED
  BY <1>1, <1>2, IdleServed, ServedKept

-----------------------------------------------------------------------------
\* Each action keeps the types.

LEMMA TickTyped ==
    ASSUME TypeInv, Tick PROVE TypeInv'
<1>1. now' \in Times /\ now <= now' /\ UNCHANGED <<card, rate, trip, req, fate, down>>
  BY TimeAssumption DEF Tick, TypeInv, TypeOK, Times
<1>2. TypeOK' /\ Stocked'
  BY <1>1 DEF TypeInv, TypeOK, Stocked, Created
<1>3. Timely'
  <2>1. \A t \in Trips : trip'[t].began <= now'
    <3> TAKE t \in Trips
    <3>1. trip'[t] = trip[t] /\ trip[t].began <= now
      BY <1>1 DEF TypeInv, Timely
    <3>2. trip[t].began \in Nat /\ now \in Nat /\ now' \in Nat
      BY <1>1, TimesAreNumbers DEF TypeInv, TypeOK, TripRow
    <3> QED
      BY <1>1, <3>1, <3>2
  <2> QED
    BY <1>1, <2>1 DEF TypeInv, Timely, Created
<1>4. \A s \in Slots : ServedOf(s)'
  BY <1>1, ServedKept DEF Created
<1> QED
  BY <1>2, <1>3, <1>4 DEF TypeInv

LEMMA CreateCardTyped ==
    ASSUME TypeInv, NEW c \in Cards, NEW status \in {"active", "disabled"},
           CreateCard(c, status)
    PROVE  TypeInv'
<1>1. TypeOK'
  BY DEF CreateCard, TypeInv, TypeOK
<1>2. Stocked' /\ \A s \in Slots : ServedOf(s)'
  BY TimesAreNumbers, ServedKept DEF CreateCard, TypeInv, TypeOK, Stocked, Created
<1>3. Timely'
  BY DEF CreateCard, TypeInv, TypeOK, Timely, Created, Stocked
<1> QED
  BY <1>1, <1>2, <1>3 DEF TypeInv

LEMMA SetCardTyped ==
    ASSUME TypeInv, NEW c \in Cards, NEW status \in {"active", "disabled"},
           SetCard(c, status)
    PROVE  TypeInv'
<1>1. \A r \in Rates : /\ fate'[r] \in [born : Times, closed : Times \cup {None},
                                        revised : BOOLEAN, lapsed : BOOLEAN]
                       /\ fate'[r].closed = fate[r].closed
                       /\ fate'[r].lapsed = (fate[r].lapsed \/ rate[r].card = c)
  BY DEF SetCard, TypeInv, TypeOK
<1>2. TypeOK'
  BY <1>1 DEF SetCard, TypeInv, TypeOK
<1>3. Stocked' /\ \A s \in Slots : ServedOf(s)'
  BY TimesAreNumbers, ServedKept DEF SetCard, TypeInv, TypeOK, Stocked, Created
<1>4. Timely'
  BY <1>1 DEF SetCard, TypeInv, TypeOK, Timely, Created, Stocked
<1> QED
  BY <1>2, <1>3, <1>4 DEF TypeInv

LEMMA CreateRateTyped ==
    ASSUME TypeInv, NEW r \in Rates, NEW row \in RateRow, CreateRate(r, row)
    PROVE  TypeInv'
<1> DEFINE new == [born |-> now, closed |-> None, revised |-> FALSE,
                   lapsed |-> card[row.card] # "active"]
<1>1. /\ new \in [born : Times, closed : Times \cup {None}, revised : BOOLEAN,
                  lapsed : BOOLEAN]
      /\ new.closed = None
      /\ new.lapsed = (card[row.card] # "active")
  BY DEF TypeInv, TypeOK
<1>2. fate' = [fate EXCEPT ![r] = new]
  BY DEF CreateRate
<1> HIDE DEF new
<1>3. TypeOK'
  BY <1>1, <1>2 DEF CreateRate, TypeInv, TypeOK
<1>4. /\ rate'[r] = row /\ fate'[r] = new
      /\ \A q \in Rates \ {r} : rate'[q] = rate[q] /\ fate'[q] = fate[q]
  BY <1>2 DEF CreateRate, TypeInv, TypeOK
<1>5. Stocked'
  BY <1>4 DEF CreateRate, TypeInv, Stocked, Created
<1>6. \A s \in Slots : ServedOf(s)'
  <2>1. \A q \in Rates : Created(q) => Created(q)'
    BY <1>4 DEF CreateRate, Created
  <2> QED
    BY <2>1, TimesAreNumbers, ServedKept DEF CreateRate, TypeInv, TypeOK
<1>7. Timely'
  BY <1>1, <1>4 DEF CreateRate, TypeInv, Timely, Created
<1> QED
  BY <1>3, <1>5, <1>6, <1>7 DEF TypeInv

LEMMA UpdateRateTyped ==
    ASSUME TypeInv, NEW r \in Rates, NEW row \in RateRow, UpdateRate(r, row)
    PROVE  TypeInv'
<1> DEFINE new == [fate[r] EXCEPT !.revised = TRUE, !.closed = None]
<1>1. /\ new \in [born : Times, closed : Times \cup {None}, revised : BOOLEAN,
                  lapsed : BOOLEAN]
      /\ new.closed = None
      /\ new.lapsed = fate[r].lapsed
  BY DEF TypeInv, TypeOK
<1>2. fate' = [fate EXCEPT ![r] = new]
  BY DEF UpdateRate
<1> HIDE DEF new
<1>3. TypeOK'
  BY <1>1, <1>2 DEF UpdateRate, TypeInv, TypeOK
<1>4. /\ rate'[r] = row /\ fate'[r] = new
      /\ \A q \in Rates \ {r} : rate'[q] = rate[q] /\ fate'[q] = fate[q]
  BY <1>2 DEF UpdateRate, TypeInv, TypeOK
<1>5. Stocked'
  BY <1>4 DEF UpdateRate, TypeInv, Stocked, Created
<1>6. \A s \in Slots : ServedOf(s)'
  <2>1. \A q \in Rates : Created(q) => Created(q)'
    BY <1>4 DEF UpdateRate, Created
  <2> QED
    BY <2>1, TimesAreNumbers, ServedKept DEF UpdateRate, TypeInv, TypeOK
<1>7. Timely'
  BY <1>1, <1>4 DEF UpdateRate, TypeInv, Timely, Created
<1> QED
  BY <1>3, <1>5, <1>6, <1>7 DEF TypeInv

LEMMA StartCloseTyped ==
    ASSUME TypeInv, NEW s \in Slots, NEW r \in Rates, StartClose(s, r)
    PROVE  TypeInv'
<1> DEFINE q == [Idle EXCEPT !.pc = "close", !.rate = r, !.at = now]
<1>1. /\ q \in Request /\ q.pc = "close" /\ q.rate = r /\ q.at = now
      /\ q.rows = {} /\ q.found = NoOffer
  BY IdleTyped DEF Idle, Request, TypeInv, TypeOK
<1>2. req' = [req EXCEPT ![s] = q] /\ Created(r)
  BY DEF StartClose
<1> HIDE DEF q
<1>3. req' \in [Slots -> Request] /\ req'[s] = q /\ \A x \in Slots \ {s} : req'[x] = req[x]
  BY <1>1, <1>2 DEF TypeInv, TypeOK
<1>4. TypeOK' /\ Stocked' /\ Timely'
  BY <1>3 DEF StartClose, TypeInv, TypeOK, Stocked, Timely, Created
<1>5. \A x \in Slots \ {s} : ServedOf(x)'
  BY <1>3, TimesAreNumbers, ServedKept DEF StartClose, TypeInv, TypeOK, Created
<1>6. ServedOf(s)'
  <2>1. now' = now /\ now \in Nat /\ Created(r)'
    BY <1>2, TimesAreNumbers DEF StartClose, Created, TypeInv, TypeOK
  <2> QED
    BY <1>1, <1>3, <2>1 DEF ServedOf
<1> QED
  BY <1>4, <1>5, <1>6 DEF TypeInv

LEMMA CloseRateTyped ==
    ASSUME TypeInv, NEW s \in Slots, CloseRate(s)
    PROVE  TypeInv'
<1>1. PICK r \in Rates : r = req[s].rate /\ Created(r)
  BY DEF CloseRate, TypeInv, ServedOf
<1>2. PICK at \in Times : at = req[s].at /\ at <= now
  BY DEF TypeInv, TypeOK, Request, ServedOf
<1>3. rate' = [rate EXCEPT ![r].to = at] /\ fate' = [fate EXCEPT ![r].closed = now]
  BY <1>1, <1>2 DEF CloseRate
<1>4. /\ rate' \in [Rates -> RateRow]
      /\ fate' \in [Rates -> [born : Times, closed : Times \cup {None}, revised : BOOLEAN,
                              lapsed : BOOLEAN]]
  BY <1>2, <1>3 DEF TypeInv, TypeOK, RateRow
<1>5. /\ rate'[r].to = at /\ fate'[r].closed = now
      /\ \A x \in Rates : /\ rate'[x].card = rate[x].card
                          /\ rate'[x].price = rate[x].price
                          /\ fate'[x].lapsed = fate[x].lapsed
      /\ \A x \in Rates \ {r} : rate'[x] = rate[x] /\ fate'[x] = fate[x]
  BY <1>2, <1>3 DEF TypeInv, TypeOK, RateRow
<1>6. req' \in [Slots -> Request] /\ \A x \in Slots : ServedOf(x)'
  BY <1>5, ReturnServes DEF CloseRate, Created
<1>7. TypeOK' /\ Stocked'
  BY <1>4, <1>5, <1>6 DEF CloseRate, TypeInv, TypeOK, Stocked, Created
<1>8. at # None
  BY <1>2, NoneAssumption, TimesAreNumbers
<1>9. Timely'
  <2>1. UNCHANGED <<card, trip, now, down>>
    BY DEF CloseRate
  <2>2. \A x \in Rates : fate'[x].closed # None => rate'[x].to # None /\ rate'[x].to <= fate'[x].closed
    BY <1>2, <1>5, <1>8 DEF TypeInv, Timely
  <2> QED
    BY <1>5, <2>1, <2>2 DEF TypeInv, Timely, Created
<1> QED
  BY <1>6, <1>7, <1>9 DEF TypeInv

\* A request that answers nothing yet: only its own locals change.
LEMMA LocalsTyped ==
    ASSUME TypeInv, NEW s \in Slots, req' \in [Slots -> Request],
           \A x \in Slots \ {s} : req'[x] = req[x], ServedOf(s)',
           UNCHANGED <<card, rate, trip, now, fate, down>>
    PROVE  TypeInv'
<1>1. TypeOK' /\ Stocked' /\ Timely'
  BY DEF TypeInv, TypeOK, Stocked, Timely, Created
<1>2. \A x \in Slots \ {s} : ServedOf(x)'
  BY TimesAreNumbers, ServedKept DEF TypeInv, TypeOK, Created
<1> QED
  BY <1>1, <1>2 DEF TypeInv

LEMMA StartTripTyped ==
    ASSUME TypeInv, NEW s \in Slots, NEW client \in Clients, NEW label \in Labels \cup {None},
           NEW asked \in Overrides, NEW r \in Rates \cup {None},
           StartTrip(s, client, label, asked, r)
    PROVE  TypeInv'
<1> DEFINE q == [Idle EXCEPT !.pc = "find", !.client = client, !.at = now,
                             !.label = label, !.asked = asked, !.rate = r]
<1>1. /\ q \in Request /\ q.pc = "find" /\ q.client = client /\ q.asked = asked /\ q.at = now
      /\ q.rows = {} /\ q.found = NoOffer
  BY IdleTyped DEF Idle, Request, TypeInv, TypeOK
<1>2. req' = [req EXCEPT ![s] = q]
  BY DEF StartTrip
<1> HIDE DEF q
<1>3. req' \in [Slots -> Request] /\ req'[s] = q /\ \A x \in Slots \ {s} : req'[x] = req[x]
  BY <1>1, <1>2 DEF TypeInv, TypeOK
<1>4. ServedOf(s)'
  <2>1. now' = now /\ now \in Nat
    BY TimesAreNumbers DEF StartTrip, TypeInv, TypeOK
  <2> QED
    BY <1>1, <1>3, <2>1 DEF ServedOf
<1> QED
  BY <1>3, <1>4, LocalsTyped DEF StartTrip

\* A rate that exists makes an offer.
LEMMA RowSent ==
    ASSUME TypeInv, NEW r \in Rates, Created(r)
    PROVE  Row(r) \in Offer /\ Sent(Row(r))
BY DEF TypeInv, TypeOK, Stocked, Row, Offer, Sent, RateRow

LEMMA FindRateTyped ==
    ASSUME TypeInv, NEW s \in Slots, FindRate(s)
    PROVE  TypeInv'
<1>1. CASE ~Created(req[s].rate)
  <2>1. Return(s)
    BY <1>1 DEF FindRate, Return
  <2> QED
    BY <2>1, ReturnServes, LocalsTyped DEF FindRate, Return, Created, TypeInv, TypeOK
<1>2. CASE Created(req[s].rate)
  <2>1. PICK r \in Rates : r = req[s].rate /\ Created(r)
    BY <1>2 DEF FindRate, TypeInv, TypeOK, Request
  <2>2. PICK o \in Offer : o = Row(r) /\ Sent(o)
    BY <2>1, RowSent
  <2>3. req' = [req EXCEPT ![s].pc = "insert", ![s].found = o]
    BY <1>2, <2>1, <2>2 DEF FindRate
  <2>4. req' \in [Slots -> Request] /\ \A x \in Slots \ {s} : req'[x] = req[x]
    <3>1. PICK q \in Request : q = [req[s] EXCEPT !.pc = "insert", !.found = o]
      BY DEF TypeInv, TypeOK, Request
    <3>2. req' = [req EXCEPT ![s] = q]
      BY <2>3, <3>1
    <3> QED
      BY <3>2 DEF TypeInv, TypeOK
  <2>5. /\ req'[s].found = o /\ req'[s].rows = req[s].rows /\ req'[s].at = req[s].at
        /\ req'[s].client = req[s].client /\ req'[s].asked = req[s].asked
        /\ req'[s].pc = "insert"
    BY <2>3 DEF TypeInv, TypeOK, Request
  <2>6. ServedOf(s)'
    BY <2>2, <2>5 DEF FindRate, ServedOf, TypeInv, Sent
  <2> QED
    BY <2>4, <2>6, LocalsTyped DEF FindRate
<1> QED
  BY <1>1, <1>2

LEMMA FindRatesTyped ==
    ASSUME TypeInv, NEW s \in Slots, FindRates(s)
    PROVE  TypeInv'
<1>1. PICK R \in SUBSET Offer :
          R = {Row(r) : r \in RatesFor(req[s].client, req[s].label)} /\ \A o \in R : Sent(o)
  <2>1. \A r \in RatesFor(req[s].client, req[s].label) :
            Row(r) \in Offer /\ Sent(Row(r))
    BY RowSent DEF RatesFor
  <2> DEFINE R == {Row(r) : r \in RatesFor(req[s].client, req[s].label)}
  <2>2. R \in SUBSET Offer /\ \A o \in R : Sent(o)
    BY <2>1
  <2> QED
    BY <2>2
<1>2. req' = [req EXCEPT ![s].pc = "select", ![s].rows = R]
  BY <1>1 DEF FindRates
<1>3. req' \in [Slots -> Request] /\ \A x \in Slots \ {s} : req'[x] = req[x]
  <2>1. PICK q \in Request : q = [req[s] EXCEPT !.pc = "select", !.rows = R]
    BY DEF TypeInv, TypeOK, Request
  <2>2. req' = [req EXCEPT ![s] = q]
    BY <1>2, <2>1
  <2> QED
    BY <2>2 DEF TypeInv, TypeOK
<1>4. /\ req'[s].rows = R /\ req'[s].found = req[s].found /\ req'[s].at = req[s].at
      /\ req'[s].client = req[s].client /\ req'[s].asked = req[s].asked
      /\ req'[s].pc = "select"
  BY <1>2 DEF TypeInv, TypeOK, Request
<1>5. ServedOf(s)'
  BY <1>1, <1>4 DEF FindRates, ServedOf, TypeInv, Sent
<1> QED
  BY <1>3, <1>5, LocalsTyped DEF FindRates

LEMMA SelectTyped ==
    ASSUME TypeInv, NEW s \in Slots, Select(s)
    PROVE  TypeInv'
<1>1. PICK o \in Offer :
          /\ o = NoOffer \/ Sent(o)
          /\ req' = [req EXCEPT ![s].pc = "insert", ![s].rows = {}, ![s].found = o]
  BY IdleTyped DEF Select, selectEffectiveRate, TypeInv, TypeOK, Request, ServedOf
<1>2. req' \in [Slots -> Request] /\ \A x \in Slots \ {s} : req'[x] = req[x]
  <2>1. PICK q \in Request : q = [req[s] EXCEPT !.pc = "insert", !.rows = {}, !.found = o]
    BY DEF TypeInv, TypeOK, Request
  <2>2. req' = [req EXCEPT ![s] = q]
    BY <1>1, <2>1
  <2> QED
    BY <2>2 DEF TypeInv, TypeOK
<1>3. /\ req'[s].rows = {} /\ req'[s].found = o /\ req'[s].at = req[s].at
      /\ req'[s].client = req[s].client /\ req'[s].asked = req[s].asked
      /\ req'[s].pc = "insert"
  BY <1>1 DEF TypeInv, TypeOK, Request
<1>4. ServedOf(s)'
  BY <1>1, <1>3 DEF Select, ServedOf, TypeInv, Sent
<1> QED
  BY <1>2, <1>4, LocalsTyped DEF Select

\* What a trip gets is money.
LEMMA MoneyResolved ==
    ASSUME NEW asked \in Overrides, NEW found, found = NoOffer \/ found.price \in Prices
    PROVE  resolveTripFinancials(asked, found) \in [Columns -> Nat]
BY OverridesAssumption, PricesAssumption DEF resolveTripFinancials

LEMMA InsertTripTyped ==
    ASSUME TypeInv, NEW s \in Slots, NEW t \in Trips, InsertTrip(s, t)
    PROVE  TypeInv'
<1> DEFINE row == [client |-> req[s].client, label |-> req[s].label, rate |-> req[s].found.id,
                   money |-> resolveTripFinancials(req[s].asked, req[s].found),
                   explicit |-> req[s].rate # None, asked |-> req[s].asked,
                   price |-> req[s].found.price, began |-> req[s].at, created |-> now]
<1>1. resolveTripFinancials(req[s].asked, req[s].found) \in [Columns -> Nat]
  BY MoneyResolved DEF InsertTrip, TypeInv, ServedOf, Sent
<1>2. row \in TripRow /\ row.began <= now
  BY <1>1 DEF TypeInv, TypeOK, Request, Offer, TripRow, ServedOf
<1>3. trip' = [trip EXCEPT ![t] = row]
  BY DEF InsertTrip
<1> HIDE DEF row
<1>4. req' \in [Slots -> Request] /\ \A x \in Slots : ServedOf(x)'
  BY ReturnServes DEF InsertTrip, Created
<1>5. TypeOK' /\ Stocked'
  BY <1>2, <1>3, <1>4 DEF InsertTrip, TypeInv, TypeOK, Stocked, Created
<1>6. Timely'
  BY <1>2, <1>3 DEF InsertTrip, TypeInv, TypeOK, Timely, Created
<1> QED
  BY <1>4, <1>5, <1>6 DEF TypeInv

LEMMA TypeInvCorrect == Spec => []TypeInv
<1>1. Init => TypeInv
  <2> SUFFICES ASSUME Init PROVE TypeInv
    OBVIOUS
  <2>1. 0 \in Times
    BY TimeAssumption DEF Times
  <2>2. TypeOK
    BY <2>1, IdleTyped DEF Init, TypeOK, NoRate, NoTrip, RateRow, TripRow
  <2>3. Stocked /\ Timely
    BY DEF Init, Stocked, Timely, NoRate, NoTrip, Created
  <2>4. \A s \in Slots : ServedOf(s)
    <3> TAKE s \in Slots
    <3>1. req[s] = Idle /\ now = 0
      BY DEF Init
    <3> QED
      BY <3>1 DEF ServedOf, Idle, NoOffer
  <2> QED
    BY <2>2, <2>3, <2>4 DEF TypeInv
<1>2. TypeInv /\ [Next]_vars => TypeInv'
  <2> SUFFICES ASSUME TypeInv, [Next]_vars PROVE TypeInv'
    OBVIOUS
  <2>1. CASE Tick
    BY <2>1, TickTyped
  <2>2. CASE PriceStep
    BY <2>2, CreateCardTyped, SetCardTyped, CreateRateTyped, UpdateRateTyped,
       StartCloseTyped, CloseRateTyped DEF PriceStep
  <2>3. ASSUME NEW s \in Slots, AnswerLookup(s) \/ Fail(s) PROVE TypeInv'
    BY <2>3, ReturnServes, LocalsTyped
       DEF AnswerLookup, Fail, Return, Created, TypeInv, TypeOK
  <2>4. ASSUME NEW s \in Slots, TripStep(s) PROVE TypeInv'
    BY <2>3, <2>4, StartTripTyped, FindRateTyped, FindRatesTyped, SelectTyped,
       InsertTripTyped DEF TripStep
  <2>5. CASE UNCHANGED vars
    BY <2>5 DEF vars, TypeInv, TypeOK, Stocked, Timely, ServedOf, Created, Sent
  <2> QED
    BY <2>1, <2>2, <2>3, <2>4, <2>5 DEF Next
<1> QED
  BY <1>1, <1>2, PTL DEF Spec

\* Every variable holds a value of its type.  That a trip's money is numbers
\* rests on what its creation holds: overrides asked for, and a rate with a
\* price or none (trip-financials.ts, resolveTripFinancials).
THEOREM TypeCorrect == Spec => []TypeOK
BY TypeInvCorrect, PTL DEF TypeInv

-----------------------------------------------------------------------------
\* The money of a trip.

\* The trips change by a creation only.
LEMMA TripsMove ==
    ASSUME [Next]_vars
    PROVE  trip' = trip \/ \E s \in Slots, t \in Trips : InsertTrip(s, t)
<1>1. CASE Tick
  BY <1>1 DEF Tick
<1>2. CASE PriceStep
  BY <1>2 DEF PriceStep, CreateCard, SetCard, CreateRate, UpdateRate, StartClose, CloseRate
<1>3. ASSUME NEW s \in Slots, TripStep(s) \/ Fail(s)
      PROVE  trip' = trip \/ \E t \in Trips : InsertTrip(s, t)
  BY <1>3 DEF TripStep, StartTrip, FindRate, FindRates, Select, AnswerLookup, Fail
<1>4. CASE UNCHANGED vars
  BY <1>4 DEF vars
<1> QED
  BY <1>1, <1>2, <1>3, <1>4 DEF Next

\* The row a creation inserts, and the rows it leaves.
LEMMA TripInserted ==
    ASSUME TypeInv, NEW s \in Slots, NEW t \in Trips, InsertTrip(s, t)
    PROVE  /\ trip'[t].client = req[s].client
           /\ trip'[t].label = req[s].label
           /\ trip'[t].rate = req[s].found.id
           /\ trip'[t].money = resolveTripFinancials(req[s].asked, req[s].found)
           /\ trip'[t].explicit = (req[s].rate # None)
           /\ trip'[t].asked = req[s].asked
           /\ trip'[t].price = req[s].found.price
           /\ trip'[t].began = req[s].at
           /\ trip'[t].created = now
           /\ \A x \in Trips \ {t} : trip'[x] = trip[x]
BY DEF InsertTrip, TypeInv, TypeOK

LEMMA MoneyKept ==
    ASSUME TypeInv, MoneyAsAsked, [Next]_vars
    PROVE  MoneyAsAsked'
<1>1. ASSUME NEW s \in Slots, NEW t \in Trips, InsertTrip(s, t)
      PROVE  MoneyAsAsked'
  <2> DEFINE found == req[s].found
             asked == req[s].asked
  <2>1. found.id = None <=> found = NoOffer
    BY <1>1, NoneAssumption DEF TypeInv, ServedOf, Sent, NoOffer
  <2>2. /\ trip'[t].rate = found.id /\ trip'[t].asked = asked
        /\ trip'[t].price = found.price
        /\ trip'[t].money = resolveTripFinancials(asked, found)
        /\ \A x \in Trips \ {t} : trip'[x] = trip[x]
    BY <1>1, TripInserted
  <2> HIDE DEF found, asked
  <2>3. ASSUME NEW c \in Columns
        PROVE  CASE trip'[t].asked[c] # None -> trip'[t].money[c] = trip'[t].asked[c]
                 [] trip'[t].asked[c] = None /\ trip'[t].rate # None ->
                       trip'[t].money[c] = trip'[t].price[c]
                 [] OTHER -> trip'[t].money[c] = 0
    BY <2>1, <2>2 DEF resolveTripFinancials
  <2> QED
    BY <2>2, <2>3 DEF MoneyAsAsked, Entered
<1>2. CASE trip' = trip
  BY <1>2 DEF MoneyAsAsked, Entered
<1> QED
  BY <1>1, <1>2, TripsMove

\* The money of a trip is what was asked for it, else the price of its rate as
\* it was found, else nothing, column by column (trip-financials.ts,
\* resolveTripFinancials; operations.service.ts, createTrip).
THEOREM MoneyStands == Spec => []MoneyAsAsked
<1>1. Init => MoneyAsAsked
  BY DEF Init, MoneyAsAsked, Entered, NoTrip
<1>2. TypeInv /\ MoneyAsAsked /\ [Next]_vars => MoneyAsAsked'
  BY MoneyKept
<1> QED
  BY <1>1, <1>2, TypeInvCorrect, PTL DEF Spec

-----------------------------------------------------------------------------
\* What a step does to a rate and to the time a card went down.

Stays(r) ==
    /\ rate'[r].card = rate[r].card /\ rate'[r].label = rate[r].label
    /\ rate'[r].price = rate[r].price /\ rate'[r].from = rate[r].from
    /\ rate'[r].to = rate[r].to
    /\ fate'[r].born = fate[r].born /\ fate'[r].closed = fate[r].closed
    /\ fate'[r].revised = fate[r].revised /\ (fate[r].lapsed => fate'[r].lapsed)
Arises(r)  == ~Created(r) /\ fate'[r].born = now /\ fate'[r].closed = None
Changes(r) == Created(r) /\ rate'[r].card = rate[r].card
              /\ fate'[r].revised /\ fate'[r].closed = None
Ends(r)    == /\ Created(r) /\ rate'[r].card = rate[r].card /\ rate'[r].from = rate[r].from
              /\ fate'[r].revised = fate[r].revised /\ fate'[r].closed = now

Moves ==
    /\ now' \in Times /\ now <= now'
    /\ \A r \in Rates : Stays(r) \/ Arises(r) \/ Changes(r) \/ Ends(r)
    /\ \A c \in Cards : down'[c] \in {down[c], None, now}

LEMMA StepMoves ==
    ASSUME TypeInv, [Next]_vars
    PROVE  Moves
<1>0. now \in Times /\ now <= now
  BY TimesAreNumbers DEF TypeInv, TypeOK
<1>1. ASSUME UNCHANGED <<rate, fate, down>>, now' \in Times, now <= now'
      PROVE  Moves
  BY <1>1 DEF Moves, Stays
<1>2. CASE Tick
  BY <1>1, <1>2, TimeAssumption DEF Tick, TypeInv, TypeOK, Times
<1>3. ASSUME NEW s \in Slots, TripStep(s) \/ Fail(s)
      PROVE  Moves
  BY <1>0, <1>1, <1>3
     DEF TripStep, StartTrip, FindRate, FindRates, Select, AnswerLookup, Fail, InsertTrip
<1>4. ASSUME NEW c \in Cards, NEW status \in {"active", "disabled"}, CreateCard(c, status)
      PROVE  Moves
  BY <1>0, <1>4 DEF CreateCard, Moves, Stays, TypeInv, TypeOK
<1>5. ASSUME NEW c \in Cards, NEW status \in {"active", "disabled"}, SetCard(c, status)
      PROVE  Moves
  <2>1. \A r \in Rates : Stays(r)
    BY <1>5 DEF SetCard, Stays, TypeInv, TypeOK
  <2> QED
    BY <1>0, <1>5, <2>1 DEF SetCard, Moves, TypeInv, TypeOK
<1>6. ASSUME NEW r \in Rates, NEW row \in RateRow, CreateRate(r, row)
      PROVE  Moves
  <2>1. \A q \in Rates : Stays(q) \/ Arises(q)
    BY <1>6 DEF CreateRate, Stays, Arises, TypeInv, TypeOK
  <2> QED
    BY <1>0, <1>6, <2>1 DEF CreateRate, Moves
<1>7. ASSUME NEW r \in Rates, NEW row \in RateRow, UpdateRate(r, row)
      PROVE  Moves
  <2>1. \A q \in Rates : Stays(q) \/ Changes(q)
    BY <1>7 DEF UpdateRate, Stays, Changes, TypeInv, TypeOK
  <2> QED
    BY <1>0, <1>7, <2>1 DEF UpdateRate, Moves
<1>8. ASSUME NEW s \in Slots, CloseRate(s)
      PROVE  Moves
  <2>1. PICK r \in Rates : r = req[s].rate /\ Created(r)
    BY <1>8 DEF CloseRate, TypeInv, ServedOf
  <2>2. PICK at : rate' = [rate EXCEPT ![r].to = at] /\ fate' = [fate EXCEPT ![r].closed = now]
    BY <1>8, <2>1 DEF CloseRate
  <2>3. \A q \in Rates : Stays(q) \/ Ends(q)
    BY <2>1, <2>2 DEF Stays, Ends, TypeInv, TypeOK, RateRow
  <2> QED
    BY <1>0, <1>8, <2>3 DEF CloseRate, Moves
<1>9. CASE UNCHANGED vars
  BY <1>0, <1>1, <1>9 DEF vars
<1>10. ASSUME NEW s \in Slots, NEW r \in Rates, StartClose(s, r)
       PROVE  Moves
  BY <1>0, <1>1, <1>10 DEF StartClose
<1>11. CASE PriceStep
  BY <1>4, <1>5, <1>6, <1>7, <1>8, <1>10, <1>11 DEF PriceStep
<1> QED
  BY <1>2, <1>3, <1>9, <1>11 DEF Next

-----------------------------------------------------------------------------
\* The choice of a rate, for a client and a label, begun at a time.

\* The client's own rate, of a card that did not go down before.
FromOwn(r, client, at) ==
    /\ r \in Rates /\ Created(r) /\ ClientOf[rate[r].card] = client
    /\ down[rate[r].card] # None => at <= down[rate[r].card]

\* A rate nothing has happened to since before the time.
Steady(r, client, label, at) ==
    /\ Created(r) /\ ~fate[r].revised /\ ~fate[r].lapsed /\ fate[r].closed = None
    /\ ClientOf[rate[r].card] = client
    /\ label # None => rate[r].label = label
    /\ fate[r].born < at

\* A row that was read tells of its rate what no patch has changed since; of a
\* rate that was closed before it was read, it has the end.
Offered(o, client, at) ==
    /\ FromOwn(o.id, client, at)
    /\ ~fate[o.id].revised => o.from = rate[o.id].from
    /\ fate[o.id].closed # None =>
          (o.to # None /\ o.to <= fate[o.id].closed) \/ at <= fate[o.id].closed

\* The rate chosen up to a later time: the client's own, in its time, and not
\* older than a steady one in force at both times.
Fits(x, client, label, at, n) ==
    /\ x # None =>
          /\ FromOwn(x, client, at)
          /\ ~fate[x].revised => rate[x].from <= n
          /\ fate[x].closed # None => at <= fate[x].closed
    /\ \A r \in Rates :
          Steady(r, client, label, at) /\ Effective(rate[r], at) /\ Effective(rate[r], n) =>
              /\ x # None
              /\ ~fate[x].revised => rate[r].from <= rate[x].from

Choosing(s) == LET q == req[s] IN
    /\ q.pc = "select" =>
          /\ \A o \in q.rows : Offered(o, q.client, q.at)
          /\ \A r \in Rates : Steady(r, q.client, q.label, q.at) => Row(r) \in q.rows
    /\ q.pc = "insert" /\ q.rate = None => Fits(q.found.id, q.client, q.label, q.at, now)

Chose(t) == LET p == trip[t] IN
    Entered(t) /\ ~p.explicit =>
        p.began <= p.created /\ Fits(p.rate, p.client, p.label, p.began, p.created)

ChoiceInv == (\A s \in Slots : Choosing(s)) /\ \A t \in Trips : Chose(t)

\* A rate that is the client's own stays so.
LEMMA OwnKept ==
    ASSUME TypeInv, Moves, NEW r, NEW client, NEW at \in Nat, at <= now,
           FromOwn(r, client, at)
    PROVE  FromOwn(r, client, at)'
<1>1. r \in Rates /\ Created(r) /\ rate[r].card \in Cards
  BY DEF FromOwn, TypeInv, Stocked
<1>2. rate'[r].card = rate[r].card
  BY <1>1 DEF Moves, Stays, Arises, Changes, Ends
<1>3. PICK c \in Cards : c = rate[r].card
  BY <1>1
<1>4. down'[c] # None => at <= down'[c]
  BY <1>3 DEF Moves, FromOwn
<1> QED
  BY <1>1, <1>2, <1>3, <1>4 DEF FromOwn, Created

\* A rate that is steady was so before, with the same row.
LEMMA SteadyBefore ==
    ASSUME TypeInv, Moves, NEW r \in Rates, NEW client, NEW label, NEW at \in Nat,
           at <= now, Steady(r, client, label, at)'
    PROVE  /\ Steady(r, client, label, at)
           /\ rate'[r].from = rate[r].from /\ rate'[r].to = rate[r].to
           /\ Row(r)' = Row(r)
<1>1. now \in Int /\ now # None
  BY TimesAreNumbers, NoneAssumption DEF TypeInv, TypeOK
<1>2. ~Arises(r)
  BY <1>1 DEF Steady, Arises
<1>3. ~Changes(r) /\ ~Ends(r)
  BY <1>1 DEF Steady, Changes, Ends
<1>4. Stays(r)
  BY <1>2, <1>3 DEF Moves
<1> QED
  BY <1>4 DEF Stays, Steady, Created, Row

\* A rate that exists keeps its card, and its beginning unless it is patched.
LEMMA ExistingMoves ==
    ASSUME Moves, NEW r \in Rates, Created(r)
    PROVE  /\ Created(r)' => rate'[r].card = rate[r].card
           /\ ~fate'[r].revised => ~fate[r].revised /\ rate'[r].from = rate[r].from
           /\ fate'[r].closed \in {fate[r].closed, None, now}
BY DEF Moves, Stays, Arises, Changes, Ends

LEMMA FitsKept ==
    ASSUME TypeInv, Moves, NEW x, NEW client, NEW label, NEW at \in Nat, NEW n \in Nat,
           NEW m \in Nat, at <= now, at <= n, n <= m, Fits(x, client, label, at, n)
    PROVE  Fits(x, client, label, at, m)'
<1>1. ASSUME x # None
      PROVE  /\ FromOwn(x, client, at)'
             /\ ~fate'[x].revised => rate'[x].from <= m
             /\ fate'[x].closed # None => at <= fate'[x].closed
  <2>1. x \in Rates /\ Created(x) /\ FromOwn(x, client, at)
    BY <1>1 DEF Fits, FromOwn
  <2>2. rate[x].from \in Nat
    BY <2>1, TimesAreNumbers DEF TypeInv, TypeOK, RateRow
  <2>3. ~fate'[x].revised => rate'[x].from <= m
    <3> SUFFICES ASSUME ~fate'[x].revised PROVE rate'[x].from <= m
      OBVIOUS
    <3>1. rate'[x].from = rate[x].from /\ rate[x].from <= n
      BY <1>1, <2>1, ExistingMoves DEF Fits
    <3> QED
      BY <2>2, <3>1
  <2>4. fate'[x].closed # None => at <= fate'[x].closed
    BY <1>1, <2>1, ExistingMoves DEF Fits
  <2> QED
    BY <2>1, <2>3, <2>4, OwnKept
<1>2. ASSUME NEW r \in Rates, Steady(r, client, label, at)',
             Effective(rate'[r], at), Effective(rate'[r], m)
      PROVE  x # None /\ (~fate'[x].revised => rate'[r].from <= rate'[x].from)
  <2>1. /\ Steady(r, client, label, at)
        /\ rate'[r].from = rate[r].from /\ rate'[r].to = rate[r].to
    BY <1>2, SteadyBefore
  <2>2. rate[r].from \in Nat /\ rate[r].to \in Nat \cup {None}
    BY TimesAreNumbers DEF TypeInv, TypeOK, RateRow
  <2>3. Effective(rate[r], at) /\ Effective(rate[r], n)
    BY <1>2, <2>1, <2>2 DEF Effective
  <2>4. x # None /\ (~fate[x].revised => rate[r].from <= rate[x].from)
    BY <2>1, <2>3 DEF Fits
  <2>5. x \in Rates /\ Created(x)
    BY <2>4 DEF Fits, FromOwn
  <2> QED
    BY <2>1, <2>4, <2>5, ExistingMoves
<1> QED
  BY <1>1, <1>2 DEF Fits

LEMMA OfferedKept ==
    ASSUME TypeInv, Moves, NEW o, NEW client, NEW at \in Nat, at <= now,
           Offered(o, client, at)
    PROVE  Offered(o, client, at)'
<1>1. o.id \in Rates /\ Created(o.id) /\ FromOwn(o.id, client, at)
  BY DEF Offered, FromOwn
<1>2. FromOwn(o.id, client, at)'
  BY <1>1, OwnKept
<1>3. ~fate'[o.id].revised => o.from = rate'[o.id].from
  BY <1>1, ExistingMoves DEF Offered
<1>4. fate'[o.id].closed # None =>
          (o.to # None /\ o.to <= fate'[o.id].closed) \/ at <= fate'[o.id].closed
  BY <1>1, ExistingMoves DEF Offered
<1> QED
  BY <1>2, <1>3, <1>4 DEF Offered

\* Of some rows one begins last.
LEMMA LastExists ==
    ASSUME NEW A, A # {}, \A o \in A : o.from \in Times
    PROVE  \E m \in A : \A o \in A : o.from <= m.from
<1> DEFINE Left == {n \in Nat : \E o \in A : n = MaxTime - o.from}
<1>1. Left \in SUBSET Nat /\ Left # {}
  <2>1. PICK o \in A : o.from \in Times
    OBVIOUS
  <2>2. MaxTime - o.from \in Nat
    BY <2>1, TimeAssumption DEF Times
  <2> QED
    BY <2>2
<1>2. PICK n \in Left : \A k \in Left : <<k, n>> \notin OpToRel(<, Nat)
  <2> HIDE DEF Left
  <2> QED
    BY <1>1, WFMin, NatLessThanWellFounded, Zenon
<1>3. PICK m \in A : n = MaxTime - m.from
  OBVIOUS
<1>4. ASSUME NEW o \in A PROVE o.from <= m.from
  <2>1. o.from \in Nat /\ m.from \in Nat /\ MaxTime - o.from \in Nat /\ MaxTime - m.from \in Nat
    BY TimeAssumption DEF Times
  <2>2. MaxTime - o.from \in Left
    BY <2>1
  <2>3. ~(MaxTime - o.from < n)
    BY <1>2, <2>1, <2>2 DEF OpToRel
  <2> QED
    BY <1>3, <2>1, <2>3, TimeAssumption
<1> QED
  BY <1>4

-----------------------------------------------------------------------------
\* Each action keeps the choices.

\* What a trip was given stays right.
LEMMA TripStays ==
    ASSUME TypeInv, Moves, NEW t \in Trips, trip'[t] = trip[t], Chose(t)
    PROVE  Chose(t)'
<1>1. PICK p \in TripRow : /\ trip[t] = p /\ p.began \in Nat /\ p.created \in Nat
                           /\ p.began <= now
  BY TimesAreNumbers DEF TypeInv, TypeOK, TripRow, Timely
<1>2. ASSUME p.client # None, ~p.explicit
      PROVE  /\ p.began <= p.created
             /\ Fits(p.rate, p.client, p.label, p.began, p.created)'
  <2>1. p.began <= p.created /\ Fits(p.rate, p.client, p.label, p.began, p.created)
    BY <1>1, <1>2 DEF Chose, Entered
  <2>2. p.created <= p.created
    BY <1>1
  <2> QED
    BY <1>1, <2>1, <2>2, FitsKept
<1> QED
  BY <1>1, <1>2 DEF Chose, Entered

\* A choice under way stays right.
LEMMA RequestStays ==
    ASSUME TypeInv, Moves, NEW s \in Slots, req'[s] = req[s], Choosing(s)
    PROVE  Choosing(s)'
<1>1. PICK q \in Request : req[s] = q /\ req'[s] = q /\ q.at \in Nat /\ q.at <= now
  BY TimesAreNumbers DEF TypeInv, TypeOK, ServedOf, Request
<1>2. PICK n \in Nat : now \in Nat /\ now' = n /\ now <= n
  BY TimesAreNumbers DEF TypeInv, TypeOK, Moves
<1>3. ASSUME q.pc = "select"
      PROVE  /\ \A o \in q.rows : Offered(o, q.client, q.at)'
             /\ \A r \in Rates : Steady(r, q.client, q.label, q.at)' => Row(r)' \in q.rows
  <2>1. /\ \A o \in q.rows : Offered(o, q.client, q.at)
        /\ \A r \in Rates : Steady(r, q.client, q.label, q.at) => Row(r) \in q.rows
    BY <1>1, <1>3 DEF Choosing
  <2>2. \A o \in q.rows : Offered(o, q.client, q.at)'
    BY <1>1, <2>1, OfferedKept
  <2>3. ASSUME NEW r \in Rates, Steady(r, q.client, q.label, q.at)'
        PROVE  Row(r)' \in q.rows
    BY <1>1, <2>1, <2>3, SteadyBefore
  <2> QED
    BY <2>2, <2>3
<1>4. ASSUME q.pc = "insert", q.rate = None
      PROVE  Fits(q.found.id, q.client, q.label, q.at, n)'
  <2>1. Fits(q.found.id, q.client, q.label, q.at, now)
    BY <1>1, <1>4 DEF Choosing
  <2> QED
    BY <1>1, <1>2, <2>1, FitsKept
<1> QED
  BY <1>1, <1>2, <1>3, <1>4 DEF Choosing, Fits, Effective

\* What is read of the rates in force is an offer, and every steady rate is
\* among them.
LEMMA FindRatesChooses ==
    ASSUME TypeInv, NEW s \in Slots, FindRates(s)
    PROVE  Choosing(s)'
<1>1. PICK q \in Request : req[s] = q /\ q.at \in Nat /\ q.at <= now
  BY TimesAreNumbers DEF TypeInv, TypeOK, ServedOf, Request
<1>2. PICK R : R = {Row(r) : r \in RatesFor(q.client, q.label)}
  OBVIOUS
<1>3. /\ req'[s].pc = "select" /\ req'[s].rows = R /\ req'[s].client = q.client
      /\ req'[s].label = q.label /\ req'[s].at = q.at
  BY <1>1, <1>2 DEF FindRates, TypeInv, TypeOK, Request
<1>4. ASSUME NEW r \in RatesFor(q.client, q.label) PROVE Offered(Row(r), q.client, q.at)
  <2>1. /\ r \in Rates /\ Created(r) /\ rate[r].card \in Cards
        /\ ClientOf[rate[r].card] = q.client /\ card[rate[r].card] = "active"
    BY DEF RatesFor, TypeInv, Stocked
  <2>2. down[rate[r].card] = None
    BY <2>1 DEF TypeInv, Timely
  <2>3. fate[r].closed # None => rate[r].to # None /\ rate[r].to <= fate[r].closed
    BY <2>1 DEF TypeInv, Timely
  <2> QED
    BY <2>1, <2>2, <2>3 DEF Offered, FromOwn, Row
<1>5. ASSUME NEW r \in Rates, Steady(r, q.client, q.label, q.at)
      PROVE  r \in RatesFor(q.client, q.label)
  BY <1>5 DEF Steady, RatesFor, TypeInv, Timely
<1>6. UNCHANGED <<card, rate, trip, now, fate, down>>
  BY DEF FindRates
<1>7. /\ \A o \in R : Offered(o, q.client, q.at)
      /\ \A r \in Rates : Steady(r, q.client, q.label, q.at) => Row(r) \in R
  BY <1>2, <1>4, <1>5
<1> QED
  BY <1>3, <1>6, <1>7 DEF Choosing, Offered, FromOwn, Steady, Row, Created

\* The latest to begin of the rows in force fits now; without one, none.
LEMMA SelectFits ==
    ASSUME TypeInv, NEW s \in Slots, Choosing(s), req[s].pc = "select", NEW found,
           LET best == selectEffectiveRate(req[s].rows, now)
           IN  found \in IF best = {} THEN {NoOffer} ELSE best
    PROVE  Fits(found.id, req[s].client, req[s].label, req[s].at, now)
<1>1. PICK q \in Request : req[s] = q /\ q.at \in Nat /\ q.at <= now
  BY TimesAreNumbers DEF TypeInv, TypeOK, ServedOf, Request
<1>2. now \in Nat
  BY TimesAreNumbers DEF TypeInv, TypeOK
<1>3. \A o \in q.rows : o.from \in Nat /\ o.to \in Nat \cup {None}
  BY TimesAreNumbers DEF Request, Offer
<1>4. PICK A : A = {o \in q.rows : Effective(o, now)}
  OBVIOUS
<1>5. /\ \A o \in q.rows : Offered(o, q.client, q.at)
      /\ \A r \in Rates : Steady(r, q.client, q.label, q.at) => Row(r) \in q.rows
  BY <1>1 DEF Choosing
<1>6. ASSUME NEW r \in Rates, Steady(r, q.client, q.label, q.at), Effective(rate[r], now)
      PROVE  Row(r) \in A /\ Row(r).from = rate[r].from
  BY <1>4, <1>5, <1>6 DEF Row, Effective
<1>7. CASE A = {}
  <2>1. found = NoOffer
    BY <1>1, <1>4, <1>7 DEF selectEffectiveRate
  <2>2. found.id = None
    BY <2>1 DEF NoOffer
  <2> QED
    BY <1>1, <1>6, <1>7, <2>2 DEF Fits
<1>8. CASE A # {}
  <2>1. \E m \in A : \A o \in A : o.from <= m.from
    BY <1>4, <1>8, LastExists DEF Request, Offer
  <2>2. found \in A /\ \A o \in A : o.from <= found.from
    BY <1>1, <1>4, <2>1 DEF selectEffectiveRate
  <2>3. Offered(found, q.client, q.at) /\ found.from <= now
        /\ (found.to # None => found.to >= now)
    BY <1>4, <1>5, <2>2 DEF Effective
  <2>4. FromOwn(found.id, q.client, q.at) /\ found.id # None
    BY <2>3, NoneAssumption DEF Offered, FromOwn
  <2>5. ~fate[found.id].revised => rate[found.id].from = found.from
    BY <2>3 DEF Offered
  <2>6. fate[found.id].closed # None => q.at <= fate[found.id].closed
    <3> SUFFICES ASSUME fate[found.id].closed # None, found.to # None,
                        found.to <= fate[found.id].closed
                 PROVE  q.at <= fate[found.id].closed
      BY <2>3 DEF Offered
    <3>1. fate[found.id].closed \in Nat /\ found.to \in Nat
      BY <1>3, <1>4, <2>2, <2>4, TimesAreNumbers DEF FromOwn, TypeInv, TypeOK
    <3> QED
      BY <1>1, <1>2, <2>3, <3>1
  <2>7. \A r \in Rates : Steady(r, q.client, q.label, q.at) /\ Effective(rate[r], now) =>
            rate[r].from <= found.from
    BY <1>6, <2>2
  <2> QED
    BY <1>1, <2>3, <2>4, <2>5, <2>6, <2>7 DEF Fits
<1> QED
  BY <1>7, <1>8

\* A request that is not choosing.
LEMMA NotChoosing ==
    ASSUME NEW s \in Slots,
           \/ req'[s].pc \notin {"select", "insert"}
           \/ req'[s].pc = "insert" /\ req'[s].rate # None
    PROVE  Choosing(s)'
BY DEF Choosing

\* A step of one request that creates no trip.
LEMMA RequestStep ==
    ASSUME TypeInv, ChoiceInv, Moves, NEW s \in Slots, Choosing(s)',
           \A x \in Slots \ {s} : req'[x] = req[x], trip' = trip
    PROVE  ChoiceInv'
BY RequestStays, TripStays DEF ChoiceInv

LEMMA FindRateChooses ==
    ASSUME TypeInv, NEW s \in Slots, FindRate(s)
    PROVE  Choosing(s)'
<1>1. CASE Created(req[s].rate)
  <2>1. req'[s].pc = "insert" /\ req'[s].rate = req[s].rate
    BY <1>1 DEF FindRate, TypeInv, TypeOK, Request
  <2> QED
    BY <2>1, NotChoosing DEF FindRate
<1>2. CASE ~Created(req[s].rate)
  <2>1. req'[s] = Idle
    BY <1>2 DEF FindRate, TypeInv, TypeOK
  <2> QED
    BY <2>1, IdleTyped, NotChoosing
<1> QED
  BY <1>1, <1>2

LEMMA SelectChooses ==
    ASSUME TypeInv, NEW s \in Slots, Choosing(s), Select(s)
    PROVE  Choosing(s)'
<1>1. PICK found :
          /\ LET best == selectEffectiveRate(req[s].rows, now)
             IN  found \in IF best = {} THEN {NoOffer} ELSE best
          /\ req' = [req EXCEPT ![s].pc = "insert", ![s].rows = {}, ![s].found = found]
  BY DEF Select
<1>2. Fits(found.id, req[s].client, req[s].label, req[s].at, now)
  BY <1>1, SelectFits DEF Select
<1>3. /\ req'[s].pc = "insert" /\ req'[s].found = found /\ req'[s].client = req[s].client
      /\ req'[s].label = req[s].label /\ req'[s].at = req[s].at
  BY <1>1 DEF TypeInv, TypeOK, Request
<1>4. UNCHANGED <<card, rate, trip, now, fate, down>>
  BY DEF Select
<1> QED
  BY <1>2, <1>3, <1>4 DEF Choosing, Fits, FromOwn, Steady, Created, Effective

\* The trip that is created has the rate that was chosen.
LEMMA InsertChooses ==
    ASSUME TypeInv, ChoiceInv, NEW s \in Slots, NEW t \in Trips, InsertTrip(s, t)
    PROVE  Chose(t)'
<1>1. PICK q \in Request : req[s] = q /\ q.at <= now
  BY DEF TypeInv, TypeOK, ServedOf
<1>2. /\ trip'[t].client = q.client /\ trip'[t].label = q.label
      /\ trip'[t].rate = q.found.id /\ trip'[t].explicit = (q.rate # None)
      /\ trip'[t].began = q.at /\ trip'[t].created = now
  BY <1>1, TripInserted
<1>3. q.rate = None => Fits(q.found.id, q.client, q.label, q.at, now)
  BY <1>1 DEF ChoiceInv, Choosing, InsertTrip
<1>4. UNCHANGED <<card, rate, now, fate, down>>
  BY DEF InsertTrip
<1> QED
  BY <1>1, <1>2, <1>3, <1>4 DEF Chose, Fits, FromOwn, Steady, Created, Effective

LEMMA ChoiceKept ==
    ASSUME TypeInv, ChoiceInv, [Next]_vars
    PROVE  ChoiceInv'
<1>0. Moves
  BY StepMoves
<1>1. ASSUME UNCHANGED <<trip, req>> PROVE ChoiceInv'
  BY <1>0, <1>1, RequestStays, TripStays DEF ChoiceInv
<1>2. ASSUME NEW s \in Slots, Return(s) PROVE
          Choosing(s)' /\ \A x \in Slots \ {s} : req'[x] = req[x]
  <2>1. req'[s] = Idle /\ \A x \in Slots \ {s} : req'[x] = req[x]
    BY <1>2 DEF Return, TypeInv, TypeOK
  <2> QED
    BY <2>1, IdleTyped, NotChoosing
<1>3. ASSUME NEW s \in Slots, NEW r \in Rates, StartClose(s, r) PROVE ChoiceInv'
  <2>1. req'[s].pc = "close" /\ \A x \in Slots \ {s} : req'[x] = req[x]
    BY <1>3 DEF StartClose, Idle, TypeInv, TypeOK
  <2> QED
    BY <1>0, <1>3, <2>1, NotChoosing, RequestStep DEF StartClose
<1>4. CASE Tick \/ PriceStep
  <2>1. ASSUME NEW s \in Slots, CloseRate(s) PROVE ChoiceInv'
    BY <1>0, <1>2, <2>1, RequestStep DEF CloseRate
  <2> QED
    BY <1>1, <1>3, <1>4, <2>1
       DEF Tick, PriceStep, CreateCard, SetCard, CreateRate, UpdateRate
<1>5. ASSUME NEW s \in Slots, TripStep(s) \/ Fail(s) PROVE ChoiceInv'
  <2>1. ASSUME NEW client \in Clients, NEW label \in Labels \cup {None},
               NEW asked \in Overrides, NEW r \in Rates \cup {None},
               StartTrip(s, client, label, asked, r)
        PROVE  ChoiceInv'
    <3>1. req'[s].pc = "find" /\ \A x \in Slots \ {s} : req'[x] = req[x]
      BY <2>1 DEF StartTrip, Idle, TypeInv, TypeOK
    <3> QED
      BY <1>0, <2>1, <3>1, NotChoosing, RequestStep DEF StartTrip
  <2>2. CASE FindRate(s) \/ FindRates(s) \/ Select(s)
    <3>1. \A x \in Slots \ {s} : req'[x] = req[x]
      BY <2>2 DEF FindRate, FindRates, Select, TypeInv, TypeOK
    <3>2. Choosing(s)'
      BY <2>2, FindRateChooses, FindRatesChooses, SelectChooses DEF ChoiceInv
    <3> QED
      BY <1>0, <2>2, <3>1, <3>2, RequestStep DEF FindRate, FindRates, Select
  <2>3. CASE AnswerLookup(s) \/ Fail(s)
    BY <1>0, <1>2, <2>3, RequestStep DEF AnswerLookup, Fail
  <2>4. ASSUME NEW t \in Trips, InsertTrip(s, t) PROVE ChoiceInv'
    <3>1. Choosing(s)' /\ \A x \in Slots \ {s} : req'[x] = req[x]
      BY <1>2, <2>4 DEF InsertTrip
    <3>2. Chose(t)' /\ \A x \in Trips \ {t} : trip'[x] = trip[x]
      BY <2>4, InsertChooses, TripInserted
    <3> QED
      BY <1>0, <3>1, <3>2, RequestStays, TripStays DEF ChoiceInv
  <2> QED
    BY <1>5, <2>1, <2>2, <2>3, <2>4 DEF TripStep
<1>6. CASE UNCHANGED vars
  BY <1>1, <1>6 DEF vars
<1> QED
  BY <1>4, <1>5, <1>6 DEF Next

LEMMA ChoiceInvCorrect == Spec => []ChoiceInv
<1>1. Init => ChoiceInv
  BY IdleTyped DEF Init, ChoiceInv, Choosing, Chose, Entered, NoTrip
<1>2. TypeInv /\ ChoiceInv /\ [Next]_vars => ChoiceInv'
  BY ChoiceKept
<1> QED
  BY <1>1, <1>2, TypeInvCorrect, PTL DEF Spec

\* A trip whose rate was looked up has a rate of its client's own cards, and of
\* none that went down before the trip was begun (pricing.service.ts,
\* findEffectiveRate), however the cards are switched meanwhile.
THEOREM CardsOwned == Spec => []OwnCard
<1>1. ChoiceInv => OwnCard
  BY DEF ChoiceInv, Chose, Chosen, Priced, OwnCard, Fits, FromOwn
<1> QED
  BY <1>1, ChoiceInvCorrect, PTL

\* No trip has a rate that begins after the trip is created, or that was closed
\* before the trip was begun (rate-selection.ts, selectEffectiveRate).
THEOREM WindowsKept == Spec => []InItsTime
<1>1. ChoiceInv => InItsTime
  BY DEF ChoiceInv, Chose, Chosen, Priced, InItsTime, Fits
<1> QED
  BY <1>1, ChoiceInvCorrect, PTL

\* A newer rate supersedes an older one it overlaps, and no trip goes without a
\* price while a rate is in force (rate-selection.ts, selectEffectiveRate).
THEOREM NewestChosen == Spec => []Supersedes
<1>1. ChoiceInv => Supersedes
  BY DEF ChoiceInv, Chose, Chosen, Supersedes, InForceFor, Fits, Steady
<1> QED
  BY <1>1, ChoiceInvCorrect, PTL
=============================================================================
