------------------------------- MODULE CostModel -------------------------------
(***************************************************************************)
(* What a placement costs (laxity-core cost.rs): a term for every           *)
(* coefficient whose object is in the region its requester touches, and a   *)
(* quiet charge for every region occupied.  A count of transactions is the  *)
(* rate times the window, in units of the clock.                            *)
(***************************************************************************)
EXTENDS Characterisation

Attached(placements, c) == FirstOf(placements, LAMBDA p : p.name = c.key.object)
Endpoint(requesters, c) ==
  FirstOf(requesters, LAMBDA r : r.name = c.key.requester /\ r.endpoint = c.key.endpoint)

\* a number is formed only where both the rate and the coefficient are numbers
Times(end, transactions) ==
  IF end = Nothing \/ transactions = Nothing THEN Nothing ELSE end * transactions

Priced(terms) == {i \in DOMAIN terms : terms[i].high # Nothing}
unpriced(cost) == Cardinality(DOMAIN cost.terms \ Priced(cost.terms))
is_point_estimate(cost) == cost.low = cost.high

Totalled(terms) ==
  [terms |-> terms,
   low |-> SumFunction([i \in Priced(terms) |-> terms[i].low]),
   high |-> SumFunction([i \in Priced(terms) |-> terms[i].high])]

\* the terms of one coefficient: one, if its object touches its requester's region
TermsOf(c, placement, requester, regions, window) ==
  LET transactions == Times(requester.transactions_per_second, window)
  IN  IF requester.region \notin ToSet(Regions(placement, regions)) THEN <<>>
      ELSE <<[key |-> c.key, region |-> requester.region, basis |-> c.basis.basis,
              low |-> Times(c.basis.low, transactions),
              high |-> Times(c.basis.high, transactions)]>>

cost(placements, requesters, coefficients, profile, window) ==
  IF window = 0 \/ profile.clock_hz = 0 THEN Refused("window")
  ELSE IF \E c \in ToSet(coefficients) :
            Attached(placements, c) = Nothing \/ Endpoint(requesters, c) = Nothing
    THEN Refused("undeclared")
  ELSE Ok(Totalled(FlattenSeq(
         [i \in DOMAIN coefficients |->
            LET c == coefficients[i] IN
            TermsOf(c, Attached(placements, c), Endpoint(requesters, c), profile.regions, window)])))

quiet_cost(placements, characterisation, profile, victim) ==
  LET ids == Ascending(occupied_regions(placements, profile.regions))
      Charge(id) == quiet_charge(characterisation,
                                 FirstOf(profile.regions, LAMBDA r : r.id = id).name, victim)
  IN  IF \E i \in DOMAIN ids : Charge(ids[i]) = Nothing THEN Refused("quiet")
      ELSE Ok(Totalled([i \in DOMAIN ids |->
             [region |-> ids[i], low |-> Charge(ids[i]).basis.low,
              high |-> Charge(ids[i]).basis.high]]))

\* mutant: the coefficients of the other objects are not left out
CandidateAmongAll(object, bytes, region, profile, characterisation, work) ==
  LET here == <<[name |-> object, addr |-> region.base, bytes |-> bytes]>>
  IN  IF bytes > region.bytes THEN Refused("does not fit")
      ELSE IF \A r \in ToSet(work.requesters) : r.region # region.id THEN Refused("nothing to load")
      ELSE cost(here, work.requesters, characterisation.coefficients, profile, work.window)

\* one object, at run time placed, at the base of one region: its price there or why there is none
candidate(object, bytes, region, profile, characterisation, work) ==
  LET here == <<[name |-> object, addr |-> region.base, bytes |-> bytes]>>
      mine == Selected(characterisation.coefficients, LAMBDA c : c.key.object = object)
  IN  IF bytes > region.bytes THEN Refused("does not fit")
      ELSE IF \A r \in ToSet(work.requesters) : r.region # region.id THEN Refused("nothing to load")
      ELSE cost(here, work.requesters, mine, profile, work.window)

\* what the report calls the total
Verdict(cost_) ==
  CASE cost_.terms = <<>> -> "no overlap priced"
    [] cost_.terms # <<>> /\ unpriced(cost_) = 0 /\ is_point_estimate(cost_) -> "measured"
    [] cost_.terms # <<>> /\ unpriced(cost_) = 0 /\ ~is_point_estimate(cost_) -> "a range"
    [] OTHER -> "at least"
=============================================================================
