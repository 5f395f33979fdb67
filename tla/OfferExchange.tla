--------------------------- MODULE OfferExchange ---------------------------
(***************************************************************************)
(* The entries of the ledger that operations work on, and how an amount of *)
(* one asset is exchanged for another one by crossing offers.              *)
(*                                                                         *)
(* Models OfferExchange.cpp, the arithmetic of types.cpp, the balances and *)
(* subentries of AccountFrame.cpp and TrustFrame.cpp and the order book of *)
(* OfferFrame.cpp, for protocol version 9.  A ledger s is a record:        *)
(*   accounts  a partial function from account ids to balance, number of   *)
(*             subentries, signers, names of data entries, flags and       *)
(*             inflation destination                                       *)
(*   lines     a partial function from <<account, credit>> to trust lines  *)
(*   offers    the set of offers                                           *)
(*   header    totalCoins, feePool, idPool and baseReserve                 *)
(*   issued    per credit, what went out of its issuer and did not return; *)
(*             the code does not count it                                  *)
(*   code      how the operation went so far                               *)
(*   fair      whether every seller got the price of the offer so far      *)
(***************************************************************************)
EXTENDS Integers, Sequences, FiniteSetsExt, SequencesExt, Functions, TLC

CONSTANTS Native,     \* the asset that is the ledger's own
          Issuer,     \* function: credits to accounts that issue them
          INT64_MAX   \* bound: the largest amount

Credit == DOMAIN Issuer

(***************************************************************************)
(* Arithmetic.  bigDivide computes with 128 bits; its callers take         *)
(* INT64_MAX for a result that is larger.                                  *)
(***************************************************************************)
Least(x, y) == IF x < y THEN x ELSE y
Capped(x)   == Least(x, INT64_MAX)

divideDown(x, y, z) == (x * y) \div z
divideUp(x, y, z)   == (x * y + z - 1) \div z

Price(n, d)     == [n |-> n, d |-> d]
dearer(p, q)    == p.n * q.d > p.d * q.n
asDear(p, q)    == p.n * q.d >= p.d * q.n

(***************************************************************************)
(* Accounts and trust lines                                                *)
(***************************************************************************)
exists(s, a) == a \in DOMAIN s.accounts

failed(s, code) == [s EXCEPT !.code = code]

getMinBalance(s, count) == (2 + count) * s.header.baseReserve

\* getBalanceAboveReserve of an account with count subentries.
getBalanceAboveReserve(s, a, count) ==
    Max({0, s.accounts[a].balance - getMinBalance(s, count)})

canAddEntry(s, a) ==
    s.accounts[a].balance >= getMinBalance(s, s.accounts[a].subs + 1)

\* addNumEntries; the caller has tested canAddEntry for a positive count.
addNumEntries(s, a, count) ==
    IF s.accounts[a].subs + count < 0 THEN failed(s, "invalid account state")
    ELSE [s EXCEPT !.accounts[a].subs = @ + count]

\* loadTrustLine: the issuer of a credit has a line without limits, which
\* is never stored.
NoLine == [balance |-> 0, limit |-> -1, authorized |-> FALSE]

loadTrustLine(s, a, c) ==
    IF Issuer[c] = a
    THEN [balance |-> INT64_MAX, limit |-> INT64_MAX, authorized |-> TRUE]
    ELSE IF <<a, c>> \in DOMAIN s.lines THEN s.lines[<<a, c>>] ELSE NoLine

getMaxAmountReceive(s, a, c) ==
    LET line == loadTrustLine(s, a, c)
    IN  IF Issuer[c] = a THEN INT64_MAX
        ELSE IF line.authorized THEN line.limit - line.balance ELSE 0

\* Whether addBalance of an account, or of its line, succeeds.
canAddBalance(s, a, asset, delta) ==
    IF asset = Native THEN s.accounts[a].balance + delta \in 0 .. INT64_MAX
    ELSE LET line == loadTrustLine(s, a, asset)
         IN  \/ Issuer[asset] = a \/ delta = 0
             \/ line.authorized /\ line.balance + delta \in 0 .. line.limit

addBalance(s, a, asset, delta) ==
    IF asset = Native THEN [s EXCEPT !.accounts[a].balance = @ + delta]
    ELSE IF Issuer[asset] = a THEN [s EXCEPT !.issued[asset] = @ - delta]
    ELSE IF delta = 0 THEN s
    ELSE [s EXCEPT !.lines[<<a, asset>>].balance = @ + delta]

(***************************************************************************)
(* Offers                                                                  *)
(***************************************************************************)
removeOffer(s, o) ==
    addNumEntries([s EXCEPT !.offers = @ \ {o}], o.seller, -1)

\* loadBestOffers.  The loop of convertWithOffers reads five offers at a
\* time, from an offset that counts the ones it passed and left there: all
\* in all it goes through the offers in this order.
loadBestOffers(s, selling, buying) ==
    SetToSortSeq({o \in s.offers : o.selling = selling /\ o.buying = buying},
                 LAMBDA o, p : IF asDear(o.price, p.price) /\ asDear(p.price, o.price)
                               THEN o.id < p.id ELSE dearer(p.price, o.price))

\* How much wheat the seller's line for sheep leaves room for.
canBuyAtMost(s, a, sheep, price) ==
    IF sheep = Native THEN INT64_MAX
    ELSE Capped(divideDown(getMaxAmountReceive(s, a, sheep), price.d, price.n))

\* Wrong: a line that is no longer authorized can still sell.
canSellAll(s, a, wheat) ==
    IF wheat = Native THEN getBalanceAboveReserve(s, a, s.accounts[a].subs)
    ELSE loadTrustLine(s, a, wheat).balance

canSellAtMost(s, a, wheat) ==
    IF wheat = Native THEN getBalanceAboveReserve(s, a, s.accounts[a].subs)
    ELSE LET line == loadTrustLine(s, a, wheat)
         IN  IF line.authorized THEN line.balance ELSE 0

\* Wrong: what the buyer pays is rounded down.
exchangeDown(offered, price, maxWheat, maxSheep) ==
    LET wheat == Least(offered, maxWheat)
        asked == divideDown(wheat, price.n, price.d)
    IN  [wheat   |-> wheat,
         sheep   |-> Least(asked, maxSheep),
         reduced |-> offered > maxWheat \/ asked > maxSheep]

\* exchangeV3.  The buyer pays the price of the wheat, rounded up, and gets
\* the wheat that the sheep pay for, rounded down.
exchangeV3(offered, price, maxWheat, maxSheep) ==
    LET wheat == Least(offered, maxWheat)
        asked == divideUp(wheat, price.n, price.d)
        sheep == Least(asked, maxSheep)
    IN  [wheat   |-> Least(wheat, Capped(divideDown(sheep, price.d, price.n))),
         sheep   |-> sheep,
         reduced |-> offered > maxWheat \/ asked > maxSheep]

(***************************************************************************)
(* crossOffer: the state, whether the offer was "taken", is left in part   *)
(* or could not be converted, and the amounts.                             *)
(***************************************************************************)
Crossed(s, result, wheat, sheep) ==
    [s |-> s, result |-> result, wheat |-> wheat, sheep |-> sheep]

\* The seller gets sheep and gives wheat.  An addition that fails leaves
\* what was stored before it.
adjustBalances(s, o, result, wheat, sheep) ==
    LET paid == addBalance(s, o.seller, o.buying, sheep)
    IN  IF ~canAddBalance(s, o.seller, o.buying, sheep)
        THEN Crossed(s, "cantConvert", wheat, sheep)
        ELSE IF ~canAddBalance(paid, o.seller, o.selling, -wheat)
        THEN Crossed(paid, "cantConvert", wheat, sheep)
        ELSE Crossed([addBalance(paid, o.seller, o.selling, -wheat)
                        EXCEPT !.fair = @ /\ sheep * o.price.d >= wheat * o.price.n],
                     result, wheat, sheep)

\* What the seller can still sell of an offer.
offered(s, o) ==
    Min({canBuyAtMost(s, o.seller, o.buying, o.price),
         canSellAtMost(s, o.seller, o.selling), o.amount})

\* The exchange x of an offer that is worth amount.  One that comes to
\* nothing means that the buyer wants too little, or that the offer is bogus.
exchange(s, o, amount, x) ==
    IF x.wheat = 0 \/ x.sheep = 0
    THEN IF x.reduced THEN Crossed(s, "cantConvert", x.wheat, x.sheep)
         ELSE Crossed(removeOffer(s, o), "taken", 0, 0)
    ELSE IF amount <= x.wheat
    THEN adjustBalances(removeOffer(s, o), o, "taken", x.wheat, x.sheep)
    ELSE adjustBalances([s EXCEPT !.offers = (@ \ {o})
                                     \cup {[o EXCEPT !.amount = amount - x.wheat]}],
                        o, "left", x.wheat, x.sheep)

crossOffer(s, o, maxWheat, maxSheep) ==
    IF ~exists(s, o.seller)
    THEN Crossed(failed(s, "offer must have matching account"), "cantConvert", 0, 0)
    ELSE exchange(s, o, offered(s, o),
                  exchangeV3(offered(s, o), o.price, maxWheat, maxSheep))

(***************************************************************************)
(* convertWithOffers.  A filter f has the account that converts, the id of *)
(* its own offer, which is passed over, and the highest price it takes.    *)
(***************************************************************************)
AnyPrice == Price(1, 0)

\* Wrong: an account takes its own offers.
filterNoSelf(f, o) ==
    IF o.id = f.id THEN "skip"
    ELSE IF dearer(o.price, f.limit) \/ (f.passive /\ asDear(o.price, f.limit)) THEN "stop"
    ELSE "keep"

filter(f, o) ==
    IF o.id = f.id THEN "skip"
    ELSE IF dearer(o.price, f.limit) \/ (f.passive /\ asDear(o.price, f.limit)) THEN "stop"
    ELSE IF o.seller = f.source THEN "self"
    ELSE "keep"

\* The totals r after an offer was crossed with the outcome x.
addCrossed(r, x) ==
    IF x.result = "cantConvert" THEN [r EXCEPT !.s = x.s, !.result = "partial"]
    ELSE [r EXCEPT !.s = x.s,
                   !.sheep = @ + x.sheep, !.maxSheep = @ - x.sheep,
                   !.wheat = @ + x.wheat, !.maxWheat = @ - x.wheat,
                   !.result = IF x.result = "left" /\ r.maxWheat > x.wheat
                                                  /\ r.maxSheep > x.sheep
                              THEN "partial" ELSE @]

takeOffer(r, o, verdict) ==
    IF verdict = "skip" THEN r
    ELSE IF verdict = "keep" THEN addCrossed(r, crossOffer(r.s, o, r.maxWheat, r.maxSheep))
    ELSE [r EXCEPT !.result = verdict]

RECURSIVE takeOffers(_, _, _)
takeOffers(r, offers, f) ==
    IF r.maxWheat = 0 \/ r.maxSheep = 0 \/ r.result # "ok" \/ offers = <<>> THEN r
    ELSE takeOffers(takeOffer(r, Head(offers), filter(f, Head(offers))), Tail(offers), f)

convertWithOffers(s, sheep, maxSheep, wheat, maxWheat, f) ==
    takeOffers([s |-> s, sheep |-> 0, wheat |-> 0, maxSheep |-> maxSheep,
                maxWheat |-> maxWheat, result |-> "ok"],
               loadBestOffers(s, wheat, sheep), f)
=============================================================================
