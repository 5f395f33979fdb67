----------------------------- MODULE Operations -----------------------------
(***************************************************************************)
(* What the operations of transactions do to accounts, trust lines and     *)
(* offers.                                                                 *)
(*                                                                         *)
(* Models doApply and doCheckValid of the operation frames of              *)
(* transactions/, the fee of processFeeSeqNum, removeAccountSigner and the *)
(* upgrade of the reserve, for protocol version 9.  A transaction has one  *)
(* operation, whose source need not be the one who pays the fee: one that  *)
(* fails leaves the ledger as it was, one that throws is reported as       *)
(* txINTERNAL_ERROR.  Left out: signatures, thresholds, home domains, the  *)
(* values of data entries, the limits on signers and on inflation winners, *)
(* the time of inflation, and sequence numbers (TxQueue).                  *)
(***************************************************************************)
EXTENDS OfferExchange

CONSTANTS Account,     \* account ids
          Signers,     \* keys that may sign for an account
          DataNames,   \* names of data entries
          Markets,     \* pairs of different assets <<selling, buying>>
          Offering,    \* amounts of offers
          Asking,      \* prices of offers
          Paying,      \* amounts of payments and starting balances
          Limiting,    \* limits of trust lines, 0 included
          Options,     \* [dest, clear, set, add, remove]: setOptions
          Paths,       \* [send, path, dest]: assets of a path payment
          Reserves,    \* base reserves that upgrades choose from
          VoteMin,     \* the least balance that counts as votes
          Rate,        \* inflation: a fraction [n, d] of the coins
          WinMin,      \* the fraction of all coins that a winner needs
          Fees,        \* fees of transactions
          Ledgers      \* ledgers that behaviours start from; the field left
                       \* bounds the operations that succeed

VARIABLE lg

NewAccount(balance) ==
    [balance |-> balance, subs |-> 0, signers |-> {}, data |-> {}, flags |-> {},
     dest |-> "none"]

succeeded(s) == s.code = "success"

(***************************************************************************)
(* Manage offer, create passive offer                                      *)
(***************************************************************************)

\* checkOfferValid: the source may sell sheep and hold wheat.
checkOfferValid(s, a, op) ==
    \/ op.amount = 0
    \/ /\ op.selling # Native =>
            LET line == loadTrustLine(s, a, op.selling)
            IN  exists(s, Issuer[op.selling]) /\ line.balance > 0 /\ line.authorized
       /\ op.buying # Native =>
            exists(s, Issuer[op.buying]) /\ loadTrustLine(s, a, op.buying).authorized

\* The sheep that the source can sell.  A new offer will be a subentry.
maxSheepCanSell(s, a, op) ==
    IF op.selling = Native
    THEN getBalanceAboveReserve(s, a, s.accounts[a].subs + IF op.id = 0 THEN 1 ELSE 0)
    ELSE loadTrustLine(s, a, op.selling).balance

maxWheatCanBuy(s, a, op) ==
    IF op.buying = Native THEN INT64_MAX ELSE getMaxAmountReceive(s, a, op.buying)

\* mSourceAccount and the two lines were loaded before the offers were
\* crossed, and are written back afterwards.  (The code writes those that it
\* changes; crossing leaves the others alone, as offers of the source stop it.)
withLoaded(s, old, a, op) ==
    LET mine == {<<a, op.selling>>, <<a, op.buying>>} \cap DOMAIN old.lines
    IN  [s EXCEPT !.accounts[a] = old.accounts[a],
                  !.lines = Restrict(old.lines, mine) @@ @]

\* What the source gets and gives for the offers it crossed.
settle(s, a, op, wheat, sheep) ==
    LET bought == addBalance(s, a, op.buying, wheat)
    IN  IF wheat = 0 THEN s
        ELSE IF ~canAddBalance(s, a, op.buying, wheat)
        THEN failed(s, "offer claimed over limit")
        ELSE IF ~canAddBalance(bought, a, op.selling, -sheep)
        THEN failed(s, "offer sold more than balance")
        ELSE addBalance(bought, a, op.selling, -sheep)

\* Wrong: the reserve is not checked again before a new offer is added.
storeOfferUnchecked(s, a, op, passive, amount) ==
    LET id    == IF op.id = 0 THEN s.header.idPool + 1 ELSE op.id
        offer == [id |-> id, seller |-> a, selling |-> op.selling, buying |-> op.buying,
                  amount |-> amount, price |-> op.price, passive |-> passive]
        mine  == {o \in s.offers : o.id = op.id}
    IN  IF ~succeeded(s) THEN s
        ELSE IF amount > 0 /\ op.id = 0
        THEN addNumEntries([s EXCEPT !.offers = @ \cup {offer}, !.header.idPool = id], a, 1)
        ELSE IF amount > 0 THEN [s EXCEPT !.offers = (@ \ mine) \cup {offer}]
        ELSE IF op.id = 0 THEN s
        ELSE addNumEntries([s EXCEPT !.offers = @ \ mine], a, -1)

\* The offer with what is left to sell is added, changed or deleted.
storeOffer(s, a, op, passive, amount) ==
    LET id    == IF op.id = 0 THEN s.header.idPool + 1 ELSE op.id
        offer == [id |-> id, seller |-> a, selling |-> op.selling, buying |-> op.buying,
                  amount |-> amount, price |-> op.price, passive |-> passive]
        mine  == {o \in s.offers : o.id = op.id}
    IN  IF ~succeeded(s) THEN s
        ELSE IF amount > 0 /\ op.id = 0
        THEN IF canAddEntry(s, a)
             THEN addNumEntries([s EXCEPT !.offers = @ \cup {offer}, !.header.idPool = id],
                                a, 1)
             ELSE failed(s, "low reserve")
        ELSE IF amount > 0 THEN [s EXCEPT !.offers = (@ \ mine) \cup {offer}]
        ELSE IF op.id = 0 THEN s
        ELSE addNumEntries([s EXCEPT !.offers = @ \ mine], a, -1)

\* The outcome r of crossing the book, and what is left of maxSheep.
afterCrossing(s, a, op, passive, maxSheep, r) ==
    IF ~succeeded(r.s) THEN r.s
    ELSE IF r.result = "self" THEN failed(s, "cross self")
    ELSE storeOffer(settle(withLoaded(r.s, s, a, op), a, op, r.wheat, r.sheep),
                    a, op, passive, maxSheep - r.sheep)

crossBook(s, a, op, passive, maxSheep, maxWheat) ==
    afterCrossing(s, a, op, passive, maxSheep,
        convertWithOffers(s, op.selling, maxSheep, op.buying, maxWheat,
            [source |-> a, id |-> op.id, passive |-> passive,
             limit |-> Price(op.price.d, op.price.n)]))

manageOffer(s, a, op, createPassive) ==
    LET mine     == {o \in s.offers : o.id = op.id /\ o.seller = a}
        passive  == createPassive \/ \E o \in mine : o.passive
        maxWheat == maxWheatCanBuy(s, a, op)
        maxSheep == Min({op.amount, maxSheepCanSell(s, a, op),
                         Capped(divideDown(maxWheat, op.price.d, op.price.n))})
    IN  IF ~checkOfferValid(s, a, op) THEN failed(s, "not valid")
        ELSE IF op.id # 0 /\ mine = {} THEN failed(s, "not found")
        ELSE IF op.amount = 0 THEN storeOffer(s, a, op, passive, 0)
        ELSE IF op.selling = Native /\ op.id = 0 /\ ~canAddEntry(s, a)
        THEN failed(s, "low reserve")
        ELSE IF maxWheat = 0 THEN failed(s, "line full")
        ELSE crossBook(s, a, op, passive, maxSheep, maxWheat)

(***************************************************************************)
(* Path payment and payment                                                *)
(***************************************************************************)

\* The outcome r of converting the asset to what w has to pay for.
walkStep(w, asset, r) ==
    IF ~succeeded(r.s) THEN [w EXCEPT !.s = r.s]
    ELSE IF r.result # "ok" \/ r.wheat # w.amount
    THEN [w EXCEPT !.s = failed(@, "too few offers")]
    ELSE [s |-> r.s, asset |-> asset, amount |-> r.sheep]

\* Walks the path backwards from its i-th asset.  [s, asset, amount] says
\* what the next asset has to pay for.
RECURSIVE walkPath(_, _, _, _)
walkPath(w, a, path, i) ==
    IF i = 0 \/ ~succeeded(w.s) THEN w
    ELSE IF path[i] = w.asset THEN walkPath(w, a, path, i - 1)
    ELSE IF path[i] # Native /\ ~exists(w.s, Issuer[path[i]])
    THEN [w EXCEPT !.s = failed(@, "no issuer")]
    ELSE walkPath(walkStep(w, path[i],
                     convertWithOffers(w.s, path[i], INT64_MAX, w.asset, w.amount,
                         [source |-> a, id |-> 0, passive |-> FALSE, limit |-> AnyPrice])),
                  a, path, i - 1)

\* Whether an account may send or receive a credit; returning a credit to
\* its issuer does not need the issuer to exist.
lineFails(s, a, c, bypassIssuerCheck) ==
    \/ ~bypassIssuerCheck /\ ~exists(s, Issuer[c])
    \/ ~loadTrustLine(s, a, c).authorized

debit(s, a, asset, amount, bypassIssuerCheck) ==
    IF asset = Native
    THEN IF ~exists(s, a) THEN failed(s, "malformed")
         ELSE IF s.accounts[a].balance - amount < getMinBalance(s, s.accounts[a].subs)
         THEN failed(s, "underfunded")
         ELSE addBalance(s, a, Native, -amount)
    ELSE IF \/ lineFails(s, a, asset, bypassIssuerCheck)
            \/ ~canAddBalance(s, a, asset, -amount)
    THEN failed(s, "underfunded")
    ELSE addBalance(s, a, asset, -amount)

\* The source pays what the walk w arrived at.
payForPath(w, a, sendMax, bypassIssuerCheck) ==
    IF ~succeeded(w.s) THEN w.s
    ELSE IF w.amount > sendMax THEN failed(w.s, "over sendmax")
    ELSE debit(w.s, a, w.asset, w.amount, bypassIssuerCheck)

pathPayment(s, a, to, p, amount, sendMax) ==
    LET path   == <<p.send>> \o p.path
        bypass == p.dest # Native /\ path = <<p.dest>> /\ Issuer[p.dest] = to
    IN  IF ~bypass /\ ~exists(s, to) THEN failed(s, "no destination")
        ELSE IF p.dest # Native /\ lineFails(s, to, p.dest, bypass)
        THEN failed(s, "no trust")
        ELSE IF ~canAddBalance(s, to, p.dest, amount)
        THEN failed(s, IF p.dest = Native THEN "malformed" ELSE "line full")
        ELSE payForPath(walkPath([s |-> addBalance(s, to, p.dest, amount),
                                  asset |-> p.dest, amount |-> amount],
                                 a, path, Len(path)),
                        a, sendMax, bypass)

\* A payment is a path payment without a path; it has no result code for an
\* amount that no balance can take.
paymentResult(s, r) ==
    IF r.code = "malformed" THEN failed(s, "Unexpected error code from pathPayment") ELSE r

payment(s, a, to, asset, amount) ==
    IF to = a /\ asset = Native THEN s
    ELSE paymentResult(s, pathPayment(s, a, to,
                              [send |-> asset, path |-> <<>>, dest |-> asset], amount, amount))

(***************************************************************************)
(* Trust                                                                   *)
(***************************************************************************)
changeTrust(s, a, c, limit) ==
    LET key  == <<a, c>>
        line == [balance |-> 0, limit |-> limit,
                 authorized |-> "required" \notin s.accounts[Issuer[c]].flags]
    IN  IF Issuer[c] = a THEN failed(s, "self not allowed")
        ELSE IF key \in DOMAIN s.lines
        THEN IF limit < s.lines[key].balance THEN failed(s, "invalid limit")
             ELSE IF limit = 0
             THEN addNumEntries([s EXCEPT !.lines = Restrict(@, DOMAIN @ \ {key})], a, -1)
             ELSE IF ~exists(s, Issuer[c]) THEN failed(s, "no issuer")
             ELSE [s EXCEPT !.lines[key].limit = limit]
        ELSE IF limit = 0 THEN failed(s, "invalid limit")
        ELSE IF ~exists(s, Issuer[c]) THEN failed(s, "no issuer")
        ELSE IF ~canAddEntry(s, a) THEN failed(s, "low reserve")
        ELSE addNumEntries([s EXCEPT !.lines = (key :> line) @@ @], a, 1)

allowTrust(s, a, trustor, c, authorize) ==
    IF \/ trustor = a
       \/ "required" \notin s.accounts[a].flags
       \/ "revocable" \notin s.accounts[a].flags /\ ~authorize
       \/ <<trustor, c>> \notin DOMAIN s.lines
    THEN failed(s, "not allowed")
    ELSE [s EXCEPT !.lines[<<trustor, c>>].authorized = authorize]

(***************************************************************************)
(* Accounts                                                                *)
(***************************************************************************)
createAccount(s, a, to, amount) ==
    IF exists(s, to) THEN failed(s, "already exists")
    ELSE IF amount < getMinBalance(s, 0) THEN failed(s, "low reserve")
    ELSE IF s.accounts[a].balance - getMinBalance(s, s.accounts[a].subs) < amount
    THEN failed(s, "underfunded")
    ELSE [addBalance(s, a, Native, -amount)
            EXCEPT !.accounts = (to :> NewAccount(amount)) @@ @]

merge(s, a, to) ==
    IF ~exists(s, to) THEN failed(s, "no account")
    ELSE IF "immutable" \in s.accounts[a].flags THEN failed(s, "immutable set")
    ELSE IF s.accounts[a].subs # Cardinality(s.accounts[a].signers)
    THEN failed(s, "has sub entries")
    ELSE IF ~canAddBalance(s, to, Native, s.accounts[a].balance)
    THEN failed(s, "merge overflowed destination balance")
    ELSE [addBalance(s, to, Native, s.accounts[a].balance)
            EXCEPT !.accounts = Restrict(@, DOMAIN @ \ {a})]

setInflationDest(s, a, dest) ==
    IF \E d \in dest : ~exists(s, d) THEN failed(s, "invalid inflation")
    ELSE [s EXCEPT !.accounts[a].dest = IF dest = {} THEN @ ELSE CHOOSE d \in dest : TRUE]

setFlags(s, a, clear, set) ==
    IF clear \cup set # {} /\ "immutable" \in s.accounts[a].flags
    THEN failed(s, "cant change")
    ELSE [s EXCEPT !.accounts[a].flags = (@ \ clear) \cup set]

addSigner(s, a, signer) ==
    IF signer \in s.accounts[a].signers THEN s
    ELSE IF ~canAddEntry(s, a) THEN failed(s, "low reserve")
    ELSE addNumEntries([s EXCEPT !.accounts[a].signers = @ \cup {signer}], a, 1)

\* The other half of setOptions, and removeAccountSigner for a key that may
\* be used only once.
removeSigner(s, a, signer) ==
    IF signer \notin s.accounts[a].signers THEN s
    ELSE addNumEntries([s EXCEPT !.accounts[a].signers = @ \ {signer}], a, -1)

\* setOptions: an inflation destination, flags to clear and to set, and
\* signers to add and to remove; a set is empty when the option is not given.
setOptions(s, a, op) ==
    LET s1 == setInflationDest(s, a, op.dest)
        s2 == setFlags(s1, a, op.clear, op.set)
        s3 == FoldSet(LAMBDA k, acc : addSigner(acc, a, k), s2, op.add)
    IN  IF ~succeeded(s1) THEN s1
        ELSE IF ~succeeded(s2) THEN s2
        ELSE IF ~succeeded(s3) THEN s3
        ELSE FoldSet(LAMBDA k, acc : removeSigner(acc, a, k), s3, op.remove)

manageData(s, a, name, hasValue) ==
    LET found == name \in s.accounts[a].data
    IN  IF hasValue /\ found THEN s
        ELSE IF hasValue
        THEN IF canAddEntry(s, a)
             THEN addNumEntries([s EXCEPT !.accounts[a].data = @ \cup {name}], a, 1)
             ELSE failed(s, "low reserve")
        ELSE IF ~found THEN failed(s, "name not found")
        ELSE addNumEntries([s EXCEPT !.accounts[a].data = @ \ {name}], a, -1)

(***************************************************************************)
(* Inflation                                                               *)
(***************************************************************************)

\* processForInflation: the balances that vote for an account.
votes(s, d) ==
    MapThenSumSet(LAMBDA a : s.accounts[a].balance,
                  {a \in DOMAIN s.accounts : s.accounts[a].dest = d
                                               /\ s.accounts[a].balance >= VoteMin})

\* The winners that still exist share the new coins and the fees by their
\* votes; what is left over goes to the fee pool.
inflation(s) ==
    LET amount == divideDown(s.header.totalCoins, Rate.n, Rate.d)
        dole   == amount + s.header.feePool
        share(d) == divideDown(dole, votes(s, d), s.header.totalCoins)
        winners  == {d \in DOMAIN s.accounts :
                        /\ votes(s, d) >= divideDown(s.header.totalCoins, WinMin.n, WinMin.d)
                        /\ share(d) > 0}
    IN  IF \E d \in winners : ~canAddBalance(s, d, Native, share(d))
        THEN failed(s, "inflation overflowed destination balance")
        ELSE [s EXCEPT !.accounts = [a \in DOMAIN @ |-> IF a \in winners
                                       THEN [@[a] EXCEPT !.balance = @ + share(a)] ELSE @[a]],
                       !.header.feePool = dole - MapThenSumSet(share, winners),
                       !.header.totalCoins = @ + amount]

(***************************************************************************)
(* The behaviour                                                           *)
(***************************************************************************)
Existing == DOMAIN lg.accounts

\* Messages of exceptions that say that the code is wrong, not the
\* transaction.
Bugs == {"offer must have matching account", "invalid account state",
         "offer claimed over limit", "offer sold more than balance",
         "merge overflowed destination balance", "inflation overflowed destination balance"}

Apply(s) ==
    /\ lg.code = "success"
    /\ lg.left > 0
    /\ lg' = IF succeeded(s) THEN [s EXCEPT !.left = @ - 1]
             ELSE IF s.code \in Bugs THEN [lg EXCEPT !.code = s.code]
             ELSE lg

OpsInit == lg \in Ledgers

ManageOffer ==
    \E a \in Existing, m \in Markets, price \in Asking, amount \in Offering \cup {0},
       id \in {0} \cup {o.id : o \in lg.offers} :
        /\ id # 0 \/ amount # 0
        /\ Apply(manageOffer(lg, a, [selling |-> m[1], buying |-> m[2], id |-> id,
                                     amount |-> amount, price |-> price], FALSE))

CreatePassiveOffer ==
    \E a \in Existing, m \in Markets, price \in Asking, amount \in Offering :
        Apply(manageOffer(lg, a, [selling |-> m[1], buying |-> m[2], id |-> 0,
                                  amount |-> amount, price |-> price], TRUE))

PathPayment ==
    \E a \in Existing, to \in Account, p \in Paths, amount, sendMax \in Paying :
        Apply(pathPayment(lg, a, to, p, amount, sendMax))

Payment ==
    \E a \in Existing, to \in Account, asset \in Credit \cup {Native}, amount \in Paying :
        Apply(payment(lg, a, to, asset, amount))

ChangeTrust ==
    \E a \in Existing, c \in Credit, limit \in Limiting : Apply(changeTrust(lg, a, c, limit))

AllowTrust ==
    \E a \in Existing, to \in Account, c \in Credit, authorize \in BOOLEAN :
        /\ Issuer[c] = a
        /\ Apply(allowTrust(lg, a, to, c, authorize))

CreateAccount ==
    \E a \in Existing, amount \in Paying : \E to \in Account \ {a} :
        Apply(createAccount(lg, a, to, amount))

AccountMerge ==
    \E a \in Existing : \E to \in Account \ {a} : Apply(merge(lg, a, to))

SetOptions ==
    \E a \in Existing, op \in Options : Apply(setOptions(lg, a, op))

ManageData ==
    \E a \in Existing, name \in DataNames, hasValue \in BOOLEAN :
        Apply(manageData(lg, a, name, hasValue))

Inflation == Apply(inflation(lg))

\* processFeeSeqNum of a transaction.
PayFee ==
    \E a \in Existing, fee \in Fees :
        Apply(LET paid == Least(fee, lg.accounts[a].balance)
              IN  [addBalance(lg, a, Native, -paid) EXCEPT !.header.feePool = @ + paid])

\* removeUsedOneTimeSignerKeys, at the end of a transaction.
RemoveAccountSigner ==
    \E a \in Existing, signer \in Signers : Apply(removeSigner(lg, a, signer))

UpgradeReserve ==
    \E reserve \in Reserves : Apply([lg EXCEPT !.header.baseReserve = reserve])

OpsNext == \/ ManageOffer \/ CreatePassiveOffer \/ PathPayment \/ Payment
           \/ ChangeTrust \/ AllowTrust \/ CreateAccount \/ AccountMerge
           \/ SetOptions \/ ManageData \/ Inflation
           \/ PayFee \/ RemoveAccountSigner \/ UpgradeReserve

OpsSpec == OpsInit /\ [][OpsNext]_lg

(***************************************************************************)
(* Properties                                                              *)
(***************************************************************************)
HeldBy(s, c) == {key \in DOMAIN s.lines : key[2] = c}

\* Nothing is made or lost: the balances and the fee pool are all the coins
\* there are, which is what TotalCoinsEqualsBalancesPlusFeePool checks after
\* each ledger, and the lines of a credit hold what its issuer gave out.  In
\* a trade this needs the two sides that OfferExchange and the operation
\* account for separately to agree, also when crossOffer gives up halfway.
CoinsConserved ==
    /\ lg.header.totalCoins = lg.header.feePool
          + MapThenSumSet(LAMBDA a : lg.accounts[a].balance, DOMAIN lg.accounts)
    /\ \A c \in Credit :
          lg.issued[c] = MapThenSumSet(LAMBDA key : lg.lines[key].balance, HeldBy(lg, c))

\* numSubEntries is the number of signers, data entries, trust lines and
\* offers of an account, and an account that is gone has none, which is what
\* ChangedAccountsSubentriesCountIsValid checks: whoever removes an offer,
\* its owner or one who takes it, counts it off an account object that is
\* not stale.
SubentriesCounted ==
    \A a \in Account :
        LET lines  == {key \in DOMAIN lg.lines : key[1] = a}
            offers == {o \in lg.offers : o.seller = a}
        IN  IF exists(lg, a)
            THEN LET me == lg.accounts[a]
                 IN  me.subs = Cardinality(me.signers) + Cardinality(me.data)
                                 + Cardinality(lines) + Cardinality(offers)
            ELSE lines = {} /\ offers = {}

\* No operation finds the ledger in a state that its exceptions call a bug
\* ("this would indicate a bug in OfferExchange"): the one who crosses
\* offers never gets more than its line can hold or gives more than it has,
\* although offers may be unfunded, unauthorized or rounded to nothing.  And
\* every seller gets at least the price of the offer ("bias towards
\* seller").
OffersHonored == lg.code = "success" /\ lg.fair

\* Apart from fees, nothing takes an account's coins below its reserve or
\* adds a subentry that the reserve does not allow, whoever's operation it
\* is: offers that others take, and after the reserve was raised.
ReserveKept ==
    [][\A a \in DOMAIN lg.accounts \cap DOMAIN lg'.accounts :
          LET old == lg.accounts[a]
              new == lg'.accounts[a]
          IN  (new.balance < old.balance \/ new.subs > old.subs)
                 => \/ lg'.header.feePool > lg.header.feePool
                    \/ new.balance >= getMinBalance(lg', new.subs)]_lg
=============================================================================
