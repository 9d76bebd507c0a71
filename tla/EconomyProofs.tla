--------------------------- MODULE EconomyProofs ----------------------------
(* Theorems about Economy, for every set of players, commands and prices    *)
(* and for every bound, which say nothing of what is in the bags.           *)
EXTENDS Economy, DataLemmas

------------------------------------------------------------------------------
(* No operation takes a balance out of its range.                           *)

Wallets == [Players -> [Currencies -> 0..MaxBalance]]

(* A record of the four variables whose money is in range, the bags apart.  *)
Solvent(w) ==
    /\ DOMAIN w = {"wallet", "bag", "minted", "burned"}
    /\ w = [x \in DOMAIN w |-> w[x]]
    /\ w.wallet \in Wallets /\ w.minted \in Nat /\ w.burned \in Nat

SoundOutcome(out) == Solvent(out.world) /\ out.balance \in 0..MaxBalance

LEMMA OutcomeFields ==
  ASSUME NEW ok, NEW w, NEW bal
  PROVE  Outcome(ok, w, bal).world = w /\ Outcome(ok, w, bal).balance = bal
BY DEF Outcome

LEMMA OutcomeIsSound ==
  ASSUME NEW ok, NEW w, NEW bal, Solvent(w), bal \in 0..MaxBalance
  PROVE  SoundOutcome(Outcome(ok, w, bal))
BY OutcomeFields DEF SoundOutcome

LEMMA BalanceInRange ==
  ASSUME NEW w, Solvent(w), NEW p \in Players, NEW c \in Currencies \cup {NoCurrency}
  PROVE  Balance(w, p, c) \in 0..MaxBalance
BY EconomyAssumption DEF Balance, Solvent, Wallets

LEMMA PayIsSound ==
  ASSUME NEW w, Solvent(w), NEW p \in Players, NEW c, NEW d \in Int,
         CanPay(w, p, c, d)
  PROVE  Solvent(Pay(w, p, c, d))
<1>1. Pay(w, p, c, d).wallet = [w.wallet EXCEPT ![p][c] = @ + d] BY DEF Pay, Solvent
<1>2. Pay(w, p, c, d).wallet \in Wallets BY <1>1 DEF Solvent, Wallets, CanPay
<1>3. QED BY <1>2 DEF Solvent, Pay

LEMMA CurrencyIsSound ==
  ASSUME NEW w, Solvent(w), NEW c \in Commands
  PROVE  SoundOutcome(DoCurrency(w, c))
<1> DEFINE delta == IF c.op = "AddCurrency" THEN c.amount ELSE -c.amount
           paid  == Pay(w, c.player, c.currency, delta)
<1>1. /\ c.player \in Players /\ c.amount \in Nat /\ delta \in Int
      /\ c.currency \in Currencies \cup {NoCurrency}
  BY DEF Commands
<1>2. CASE ~CanPay(w, c.player, c.currency, delta)
  BY <1>1, <1>2, BalanceInRange DEF DoCurrency, Outcome, SoundOutcome
<1>3. CASE CanPay(w, c.player, c.currency, delta)
  <2>1. Solvent(paid) BY <1>1, <1>3, PayIsSound
  <2> HIDE DEF paid
  <2>2. /\ Solvent([paid EXCEPT !.minted = @ + c.amount])
        /\ Solvent([paid EXCEPT !.burned = @ + c.amount])
    BY <1>1, <2>1 DEF Solvent
  <2>3. DoCurrency(w, c) =
          Outcome(TRUE,
                  IF delta > 0 THEN [paid EXCEPT !.minted = @ + c.amount]
                               ELSE [paid EXCEPT !.burned = @ + c.amount],
                  Balance(paid, c.player, c.currency))
    BY <1>3 DEF DoCurrency, paid
  <2>4. QED BY <1>1, <2>1, <2>2, <2>3, BalanceInRange, OutcomeIsSound
<1>4. QED BY <1>2, <1>3

LEMMA ItemsIsSound ==
  ASSUME NEW w, Solvent(w), NEW c \in Commands
  PROVE  SoundOutcome(DoItems(w, c))
<1> DEFINE run == RunDeltas(w.bag[c.player], c.items)
           ok  == run.done = Len(c.items)
           b   == IF ok THEN run.bag ELSE UndoDeltas(run.bag, c.items, run.done)
           v   == [w EXCEPT !.bag[c.player] = b]
           bal == Balance(w, c.player, c.currency)
<1>1. DoItems(w, c) = Outcome(ok, v, bal) BY DEF DoItems
<1>2. bal \in 0..MaxBalance BY BalanceInRange DEF Commands
<1>3. Solvent(v)
  <2> HIDE DEF b
  <2>1. QED BY DEF Solvent
<1> HIDE DEF ok, v, bal
<1>4. QED BY <1>1, <1>2, <1>3, OutcomeIsSound, Zenon

LEMMA BagsDoNotMatter ==
  ASSUME NEW w, Solvent(w), NEW b
  PROVE  Solvent([w EXCEPT !.bag = b])
BY DEF Solvent

LEMMA TransferIsSound ==
  ASSUME NEW w, Solvent(w), NEW c \in Commands, ValidCommand(c), c.op = "Transfer"
  PROVE  SoundOutcome(DoTransfer(w, c))
<1> DEFINE canMove == \/ c.amount = 0
                      \/ /\ CanPay(w, c.player, c.currency, -c.amount)
                         /\ CanPay(w, c.peer, c.currency, c.amount)
           half  == Pay(w, c.player, c.currency, -c.amount)
           moved == IF c.amount = 0 THEN w ELSE Pay(half, c.peer, c.currency, c.amount)
<1>1. /\ c.player \in Players /\ c.peer \in Players /\ c.peer # c.player
      /\ c.amount \in Nat /\ c.currency \in Currencies \cup {NoCurrency}
  BY DEF Commands, ValidCommand
<1>2. CASE ~canMove BY <1>1, <1>2, BalanceInRange, OutcomeIsSound DEF DoTransfer
<1>3. CASE canMove
  <2>1. Solvent(moved)
    <3>1. CASE c.amount # 0
      <4>1. CanPay(half, c.peer, c.currency, c.amount)
        <5>1. half.wallet[c.peer] = w.wallet[c.peer] BY <1>1 DEF Solvent, Wallets, Pay
        <5>2. QED BY <1>3, <3>1, <5>1 DEF CanPay
      <4>2. QED BY <1>1, <1>3, <3>1, <4>1, PayIsSound
    <3>2. QED BY <3>1
  <2> HIDE DEF moved
  <2>2. QED
    BY <1>1, <1>3, <2>1, BagsDoNotMatter, BalanceInRange, OutcomeIsSound DEF DoTransfer, moved
<1>4. QED BY <1>2, <1>3

LEMMA PurchaseIsSound ==
  ASSUME NEW w, Solvent(w), NEW c \in Commands, ValidCommand(c), c.op = "Purchase"
  PROVE  SoundOutcome(DoPurchase(w, c))
<1> DEFINE d     == c.items[1]
           price == Price[d.def]
           total == price.unit * d.n
           paid  == Pay(w, c.player, price.currency, -total)
<1>1. /\ c.player \in Players /\ c.currency \in Currencies \cup {NoCurrency}
      /\ d.def \in Defs /\ d.n \in Nat
  <2>1. c.items \in Seq(Deltas) /\ Len(c.items) = 1 /\ 1 \in 1..Len(c.items)
    BY DEF Commands, ValidCommand
  <2>2. c.items[1].n > 0 BY <2>1 DEF ValidCommand
  <2>3. d \in Deltas BY <2>1
  <2>4. QED BY <2>2, <2>3 DEF Commands, Deltas
<1>2. CASE price = NoPrice BY <1>1, <1>2, BalanceInRange, OutcomeIsSound DEF DoPurchase
<1>3. CASE price # NoPrice
  <2>1. price.currency \in Currencies /\ total \in Nat
    <3>1. price.currency \in Currencies /\ price.unit \in Nat
      BY <1>1, <1>3, EconomyAssumption DEF Prices
    <3> HIDE DEF d, price
    <3>2. QED BY <1>1, <3>1
  <2> DEFINE can == /\ d.n >= price.min /\ (price.max = 0 \/ d.n <= price.max)
                    /\ total <= MaxBalance
                    /\ CanPay(w, c.player, price.currency, -total)
                    /\ CanAdd(w.bag[c.player], d.def, d.n)
  <2>2. CASE ~can BY <1>1, <1>3, <2>1, <2>2, BalanceInRange, OutcomeIsSound DEF DoPurchase
  <2>3. CASE can
    <3>1. DoPurchase(w, c) =
            Outcome(TRUE,
                    [paid EXCEPT !.burned = @ + total,
                                 !.bag[c.player] = AddUnits(@, d.def, d.n)],
                    Balance(paid, c.player, price.currency))
      BY <1>3, <2>3 DEF DoPurchase
    <3>2. Solvent(paid)
      <4>1. CanPay(w, c.player, price.currency, -total) /\ -total \in Int BY <2>1, <2>3
      <4> HIDE DEF price, total
      <4>2. QED BY <1>1, <4>1, PayIsSound
    <3>3. Balance(paid, c.player, price.currency) \in 0..MaxBalance
      <4> HIDE DEF paid, price
      <4>1. QED BY <1>1, <2>1, <3>2, BalanceInRange
    <3>4. Solvent([paid EXCEPT !.burned = @ + total,
                               !.bag[c.player] = AddUnits(@, d.def, d.n)])
      <4> DEFINE burnt == [paid EXCEPT !.burned = @ + total]
                 b     == [paid.bag EXCEPT ![c.player] = AddUnits(@, d.def, d.n)]
      <4>1. [paid EXCEPT !.burned = @ + total,
                         !.bag[c.player] = AddUnits(@, d.def, d.n)]
              = [burnt EXCEPT !.bag = b]
        <5> HIDE DEF paid, price, total, d
        <5>1. QED BY <3>2 DEF Solvent
      <4>2. Solvent(burnt)
        <5> HIDE DEF paid, price, total, d
        <5>1. QED BY <2>1, <3>2 DEF Solvent
      <4> HIDE DEF burnt, b
      <4>3. QED BY <4>1, <4>2, BagsDoNotMatter
    <3>5. QED BY <3>1, <3>3, <3>4, OutcomeIsSound, Zenon
  <2>4. QED BY <2>2, <2>3
<1>4. QED BY <1>2, <1>3

LEMMA GrantIsSound ==
  ASSUME NEW w, Solvent(w), NEW c \in Commands
  PROVE  SoundOutcome(DoGrant(w, c))
<1> DEFINE hasMoney == c.amount > 0
           can   == CanPay(w, c.player, c.currency, c.amount)
           paid  == IF hasMoney
                      THEN [Pay(w, c.player, c.currency, c.amount)
                               EXCEPT !.minted = @ + c.amount]
                      ELSE w
           items == DoItems(paid, c)
<1>1. /\ c.player \in Players /\ c.amount \in Nat
      /\ c.currency \in Currencies \cup {NoCurrency}
  BY DEF Commands
<1>2. Balance(w, c.player, c.currency) \in 0..MaxBalance BY <1>1, BalanceInRange
<1>3. CASE hasMoney /\ ~can BY <1>2, <1>3, OutcomeIsSound DEF DoGrant
<1>4. CASE ~(hasMoney /\ ~can)
  <2>1. Solvent(paid)
    <3>1. CASE hasMoney BY <1>1, <1>4, <3>1, PayIsSound DEF Solvent
    <3>2. QED BY <3>1
  <2> HIDE DEF paid
  <2>2. CASE ~items.applied
    BY <1>2, <1>4, <2>2, BagsDoNotMatter, OutcomeIsSound DEF DoGrant, paid
  <2>3. CASE items.applied
    <3>1. DoGrant(w, c) = items BY <1>4, <2>3 DEF DoGrant, paid
    <3>2. QED BY <2>1, <3>1, ItemsIsSound
  <2>4. QED BY <2>2, <2>3
<1>5. QED BY <1>3, <1>4

LEMMA DoIsSound ==
  ASSUME NEW w, Solvent(w), NEW c \in Commands, ValidCommand(c)
  PROVE  SoundOutcome(Do(w, c))
<1>1. CASE c.op \in {"AddCurrency", "RemoveCurrency"} BY <1>1, CurrencyIsSound DEF Do
<1>2. CASE c.op \in {"AddItem", "RemoveItem"} BY <1>2, ItemsIsSound DEF Do
<1>3. CASE c.op = "Transfer" BY <1>3, TransferIsSound DEF Do
<1>4. CASE c.op = "Purchase" BY <1>4, PurchaseIsSound DEF Do
<1>5. CASE c.op \in {"Reward", "Refund"} BY <1>5, GrantIsSound DEF Do
<1>6. QED BY <1>1, <1>2, <1>3, <1>4, <1>5 DEF Ops, Commands

------------------------------------------------------------------------------
(* Where the money goes.  A command leaves all money where it was, moves    *)
(* the balance of one player and the supply together, or passes an amount   *)
(* from one player to another.                                              *)

SameMoney(w, v) ==
    v.wallet = w.wallet /\ v.minted = w.minted /\ v.burned = w.burned

Shifted(money, p, cur, d) == [money EXCEPT ![p][cur] = @ + d]

Issued(w, v, p, cur, d) ==
    /\ cur \in Currencies /\ d \in Int
    /\ w.wallet[p][cur] + d \in 0..MaxBalance
    /\ v.wallet = Shifted(w.wallet, p, cur, d)
    /\ v.minted - v.burned = w.minted - w.burned + d

Passed(w, v, p, q, cur, d) ==
    /\ q \in Players \ {p} /\ cur \in Currencies /\ d \in Nat \ {0}
    /\ w.wallet[p][cur] - d \in 0..MaxBalance
    /\ w.wallet[q][cur] + d \in 0..MaxBalance
    /\ v.wallet = Shifted(Shifted(w.wallet, p, cur, -d), q, cur, d)
    /\ v.minted = w.minted /\ v.burned = w.burned

(* The currency a command is charged in.                                    *)
Charged(c, cur) ==
    \/ cur = c.currency
    \/ c.op = "Purchase" /\ Price[c.items[1].def] # NoPrice
       /\ cur = Price[c.items[1].def].currency

MoneyEffect(w, c, out) ==
    \/ /\ SameMoney(w, out.world)
       /\ out.applied => out.balance = Balance(w, c.player, c.currency)
    \/ /\ out.applied /\ c.op # "Transfer"
       /\ \E cur, d : /\ Charged(c, cur)
                      /\ Issued(w, out.world, c.player, cur, d)
                      /\ out.balance = Balance(out.world, c.player, cur)
    \/ /\ c.op = "Transfer" /\ (~out.applied => c.items # <<>>)
       /\ Passed(w, out.world, c.player, c.peer, c.currency, c.amount)
       /\ out.balance = Balance(out.world, c.player, c.currency)

LEMMA RefusedMoney ==
  ASSUME NEW w, NEW c, NEW v, NEW bal, SameMoney(w, v)
  PROVE  MoneyEffect(w, c, Outcome(FALSE, v, bal))
<1> DEFINE out == Outcome(FALSE, v, bal)
<1>1. ~out.applied /\ out.world = v BY DEF Outcome
<1> HIDE DEF out
<1>2. MoneyEffect(w, c, out) BY <1>1, Zenon DEF MoneyEffect
<1>3. QED BY <1>2 DEF out

LEMMA IssuedMoney ==
  ASSUME NEW w, NEW c, c.op # "Transfer", NEW v, NEW cur, NEW d, Charged(c, cur),
         Issued(w, v, c.player, cur, d)
  PROVE  MoneyEffect(w, c, Outcome(TRUE, v, Balance(v, c.player, cur)))
<1> DEFINE out == Outcome(TRUE, v, Balance(v, c.player, cur))
<1>1. out.applied /\ out.world = v /\ out.balance = Balance(v, c.player, cur) BY DEF Outcome
<1> HIDE DEF out
<1>2. MoneyEffect(w, c, out) BY <1>1, Zenon DEF MoneyEffect
<1>3. QED BY <1>2 DEF out

LEMMA PayIssues ==
  ASSUME NEW w, Solvent(w), NEW p \in Players, NEW cur, NEW d \in Int,
         CanPay(w, p, cur, d)
  PROVE  /\ cur \in Currencies /\ w.wallet[p][cur] + d \in 0..MaxBalance
         /\ Pay(w, p, cur, d).wallet = Shifted(w.wallet, p, cur, d)
         /\ Pay(w, p, cur, d).minted = w.minted /\ Pay(w, p, cur, d).burned = w.burned
BY DEF CanPay, Pay, Solvent, Shifted

LEMMA CurrencyEffect ==
  ASSUME NEW w, Solvent(w), NEW c \in Commands, ValidCommand(c),
         c.op \in {"AddCurrency", "RemoveCurrency"}
  PROVE  MoneyEffect(w, c, DoCurrency(w, c))
<1> DEFINE delta == IF c.op = "AddCurrency" THEN c.amount ELSE -c.amount
           paid  == Pay(w, c.player, c.currency, delta)
           v     == IF delta > 0 THEN [paid EXCEPT !.minted = @ + c.amount]
                                 ELSE [paid EXCEPT !.burned = @ + c.amount]
<1>1. /\ c.player \in Players /\ c.amount \in Nat /\ delta \in Int /\ c.amount > 0
  BY DEF Commands, ValidCommand
<1>2. CASE ~CanPay(w, c.player, c.currency, delta)
  BY <1>2, RefusedMoney DEF SameMoney, DoCurrency
<1>3. CASE CanPay(w, c.player, c.currency, delta)
  <2>1. DoCurrency(w, c) = Outcome(TRUE, v, Balance(paid, c.player, c.currency))
    BY <1>3 DEF DoCurrency
  <2>2. /\ c.currency \in Currencies /\ w.wallet[c.player][c.currency] + delta \in 0..MaxBalance
        /\ paid.wallet = Shifted(w.wallet, c.player, c.currency, delta)
        /\ paid.minted = w.minted /\ paid.burned = w.burned
    BY <1>1, <1>3, PayIssues
  <2>3. Solvent(paid) BY <1>1, <1>3, PayIsSound
  <2> HIDE DEF paid
  <2>4. /\ v.wallet = paid.wallet
        /\ v.minted - v.burned = w.minted - w.burned + delta
    <3>1. CASE delta > 0
      <4>1. delta = c.amount /\ v = [paid EXCEPT !.minted = @ + c.amount] BY <1>1, <3>1
      <4>2. v.wallet = paid.wallet /\ v.minted = w.minted + c.amount /\ v.burned = w.burned
        BY <2>2, <2>3, <4>1 DEF Solvent
      <4> HIDE DEF v, delta
      <4>3. QED BY <1>1, <4>1, <4>2 DEF Solvent
    <3>2. CASE ~(delta > 0)
      <4>1. delta = -c.amount /\ v = [paid EXCEPT !.burned = @ + c.amount] BY <1>1, <3>2
      <4>2. v.wallet = paid.wallet /\ v.burned = w.burned + c.amount /\ v.minted = w.minted
        BY <2>2, <2>3, <4>1 DEF Solvent
      <4> HIDE DEF v, delta
      <4>3. QED BY <1>1, <4>1, <4>2 DEF Solvent
    <3>3. QED BY <3>1, <3>2
  <2>5. Balance(paid, c.player, c.currency) = Balance(v, c.player, c.currency)
    BY <2>4 DEF Balance
  <2> HIDE DEF v, delta
  <2>6. Issued(w, v, c.player, c.currency, delta) BY <1>1, <2>2, <2>4 DEF Issued
  <2>7. QED BY <2>1, <2>5, <2>6, IssuedMoney DEF Charged
<1>4. QED BY <1>2, <1>3

(* Items leave the money alone.                                             *)
LEMMA ItemsKeepMoney ==
  ASSUME NEW w, Solvent(w), NEW c \in Commands
  PROVE  /\ SameMoney(w, DoItems(w, c).world)
         /\ DoItems(w, c).balance = Balance(w, c.player, c.currency)
<1> DEFINE run == RunDeltas(w.bag[c.player], c.items)
           ok  == run.done = Len(c.items)
           b   == IF ok THEN run.bag ELSE UndoDeltas(run.bag, c.items, run.done)
           v   == [w EXCEPT !.bag[c.player] = b]
<1>1. DoItems(w, c) = Outcome(ok, v, Balance(w, c.player, c.currency)) BY DEF DoItems
<1>2. SameMoney(w, v)
  <2> HIDE DEF b
  <2>1. QED BY DEF Solvent, SameMoney
<1>3. DoItems(w, c).world = v /\ DoItems(w, c).balance = Balance(w, c.player, c.currency)
  <2> HIDE DEF v, ok
  <2>1. QED BY <1>1 DEF Outcome
<1> HIDE DEF v
<1>4. QED BY <1>2, <1>3

LEMMA ItemsEffect ==
  ASSUME NEW w, Solvent(w), NEW c \in Commands
  PROVE  MoneyEffect(w, c, DoItems(w, c))
BY ItemsKeepMoney DEF MoneyEffect

LEMMA PurchaseEffect ==
  ASSUME NEW w, Solvent(w), NEW c \in Commands, ValidCommand(c), c.op = "Purchase"
  PROVE  MoneyEffect(w, c, DoPurchase(w, c))
<1> DEFINE d     == c.items[1]
           price == Price[d.def]
           total == price.unit * d.n
           paid  == Pay(w, c.player, price.currency, -total)
           v     == [paid EXCEPT !.burned = @ + total,
                                 !.bag[c.player] = AddUnits(@, d.def, d.n)]
<1>1. c.player \in Players /\ d.def \in Defs /\ d.n \in Nat
  <2>1. c.items \in Seq(Deltas) /\ Len(c.items) = 1 /\ 1 \in 1..Len(c.items)
    BY DEF Commands, ValidCommand
  <2>2. c.items[1].n > 0 BY <2>1 DEF ValidCommand
  <2>3. d \in Deltas BY <2>1
  <2>4. QED BY <2>2, <2>3 DEF Commands, Deltas
<1> DEFINE can == /\ d.n >= price.min /\ (price.max = 0 \/ d.n <= price.max)
                  /\ total <= MaxBalance
                  /\ CanPay(w, c.player, price.currency, -total)
                  /\ CanAdd(w.bag[c.player], d.def, d.n)
<1>2. CASE price = NoPrice BY <1>2, RefusedMoney DEF SameMoney, DoPurchase
<1>3. CASE price # NoPrice /\ ~can
  <2>1. DoPurchase(w, c) = Outcome(FALSE, w, Balance(w, c.player, price.currency))
    BY <1>3 DEF DoPurchase
  <2> HIDE DEF price, d
  <2>2. QED BY <2>1, RefusedMoney DEF SameMoney
<1>4. CASE price # NoPrice /\ can
  <2>1. DoPurchase(w, c) = Outcome(TRUE, v, Balance(paid, c.player, price.currency))
    BY <1>4 DEF DoPurchase
  <2>2. total \in Nat
    <3>1. price.unit \in Nat BY <1>1, <1>4, EconomyAssumption DEF Prices
    <3> HIDE DEF d, price
    <3>2. QED BY <1>1, <3>1
  <2>3. CanPay(w, c.player, price.currency, -total) /\ -total \in Int BY <1>4, <2>2
  <2>4. Charged(c, price.currency) BY <1>4 DEF Charged
  <2> HIDE DEF price, total, d
  <2>5. /\ price.currency \in Currencies
        /\ w.wallet[c.player][price.currency] + (-total) \in 0..MaxBalance
        /\ paid.wallet = Shifted(w.wallet, c.player, price.currency, -total)
        /\ paid.minted = w.minted /\ paid.burned = w.burned
    BY <1>1, <2>3, PayIssues
  <2>6. Solvent(paid) BY <1>1, <2>3, PayIsSound
  <2> HIDE DEF paid
  <2>7. v.wallet = paid.wallet /\ v.burned = w.burned + total /\ v.minted = w.minted
    BY <2>5, <2>6 DEF Solvent
  <2>8. Balance(paid, c.player, price.currency) = Balance(v, c.player, price.currency)
    BY <2>7 DEF Balance
  <2> HIDE DEF v
  <2>9. Issued(w, v, c.player, price.currency, -total)
    BY <2>2, <2>3, <2>5, <2>7 DEF Issued, Solvent
  <2>10. QED BY <2>1, <2>4, <2>8, <2>9, IssuedMoney
<1>5. QED BY <1>2, <1>3, <1>4

LEMMA GrantEffect ==
  ASSUME NEW w, Solvent(w), NEW c \in Commands, c.op \in {"Reward", "Refund"}
  PROVE  MoneyEffect(w, c, DoGrant(w, c))
<1> DEFINE hasMoney == c.amount > 0
           can   == CanPay(w, c.player, c.currency, c.amount)
           pay   == Pay(w, c.player, c.currency, c.amount)
           paid  == IF hasMoney THEN [pay EXCEPT !.minted = @ + c.amount] ELSE w
           items == DoItems(paid, c)
<1>1. c.player \in Players /\ c.amount \in Nat BY DEF Commands
<1>2. CASE hasMoney /\ ~can BY <1>2, RefusedMoney DEF SameMoney, DoGrant
<1>3. CASE ~(hasMoney /\ ~can) /\ ~items.applied
  <2> DEFINE with(b) == [w EXCEPT !.bag = b]
  <2>1. \E b : DoGrant(w, c) = Outcome(FALSE, with(b), Balance(w, c.player, c.currency))
    BY <1>3 DEF DoGrant
  <2>2. \A b : SameMoney(w, with(b)) BY DEF SameMoney, Solvent
  <2> HIDE DEF with
  <2>3. QED BY <2>1, <2>2, RefusedMoney
<1>4. CASE ~(hasMoney /\ ~can) /\ items.applied
  <2>1. DoGrant(w, c) = items BY <1>4 DEF DoGrant
  <2>2. CASE ~hasMoney
    <3>1. paid = w BY <2>2
    <3> HIDE DEF paid
    <3>2. QED BY <2>1, <3>1, ItemsEffect
  <2>3. CASE hasMoney
    <3>1. /\ c.currency \in Currencies
          /\ w.wallet[c.player][c.currency] + c.amount \in 0..MaxBalance
          /\ pay.wallet = Shifted(w.wallet, c.player, c.currency, c.amount)
          /\ pay.minted = w.minted /\ pay.burned = w.burned
      BY <1>1, <1>4, <2>3, PayIssues
    <3>2. Solvent(pay) BY <1>1, <1>4, <2>3, PayIsSound
    <3> HIDE DEF pay
    <3>3. /\ paid.wallet = pay.wallet /\ paid.burned = w.burned
          /\ paid.minted = w.minted + c.amount
      BY <2>3, <3>1, <3>2 DEF Solvent
    <3>4. Solvent(paid) BY <1>1, <2>3, <3>2 DEF Solvent
    <3> HIDE DEF paid
    <3>5. /\ SameMoney(paid, items.world)
          /\ items.balance = Balance(paid, c.player, c.currency)
      BY <3>4, ItemsKeepMoney
    <3> HIDE DEF items
    <3>6. Issued(w, items.world, c.player, c.currency, c.amount)
      BY <1>1, <3>1, <3>3, <3>5 DEF Issued, SameMoney, Solvent
    <3>7. QED BY <1>4, <2>1, <3>5, <3>6 DEF MoneyEffect, Charged, Balance, SameMoney
  <2>4. QED BY <2>2, <2>3
<1>5. QED BY <1>2, <1>3, <1>4

LEMMA NothingToGive ==
  ASSUME NEW b, NEW c, c.items = <<>>
  PROVE  GiveDeltas(b, c).done = 0
<1> DEFINE give(bags, d) == [bags EXCEPT ![c.player] = RemoveUnits(@, d.def, d.n),
                                         ![c.peer]   = AddUnits(@, d.def, d.n)]
           back(r, d) == [r EXCEPT !.bag[c.player] =
                             AddUnits(RemoveUnits(@, d.def, d.n), d.def, d.n)]
           step(f, i) ==
              IF i = 0 THEN [bag |-> b, done |-> 0]
              ELSE LET r == f[i - 1]
                       d == c.items[i]
                   IN  IF /\ r.done = i - 1
                          /\ CanRemove(r.bag[c.player], d.def, d.n)
                         THEN IF CanAdd(r.bag[c.peer], d.def, d.n)
                                THEN [bag |-> give(r.bag, d), done |-> i]
                                ELSE back(r, d)
                         ELSE r
           loop == CHOOSE f : f = [i \in 0..Len(c.items) |-> step(f, i)]
<1>1. GiveDeltas(b, c) = loop[Len(c.items)] BY DEF GiveDeltas
<1>2. Len(c.items) = 0 /\ 0..Len(c.items) = {0} OBVIOUS
<1>3. \A f : step(f, 0) = [bag |-> b, done |-> 0] OBVIOUS
<1> DEFINE one == [i \in {0} |-> [bag |-> b, done |-> 0]]
<1> HIDE DEF step
<1>4. one = [i \in 0..Len(c.items) |-> step(one, i)] BY <1>2, <1>3
<1>5. loop = [i \in 0..Len(c.items) |-> step(loop, i)]
  <2> HIDE DEF one
  <2>1. QED BY <1>4
<1> HIDE DEF loop
<1>6. QED BY <1>1, <1>2, <1>3, <1>5

LEMMA TransferEffect ==
  ASSUME NEW w, Solvent(w), NEW c \in Commands, ValidCommand(c), c.op = "Transfer"
  PROVE  MoneyEffect(w, c, DoTransfer(w, c))
<1> DEFINE canMove == \/ c.amount = 0
                      \/ /\ CanPay(w, c.player, c.currency, -c.amount)
                         /\ CanPay(w, c.peer, c.currency, c.amount)
           half  == Pay(w, c.player, c.currency, -c.amount)
           moved == IF c.amount = 0 THEN w ELSE Pay(half, c.peer, c.currency, c.amount)
           run   == GiveDeltas(w.bag, c)
           v     == [moved EXCEPT !.bag = run.bag]
           out   == DoTransfer(w, c)
<1>1. /\ c.player \in Players /\ c.peer \in Players \ {c.player}
      /\ c.amount \in Nat
  BY DEF Commands, ValidCommand
<1>2. CASE ~canMove BY <1>2, RefusedMoney DEF SameMoney, DoTransfer
<1>3. CASE canMove
  <2>1. out = Outcome(run.done = Len(c.items), v, Balance(moved, c.player, c.currency))
    BY <1>3 DEF DoTransfer
  <2> HIDE DEF moved, run
  <2>2. /\ out.world = v /\ out.balance = Balance(moved, c.player, c.currency)
        /\ out.applied <=> run.done = Len(c.items)
    <3> HIDE DEF v, out
    <3>1. QED BY <2>1 DEF Outcome
  <2>3. ~out.applied => c.items # <<>> BY <2>2, NothingToGive DEF run
  <2>4. CASE c.amount = 0
    <3>1. moved = w BY <2>4 DEF moved
    <3>2. SameMoney(w, v) BY <3>1 DEF SameMoney, Solvent
    <3> HIDE DEF v, out
    <3>3. MoneyEffect(w, c, out) BY <2>2, <3>1, <3>2, Zenon DEF MoneyEffect
    <3>4. QED BY <3>3 DEF out
  <2>5. CASE c.amount # 0
    <3>1. /\ Solvent(half) /\ c.currency \in Currencies
          /\ w.wallet[c.player][c.currency] - c.amount \in 0..MaxBalance
          /\ w.wallet[c.peer][c.currency] + c.amount \in 0..MaxBalance
          /\ half.wallet = Shifted(w.wallet, c.player, c.currency, -c.amount)
          /\ half.minted = w.minted /\ half.burned = w.burned
      <4> HIDE DEF half
      <4>1. CanPay(w, c.player, c.currency, -c.amount) /\ -c.amount \in Int BY <1>1, <1>3, <2>5
      <4>2. half = Pay(w, c.player, c.currency, -c.amount) BY DEF half
      <4>3. Solvent(half) BY <1>1, <4>1, <4>2, PayIsSound
      <4>4. /\ c.currency \in Currencies
            /\ w.wallet[c.player][c.currency] + (-c.amount) \in 0..MaxBalance
            /\ half.wallet = Shifted(w.wallet, c.player, c.currency, -c.amount)
            /\ half.minted = w.minted /\ half.burned = w.burned
        BY <1>1, <4>1, <4>2, PayIssues
      <4>5. w.wallet[c.player][c.currency] - c.amount \in 0..MaxBalance
        BY <1>1, <4>4, EconomyAssumption DEF Solvent, Wallets
      <4>6. QED BY <1>3, <2>5, <4>3, <4>4, <4>5 DEF CanPay
    <3> HIDE DEF half
    <3>2. CanPay(half, c.peer, c.currency, c.amount)
      BY <1>1, <2>5, <3>1 DEF CanPay, Shifted, Solvent, Wallets
    <3>3. moved = Pay(half, c.peer, c.currency, c.amount) BY <2>5 DEF moved
    <3>4. /\ moved.wallet = Shifted(half.wallet, c.peer, c.currency, c.amount)
          /\ moved.minted = half.minted /\ moved.burned = half.burned
      BY <1>1, <3>1, <3>2, <3>3, PayIssues
    <3>5. v.wallet = moved.wallet /\ v.minted = moved.minted /\ v.burned = moved.burned
      BY <1>1, <3>1, <3>2, <3>3, PayIsSound DEF Solvent
    <3> HIDE DEF v, out
    <3>6. Passed(w, v, c.player, c.peer, c.currency, c.amount)
      BY <1>1, <2>5, <3>1, <3>4, <3>5 DEF Passed
    <3>7. Balance(moved, c.player, c.currency) = Balance(v, c.player, c.currency)
      BY <3>5 DEF Balance
    <3>8. MoneyEffect(w, c, out) BY <2>2, <2>3, <3>6, <3>7, Zenon DEF MoneyEffect
    <3>9. QED BY <3>8 DEF out
  <2>6. QED BY <2>4, <2>5
<1>4. QED BY <1>2, <1>3

LEMMA DoMovesMoney ==
  ASSUME NEW w, Solvent(w), NEW c \in Commands, ValidCommand(c)
  PROVE  MoneyEffect(w, c, Do(w, c))
<1>1. CASE c.op \in {"AddCurrency", "RemoveCurrency"} BY <1>1, CurrencyEffect DEF Do
<1>2. CASE c.op \in {"AddItem", "RemoveItem"} BY <1>2, ItemsEffect DEF Do
<1>3. CASE c.op = "Transfer" BY <1>3, TransferEffect DEF Do
<1>4. CASE c.op = "Purchase" BY <1>4, PurchaseEffect DEF Do
<1>5. CASE c.op \in {"Reward", "Refund"} BY <1>5, GrantEffect DEF Do
<1>6. QED BY <1>1, <1>2, <1>3, <1>4, <1>5 DEF Ops, Commands

------------------------------------------------------------------------------
(* The retry protocol.  The command of a completed row took effect; that    *)
(* of an unresolved row took effect if the ledger has stored it.            *)

Buffered == {ring[i] : i \in 1..Len(ring)}

KeyInv ==
    \A k \in Keys :
        /\ effects[k] \in 0..1
        /\ idem[k].st = "Completed" => effects[k] = 1 /\ idem[k].balance = first[k]
        /\ effects[k] = 1 => idem[k].st \in {"InFlight", "Failed", "Completed"}
        /\ effects[k] = 1 /\ idem[k].st \in {"InFlight", "Failed"} =>
              k \in StoredKeys \cup BufferedKeys
        /\ effects[k] = 1 /\ Unresolved(k) => k \in StoredKeys

LogInv ==
    \A e \in rows \cup Buffered : effects[e.key] = 1 /\ e.balance = first[e.key]

IInv == MoneyOK /\ KeyInv /\ LogInv /\ ReplayIsFirstResult

------------------------------------------------------------------------------
(* Every variable but bag keeps its type.                                   *)

LEMMA OutcomeIsTyped ==
  ASSUME MoneyOK, NEW k \in Keys
  PROVE  /\ SoundOutcome(Do(World, Cmd[k]))
         /\ Entry(k, Do(World, Cmd[k])) \in Entries
<1>1. Cmd[k] \in Commands /\ ValidCommand(Cmd[k]) BY EconomyAssumption
<1>2. Solvent(World) BY DEF World, Solvent, MoneyOK, Wallets
<1>3. SoundOutcome(Do(World, Cmd[k])) BY <1>1, <1>2, DoIsSound
<1>4. /\ Cmd[k].player \in Players /\ Cmd[k].peer \in Players \cup {NoPlayer}
      /\ Cmd[k].currency \in Currencies \cup {NoCurrency}
  BY <1>1 DEF Commands
<1>5. Balance(World, Cmd[k].player, Cmd[k].currency) \in 0..MaxBalance
  BY <1>2, <1>4, BalanceInRange
<1> DEFINE bal == Do(World, Cmd[k]).balance
<1>6. bal \in 0..MaxBalance BY <1>3 DEF SoundOutcome
<1>7. Entry(k, Do(World, Cmd[k])) \in Entries
  <2> DEFINE old == Balance(World, Cmd[k].player, Cmd[k].currency)
  <2>1. bal - old \in -MaxBalance..MaxBalance
    <3> HIDE DEF bal, old
    <3>1. QED BY <1>5, <1>6, EconomyAssumption DEF old
  <2>2. Entry(k, Do(World, Cmd[k])) =
          [key |-> k, player |-> Cmd[k].player, peer |-> Cmd[k].peer,
           currency |-> Cmd[k].currency, balance |-> bal, delta |-> bal - old]
    BY DEF Entry
  <2> HIDE DEF bal, old
  <2>3. QED BY <1>4, <1>6, <2>1, <2>2 DEF Entries
<1>8. QED BY <1>3, <1>7

LEMMA UnstoredIsBuffered ==
  ASSUME MoneyOK, NEW n \in 0..Len(ring)
  PROVE  Unstored(n) \subseteq Buffered /\ Unstored(n) \subseteq Entries
BY DEF Unstored, Buffered, MoneyOK

(* What the ledger makes of a posted entry.                                 *)
LEMMA PostIsSound ==
  ASSUME MoneyOK, NEW e \in Entries, NEW drain \in {0, 1}, PostLedger(e, drain)
  PROVE  /\ ring' \in Seq(Entries) /\ Len(ring') <= Capacity
         /\ rows' \subseteq Entries /\ rows \subseteq rows'
         /\ rows' \cup Buffered' \subseteq rows \cup Buffered \cup {e}
         /\ \A d \in rows \cup Buffered : \E c \in rows' \cup Buffered' : c.key = d.key
         /\ pending' = IF Posted(e, drain) THEN pending ELSE pending + 1
         /\ flagged' = IF Posted(e, drain) THEN flagged ELSE flagged \cup {e.key}
         /\ Posted(e, drain) => e \in Buffered'
<1>1. /\ ring \in Seq(Entries) /\ Len(ring) <= Capacity /\ Len(ring) \in Nat
      /\ rows \subseteq Entries
      /\ Capacity \in Nat \ {0}
  BY EconomyAssumption DEF MoneyOK
<1>2. /\ pending' = IF Posted(e, drain) THEN pending ELSE pending + 1
      /\ flagged' = IF Posted(e, drain) THEN flagged ELSE flagged \cup {e.key}
  BY DEF PostLedger
<1>2a. Len(ring) < Capacity =>
         /\ ring' = IF Posted(e, drain) THEN Append(ring, e) ELSE ring
         /\ rows' = rows
  <2>1. Len(ring) < Capacity => Len(ring) # Capacity BY <1>1
  <2>2. QED BY <2>1, Zenon DEF PostLedger, AppendToLedger
<1>3. CASE Len(ring) < Capacity /\ Posted(e, drain)
  <2>1. ring' = Append(ring, e) /\ rows' = rows BY <1>2a, <1>3
  <2>2. /\ Len(ring') = Len(ring) + 1 /\ ring'[Len(ring) + 1] = e
        /\ \A i \in 1..Len(ring) : ring'[i] = ring[i]
        /\ ring' \in Seq(Entries)
    BY <1>1, <2>1
  <2>3. QED BY <1>1, <1>2, <1>3, <2>1, <2>2 DEF Buffered
<1>4. CASE Len(ring) < Capacity /\ ~Posted(e, drain) BY <1>1, <1>2a, <1>2, <1>4 DEF Buffered
<1>5. CASE Len(ring) = Capacity /\ drain = 0
  <2>1. ring' = <<e>> /\ rows' = RowsAfter(Len(ring)) BY <1>1, <1>5 DEF PostLedger, AppendToLedger
  <2>2. rows' = rows \cup Unstored(Len(ring)) BY <2>1 DEF RowsAfter
  <2>3. Unstored(Len(ring)) \subseteq Buffered /\ Unstored(Len(ring)) \subseteq Entries
    BY <1>1, UnstoredIsBuffered
  <2>4. \A d \in Buffered : d \in Unstored(Len(ring)) \/ \E c \in rows : c.key = d.key
    BY DEF Unstored, Buffered, StoredKeys, KeysOf
  <2>5. QED BY <1>1, <1>2, <2>1, <2>2, <2>3, <2>4 DEF Buffered
<1>6. CASE Len(ring) = Capacity /\ drain = 1
  <2>1. PICK n \in 0..Len(ring) - 1 : rows' = RowsAfter(n) /\ ring' = ring
    BY <1>1, <1>6 DEF PostLedger, AppendToLedger
  <2>2. rows' = rows \cup Unstored(n) /\ n \in 0..Len(ring) BY <1>1, <2>1 DEF RowsAfter
  <2>3. ~Posted(e, drain) BY <1>6 DEF Posted
  <2>4. QED BY <1>1, <1>2, <2>1, <2>2, <2>3, UnstoredIsBuffered DEF Buffered
<1>7. QED BY <1>1, <1>3, <1>4, <1>5, <1>6

LEMMA MoneyInit == Init => MoneyOK
BY EconomyAssumption DEF Init, MoneyOK, Rows, NoRow

LEMMA MoneyStep == MoneyOK /\ [Next]_vars => MoneyOK'
<1> SUFFICES ASSUME MoneyOK, [Next]_vars PROVE MoneyOK' OBVIOUS
<1> USE EconomyAssumption
<1>1. /\ NoRow \in Rows
      /\ \A bal \in 0..MaxBalance :
            [st |-> "Completed", deadline |-> 0, balance |-> bal] \in Rows
      /\ NewRow \in Rows
      /\ \A k \in Keys : FailedRow(k) \in Rows
  <2>1. \A bal \in 0..MaxBalance :
            [st |-> "Completed", deadline |-> 0, balance |-> bal] \in Rows
    BY DEF Rows
  <2>2. NewRow \in Rows BY DEF NewRow, Rows, MoneyOK
  <2>3. ASSUME NEW k \in Keys PROVE FailedRow(k) \in Rows BY DEF FailedRow, Rows, MoneyOK
  <2>4. QED BY <2>1, <2>2, <2>3 DEF NoRow, Rows
<1>2. ASSUME NEW k \in Keys, Replay(k) \/ Blocked(k) \/ Unreadable(k) PROVE MoneyOK'
  BY <1>2 DEF Replay, Blocked, Unreadable, Faults, MoneyOK, world, ledger, history
<1>3. ASSUME NEW k \in Keys, Recover(k) PROVE MoneyOK'
  <2>1. PICK commit \in {0, 1}, e \in rows :
           /\ Faults(commit)
           /\ idem' = [idem EXCEPT ![k] =
                 IF commit = 1 THEN FailedRow(k)
                 ELSE [st |-> "Completed", deadline |-> 0, balance |-> e.balance]]
           /\ UNCHANGED <<world, ledger, clock, history>>
    BY <1>3 DEF Recover
  <2>2. idem' \in [Keys -> Rows] BY <1>1, <2>1 DEF MoneyOK, Entries
  <2>3. QED BY <2>1, <2>2 DEF MoneyOK, Faults, world, ledger, history
<1>4. ASSUME NEW k \in Keys, BeginFails(k) PROVE MoneyOK'
  <2>1. PICK query \in {0, 1}, left \in {NoRow, FailedRow(k)} :
           /\ Faults(1 + query)
           /\ idem' = [idem EXCEPT ![k] = left]
           /\ UNCHANGED <<world, ledger, clock, history>>
    BY <1>4 DEF BeginFails
  <2>2. QED BY <1>1, <2>1 DEF MoneyOK, Faults, world, ledger, history
<1>5. ASSUME NEW k \in Keys, RunRejected(k) PROVE MoneyOK'
  <2> DEFINE out == Do(World, Cmd[k])
  <2>1. Solvent(out.world) BY OutcomeIsTyped DEF SoundOutcome
  <2>2. PICK query \in {0, 1}, abort \in {0, 1} :
           /\ Faults(query + abort)
           /\ wallet' = out.world.wallet
           /\ minted' = out.world.minted /\ burned' = out.world.burned
           /\ idem' = [idem EXCEPT ![k] = IF abort = 1 THEN NewRow ELSE NoRow]
           /\ UNCHANGED <<ledger, clock, history>>
    BY <1>5 DEF RunRejected
  <2> HIDE DEF out
  <2>3. /\ wallet' \in [Players -> [Currencies -> 0..MaxBalance]]
        /\ minted' \in Nat /\ burned' \in Nat
    BY <2>1, <2>2 DEF Solvent, Wallets
  <2>4. idem' \in [Keys -> Rows] BY <1>1, <2>2 DEF MoneyOK
  <2>5. /\ ring' \in Seq(Entries) /\ Len(ring') <= Capacity /\ rows' \subseteq Entries
        /\ pending' \in Nat /\ flagged' \subseteq Keys /\ clock' \in 0..MaxClock
    BY <2>2 DEF MoneyOK, ledger
  <2>6. faults' \in 0..MaxFaults BY <2>2 DEF MoneyOK, Faults
  <2>7. QED BY <2>3, <2>4, <2>5, <2>6, <2>2 DEF MoneyOK, history
<1>6. ASSUME NEW k \in Keys, RunApplied(k) PROVE MoneyOK'
  <2> DEFINE out == Do(World, Cmd[k])
             e   == Entry(k, out)
  <2>1. SoundOutcome(out) /\ e \in Entries BY OutcomeIsTyped
  <2> HIDE DEF out, e
  <2>2. PICK query \in {0, 1}, drain \in {0, 1}, commit \in {0, 1} :
           /\ Faults(query + drain + commit)
           /\ wallet' = out.world.wallet
           /\ minted' = out.world.minted /\ burned' = out.world.burned
           /\ PostLedger(e, drain)
           /\ idem' = [idem EXCEPT ![k] =
                 IF commit = 0
                   THEN [st |-> "Completed", deadline |-> 0, balance |-> out.balance]
                   ELSE NewRow]
           /\ effects' = [effects EXCEPT ![k] = @ + 1]
           /\ first' = IF effects[k] = 0 THEN [first EXCEPT ![k] = out.balance] ELSE first
           /\ UNCHANGED clock
    BY <1>6 DEF RunApplied, out, e
  <2>3. /\ ring' \in Seq(Entries) /\ Len(ring') <= Capacity /\ rows' \subseteq Entries
        /\ pending' = IF Posted(e, drain) THEN pending ELSE pending + 1
        /\ flagged' = IF Posted(e, drain) THEN flagged ELSE flagged \cup {e.key}
    BY <2>1, <2>2, PostIsSound
  <2>3a. pending' \in Nat /\ flagged' \subseteq Keys
    BY <2>1, <2>3 DEF MoneyOK, Entries
  <2>4. idem' \in [Keys -> Rows] BY <1>1, <2>1, <2>2 DEF MoneyOK, SoundOutcome
  <2>5. effects' \in [Keys -> Nat] /\ first' \in [Keys -> 0..MaxBalance]
    BY <2>1, <2>2 DEF MoneyOK, SoundOutcome
  <2>6. clock' \in 0..MaxClock /\ faults' \in 0..MaxFaults BY <2>2 DEF MoneyOK, Faults
  <2>7. QED BY <2>1, <2>2, <2>3, <2>3a, <2>4, <2>5, <2>6 DEF MoneyOK, SoundOutcome, Solvent, Wallets
<1>7. CASE Flush
  <2>1. /\ ring' = ring \/ ring' = <<>>
        /\ \E n \in 0..Len(ring) : rows' = RowsAfter(n)
        /\ faults' \in 0..MaxFaults
        /\ UNCHANGED <<world, idem, pending, flagged, clock, reply, history>>
    BY <1>7 DEF Flush, FlushAll, FlushSome, MoneyOK, Faults
  <2>2. ring' \in Seq(Entries) /\ Len(ring') <= Capacity
    <3>1. CASE ring' = <<>> BY <3>1
    <3>2. CASE ring' = ring BY <3>2 DEF MoneyOK
    <3>3. QED BY <2>1, <3>1, <3>2
  <2>3. QED BY <2>1, <2>2, UnstoredIsBuffered DEF MoneyOK, world, history, RowsAfter
<1>8. CASE Tick BY <1>8 DEF Tick, MoneyOK, world, ledger, history
<1>9. CASE UNCHANGED vars BY <1>9 DEF MoneyOK, vars, world, ledger, history
<1>10. QED BY <1>2, <1>3, <1>4, <1>5, <1>6, <1>7, <1>8, <1>9 DEF Next, Execute

(* No sequence of commands, retries and failures takes a balance below      *)
(* zero or above kMaxBalance, or a ring above its capacity: every check     *)
(* that the operations of economy_system.cpp make before they pay is the    *)
(* check that the payment needs, in transfers for both wallets.             *)
THEOREM MoneyCorrect == Spec => []MoneyOK
BY MoneyInit, MoneyStep, PTL DEF Spec

------------------------------------------------------------------------------
(* Conservation: the sum over all wallets follows each movement of money.   *)

Wealth(money) == Sum(Cash(money), Cells)

LEMMA CellsAreFinite == IsFiniteSet(Cells)
BY EconomyAssumption, FS_Product DEF Cells

LEMMA WealthIsInteger ==
  ASSUME NEW money \in Wallets
  PROVE  Wealth(money) \in Int /\ \A cell \in Cells : Cash(money)[cell] \in Int
<1>1. QED BY EconomyAssumption, CellsAreFinite, SumOfIntegers DEF Wealth, Cash, Cells, Wallets

LEMMA ShiftedIsWallet ==
  ASSUME NEW money \in Wallets, NEW p \in Players, NEW cur \in Currencies, NEW d \in Int,
         money[p][cur] + d \in 0..MaxBalance
  PROVE  /\ Shifted(money, p, cur, d) \in Wallets
         /\ \A q \in Players, c \in Currencies :
               Shifted(money, p, cur, d)[q][c] =
                  IF q = p /\ c = cur THEN money[q][c] + d ELSE money[q][c]
BY DEF Shifted, Wallets

LEMMA WealthShifts ==
  ASSUME NEW money \in Wallets, NEW p \in Players, NEW cur \in Currencies, NEW d \in Int,
         money[p][cur] + d \in 0..MaxBalance
  PROVE  Wealth(Shifted(money, p, cur, d)) = Wealth(money) + d
<1> DEFINE next == Shifted(money, p, cur, d)
           cell == <<p, cur>>
<1>1. /\ next \in Wallets
      /\ \A q \in Players, c \in Currencies :
            next[q][c] = IF q = p /\ c = cur THEN money[q][c] + d ELSE money[q][c]
  BY ShiftedIsWallet
<1> HIDE DEF next
<1>2. /\ cell \in Cells
      /\ Cash(next)[cell] = Cash(money)[cell] + d
      /\ \A x \in Cells \ {cell} : Cash(money)[x] = Cash(next)[x]
  BY <1>1 DEF Cash, Cells
<1>3. /\ \A x \in Cells : Cash(money)[x] \in Int /\ Cash(next)[x] \in Int
      /\ Wealth(money) \in Int
  BY <1>1, WealthIsInteger
<1> HIDE DEF cell
<1>4. Cash(money)[cell] \in Int BY <1>2, <1>3
<1>5. QED BY <1>2, <1>3, <1>4, CellsAreFinite, SumChanges DEF next, Wealth

Balanced(w) == Wealth(w.wallet) = w.minted - w.burned

LEMMA DoConserves ==
  ASSUME NEW w, Solvent(w), Balanced(w), NEW c \in Commands, ValidCommand(c)
  PROVE  Balanced(Do(w, c).world)
<1> DEFINE v == Do(w, c).world
<1>1. MoneyEffect(w, c, Do(w, c)) /\ c.player \in Players BY DoMovesMoney DEF Commands
<1>2. w.wallet \in Wallets /\ w.minted \in Int /\ w.burned \in Int /\ Wealth(w.wallet) \in Int
  BY WealthIsInteger DEF Solvent
<1>3. CASE SameMoney(w, v) BY <1>3 DEF SameMoney, Balanced
<1>4. ASSUME NEW cur, NEW d, Issued(w, v, c.player, cur, d) PROVE Balanced(v)
  <2> HIDE DEF v
  <2>1. QED BY <1>1, <1>2, <1>4, WealthShifts DEF Issued, Balanced
<1>5. CASE Passed(w, v, c.player, c.peer, c.currency, c.amount)
  <2> HIDE DEF v
  <2> DEFINE half == Shifted(w.wallet, c.player, c.currency, -c.amount)
  <2>1. /\ c.peer \in Players /\ c.peer # c.player /\ c.currency \in Currencies
        /\ c.amount \in Int /\ -c.amount \in Int
        /\ w.wallet[c.player][c.currency] \in Int
        /\ w.wallet[c.player][c.currency] - c.amount \in 0..MaxBalance
    BY <1>1, <1>2, <1>5, EconomyAssumption DEF Passed, Wallets
  <2>2. w.wallet[c.player][c.currency] + (-c.amount) \in 0..MaxBalance BY <2>1
  <2>3. /\ half \in Wallets /\ Wealth(half) = Wealth(w.wallet) + (-c.amount)
        /\ half[c.peer][c.currency] = w.wallet[c.peer][c.currency]
    BY <1>1, <1>2, <2>1, <2>2, ShiftedIsWallet, WealthShifts
  <2> HIDE DEF half
  <2>4. Wealth(Shifted(half, c.peer, c.currency, c.amount)) = Wealth(half) + c.amount
    BY <1>5, <2>1, <2>3, WealthShifts DEF Passed
  <2>5. Balanced(v) BY <1>2, <1>5, <2>1, <2>3, <2>4 DEF Passed, Balanced, half
  <2>6. QED BY <2>5 DEF v
<1>6. QED BY <1>1, <1>3, <1>4, <1>5, Zenon DEF MoneyEffect

LEMMA ConservationStep ==
  MoneyOK /\ Conservation /\ [Next]_vars => Conservation'
<1> SUFFICES ASSUME MoneyOK, Conservation, [Next]_vars PROVE Conservation' OBVIOUS
<1>1. ASSUME NEW k \in Keys, RunRejected(k) \/ RunApplied(k) PROVE Conservation'
  <2> DEFINE out == Do(World, Cmd[k])
  <2>1. /\ wallet' = out.world.wallet
        /\ minted' = out.world.minted /\ burned' = out.world.burned
    BY <1>1 DEF RunRejected, RunApplied
  <2>2. Solvent(World) BY DEF World, Solvent, MoneyOK, Wallets
  <2>3. Balanced(out.world)
    BY <2>2, DoConserves, EconomyAssumption DEF Conservation, TotalBalance, Balanced, World, Wealth,
       Sum
  <2> HIDE DEF out
  <2>4. QED BY <2>1, <2>3 DEF Conservation, TotalBalance, Wealth, Sum, Balanced
<1>2. ASSUME UNCHANGED world PROVE Conservation' BY <1>2 DEF world, Conservation, TotalBalance
<1>3. ASSUME NEW k \in Keys, Execute(k) PROVE Conservation'
  BY <1>1, <1>2, <1>3 DEF Execute, Replay, Blocked, Unreadable, Recover, BeginFails
<1>4. CASE Flush \/ Tick \/ UNCHANGED vars BY <1>2, <1>4 DEF Flush, Tick, vars
<1>5. QED BY <1>3, <1>4 DEF Next

(* INTERFACE.md 2: over every sequence of commands, rejections, rollbacks,  *)
(* retries and failures of the stores, the sum of all balances is what was  *)
(* minted less what was burned; no assumption on the failures is needed.    *)
THEOREM ConservationCorrect == Spec => []Conservation
<1>1. Init => Conservation
  <2> SUFFICES ASSUME Init PROVE Conservation OBVIOUS
  <2> DEFINE zero == [cell \in Cells |-> 0]
  <2>1. Cash(wallet) = zero /\ minted = 0 /\ burned = 0 BY DEF Init, Cash, Cells
  <2>2. Sum(zero, Cells) = 0
    <3>1. \A cell \in Cells : zero[cell] = 0 OBVIOUS
    <3> HIDE DEF zero
    <3>2. QED BY <3>1, CellsAreFinite, SumOfZeros
  <2> HIDE DEF zero
  <2>3. QED BY <2>1, <2>2 DEF Conservation, TotalBalance, Sum
<1>2. QED BY <1>1, MoneyInit, MoneyStep, ConservationStep, PTL DEF Spec

------------------------------------------------------------------------------
(* The retry protocol under the deployment assumption of Economy.           *)

LEMMA InvInit == Init => IInv
<1> SUFFICES ASSUME Init PROVE IInv OBVIOUS
<1>1. KeyInv BY DEF Init, KeyInv, NoRow, Unresolved, InFlight
<1>2. LogInv BY DEF Init, LogInv, Buffered
<1>3. ReplayIsFirstResult BY DEF Init, ReplayIsFirstResult
<1>4. QED BY <1>1, <1>2, <1>3, MoneyInit DEF IInv

(* What may run under a key has not taken effect under it.                  *)
LEMMA OnlyFreshKeysRun ==
  ASSUME SingleFault = TRUE, IInv, NEW k \in Keys, NEW query \in {0, 1},
         MayRun(k, query)
  PROVE  effects[k] = 0
<1>1. Unresolved(k) /\ k \notin StoredKeys => effects[k] = 0 BY DEF IInv, KeyInv
<1>2. idem[k] = NoRow \/ (Unresolved(k) /\ k \notin StoredKeys) BY DEF MayRun
<1>3. QED BY <1>1, <1>2 DEF NoRow, IInv, KeyInv

LEMMA InvStep == SingleFault = TRUE /\ IInv /\ [Next]_vars => IInv'
<1> SUFFICES ASSUME SingleFault = TRUE, IInv, [Next]_vars PROVE IInv' OBVIOUS
<1>1. MoneyOK' /\ MoneyOK BY MoneyStep DEF IInv
<1>2. /\ KeyInv /\ LogInv /\ ReplayIsFirstResult
      /\ idem \in [Keys -> Rows] /\ effects \in [Keys -> Nat]
      /\ first \in [Keys -> 0..MaxBalance]
      /\ MaxBalance \in Nat /\ Ttl \in Nat \ {0} /\ clock \in Nat
  BY EconomyAssumption DEF IInv, MoneyOK
<1> DEFINE unmoved == UNCHANGED <<idem, ring, rows, clock, effects, first>>
<1>2a. ASSUME unmoved PROVE KeyInv' /\ LogInv'
  <2>1. /\ StoredKeys' = StoredKeys /\ BufferedKeys' = BufferedKeys
        /\ Buffered' = Buffered
    BY <1>2a DEF StoredKeys, BufferedKeys, Buffered
  <2>2. KeyInv' BY <1>2, <1>2a, <2>1 DEF KeyInv, Unresolved, InFlight
  <2>3. QED BY <1>2, <1>2a, <2>1, <2>2 DEF LogInv
<1>3. ASSUME NEW k \in Keys, Replay(k) PROVE IInv'
  <2>1. /\ idem[k].st = "Completed" /\ reply' = Reply(k, "replayed", idem[k].balance)
        /\ UNCHANGED <<idem, ring, rows, clock, effects, first>>
    BY <1>3 DEF Replay, ledger, history
  <2>2. ReplayIsFirstResult' BY <1>2, <2>1 DEF ReplayIsFirstResult, Reply, KeyInv
  <2>3. QED BY <1>1, <1>2a, <2>1, <2>2 DEF IInv
<1>4. ASSUME NEW k \in Keys, Blocked(k) \/ Unreadable(k) PROVE IInv'
  <2>1. /\ reply'.kind \in {"busy", "failed"}
        /\ UNCHANGED <<idem, ring, rows, clock, effects, first>>
    BY <1>4 DEF Blocked, Unreadable, Reply, ledger, history
  <2>2. KeyInv' /\ LogInv' BY <1>2a, <2>1
  <2>3. QED BY <1>1, <2>1, <2>2 DEF IInv, ReplayIsFirstResult
<1>5. ASSUME NEW k \in Keys, Recover(k) PROVE IInv'
  <2>1. PICK commit \in {0, 1}, e \in rows :
           /\ Unresolved(k) /\ e.key = k
           /\ idem' = [idem EXCEPT ![k] =
                 IF commit = 1 THEN FailedRow(k)
                 ELSE [st |-> "Completed", deadline |-> 0, balance |-> e.balance]]
           /\ reply' = Reply(k, "replayed", e.balance)
           /\ UNCHANGED <<ring, rows, clock, effects, first>>
    BY <1>5 DEF Recover, ledger, history
  <2>2. effects[k] = 1 /\ e.balance = first[k] /\ k \in StoredKeys
    BY <1>2, <2>1 DEF LogInv, StoredKeys, KeysOf
  <2>3. LogInv' BY <1>2, <2>1 DEF LogInv, Buffered
  <2>4. /\ idem'[k].st = "Completed" => idem'[k].balance = first[k]
        /\ idem'[k].st \in {"Completed", "Failed"}
        /\ \A j \in Keys \ {k} : idem'[j] = idem[j]
    <3>1. CASE commit = 1
      <4>1. idem[k] \in Rows /\ idem'[k] = FailedRow(k) BY <1>2, <2>1, <3>1
      <4>2. QED BY <1>2, <2>1, <4>1 DEF FailedRow, Rows
    <3>2. CASE commit = 0 BY <1>2, <2>1, <2>2, <3>2
    <3>3. QED BY <3>1, <3>2
  <2>5. KeyInv'
    <3>1. \A j \in Keys \ {k} : Unresolved(j)' <=> Unresolved(j)
      BY <2>1, <2>4 DEF Unresolved, InFlight
    <3>2. effects' = effects /\ first' = first BY <2>1
    <3>3. QED BY <1>2, <2>1, <2>2, <2>4, <3>1, <3>2 DEF KeyInv, StoredKeys, BufferedKeys
  <2>6. QED BY <1>1, <2>1, <2>2, <2>3, <2>5 DEF IInv, ReplayIsFirstResult, Reply
<1>6. ASSUME NEW k \in Keys, BeginFails(k) \/ RunRejected(k) PROVE IInv'
  <2>1. PICK query \in {0, 1} : MayRun(k, query) BY <1>6 DEF BeginFails, RunRejected
  <2>2. effects[k] = 0 BY <2>1, OnlyFreshKeysRun
  <2>3. /\ \E row \in {NoRow, FailedRow(k), NewRow} : idem' = [idem EXCEPT ![k] = row]
        /\ reply'.kind \in {"failed", "busy", "rejected"}
        /\ UNCHANGED <<ring, rows, clock, effects, first>>
    <3>1. CASE BeginFails(k)
      <4>1. PICK left \in {NoRow, FailedRow(k)} : idem' = [idem EXCEPT ![k] = left]
        BY <3>1 DEF BeginFails
      <4>2. reply'.kind \in {"failed", "busy", "rejected"} BY <3>1 DEF Reply, BeginFails
      <4>3. UNCHANGED <<ring, rows, clock, effects, first>>
        BY <3>1 DEF BeginFails, ledger, history
      <4>4. QED BY <4>1, <4>2, <4>3, Zenon
    <3>2. CASE RunRejected(k)
      <4>1. PICK row \in {NoRow, NewRow} : idem' = [idem EXCEPT ![k] = row] BY <3>2 DEF RunRejected
      <4>2. UNCHANGED <<ring, rows, clock, effects, first>>
        BY <3>2 DEF RunRejected, ledger, history
      <4>3. reply'.kind \in {"failed", "busy", "rejected"} BY <3>2 DEF Reply, RunRejected
      <4>4. QED BY <4>1, <4>2, <4>3, Zenon
    <3>3. QED BY <1>6, <3>1, <3>2
  <2>4. /\ idem'[k].st # "Completed"
        /\ \A j \in Keys \ {k} : idem'[j] = idem[j]
    <3>1. /\ NoRow.st # "Completed" /\ NewRow.st # "Completed"
          /\ FailedRow(k).st # "Completed"
      BY <1>2 DEF NoRow, NewRow, FailedRow, Rows
    <3>2. QED BY <1>2, <2>3, <3>1
  <2>5. LogInv' BY <1>2, <2>3 DEF LogInv, Buffered
  <2>6. KeyInv'
    <3>1. \A j \in Keys \ {k} : Unresolved(j)' <=> Unresolved(j)
      BY <2>3, <2>4 DEF Unresolved, InFlight
    <3>2. effects' = effects /\ first' = first BY <2>3
    <3>3. QED BY <1>2, <2>2, <2>3, <2>4, <3>1, <3>2 DEF KeyInv, StoredKeys, BufferedKeys
  <2>7. QED BY <1>1, <2>3, <2>5, <2>6 DEF IInv, ReplayIsFirstResult
<1>7. ASSUME NEW k \in Keys, RunApplied(k) PROVE IInv'
  <2> DEFINE out == Do(World, Cmd[k])
             e   == Entry(k, out)
  <2>1. /\ e \in Entries /\ e.key = k /\ e.balance = out.balance
        /\ out.balance \in 0..MaxBalance
    BY <1>1, OutcomeIsTyped DEF Entry, SoundOutcome
  <2> HIDE DEF out, e
  <2>2. PICK query \in {0, 1}, drain \in {0, 1}, commit \in {0, 1} :
           /\ MayRun(k, query)
           /\ PostLedger(e, drain)
           /\ commit = 1 => CommitMayFail(e, drain)
           /\ idem' = [idem EXCEPT ![k] =
                 IF commit = 0
                   THEN [st |-> "Completed", deadline |-> 0, balance |-> out.balance]
                   ELSE NewRow]
           /\ reply' = Reply(k, IF commit = 0 THEN "applied" ELSE "failed", out.balance)
           /\ effects' = [effects EXCEPT ![k] = @ + 1]
           /\ first' = IF effects[k] = 0 THEN [first EXCEPT ![k] = out.balance] ELSE first
           /\ UNCHANGED clock
    BY <1>7 DEF RunApplied, out, e
  <2>3. effects[k] = 0 BY <2>2, OnlyFreshKeysRun
  <2>4. /\ effects'[k] = 1 /\ first'[k] = out.balance
        /\ \A j \in Keys \ {k} : /\ effects'[j] = effects[j]
                                 /\ first'[j] = first[j] /\ idem'[j] = idem[j]
    BY <1>2, <2>2, <2>3
  <2>5. /\ rows \subseteq rows'
        /\ rows' \cup Buffered' \subseteq rows \cup Buffered \cup {e}
        /\ \A d \in rows \cup Buffered : \E c \in rows' \cup Buffered' : c.key = d.key
        /\ Posted(e, drain) => e \in Buffered'
    BY <1>1, <2>1, <2>2, PostIsSound
  <2>6. LogInv'
    <3> SUFFICES ASSUME NEW d \in rows' \cup Buffered'
                 PROVE  effects'[d.key] = 1 /\ d.balance = first'[d.key]
      BY DEF LogInv
    <3>1. CASE d = e BY <2>1, <2>4, <3>1
    <3>2. CASE d \in rows \cup Buffered
      <4>1. d.key \in Keys
        <5>1. rows \subseteq Entries /\ Buffered \subseteq Entries BY <1>1 DEF MoneyOK, Buffered
        <5>2. QED BY <3>2, <5>1 DEF Entries
      <4>2. effects[d.key] = 1 /\ d.balance = first[d.key] BY <1>2, <3>2 DEF LogInv
      <4>3. QED BY <2>3, <2>4, <4>1, <4>2
    <3>3. QED BY <2>5, <3>1, <3>2
  <2>7. StoredKeys \cup BufferedKeys \subseteq (StoredKeys \cup BufferedKeys)'
    <3>1. \A key : key \in (StoredKeys \cup BufferedKeys)' <=>
                      \E d \in rows' \cup Buffered' : d.key = key
      BY DEF StoredKeys, BufferedKeys, KeysOf, Buffered
    <3>2. QED BY <2>5, <3>1 DEF StoredKeys, BufferedKeys, KeysOf, Buffered
  <2>8. \/ /\ idem'[k].st = "Completed" /\ idem'[k].balance = first'[k]
         \/ /\ idem'[k].st = "InFlight" /\ Posted(e, drain)
            /\ idem'[k].deadline = clock + Ttl
    <3>1. CASE commit = 0 BY <1>2, <2>2, <2>4, <3>1
    <3>2. CASE commit = 1
      <4>1. Posted(e, drain) BY <2>2, <3>2 DEF CommitMayFail
      <4>2. QED BY <1>2, <2>2, <3>2, <4>1 DEF NewRow
    <3>3. QED BY <3>1, <3>2
  <2>9. KeyInv'
    <3> SUFFICES ASSUME NEW j \in Keys
                 PROVE  /\ effects'[j] \in 0..1
                        /\ idem'[j].st = "Completed" =>
                              effects'[j] = 1 /\ idem'[j].balance = first'[j]
                        /\ effects'[j] = 1 =>
                              idem'[j].st \in {"InFlight", "Failed", "Completed"}
                        /\ effects'[j] = 1 /\ idem'[j].st \in {"InFlight", "Failed"} =>
                              j \in (StoredKeys \cup BufferedKeys)'
                        /\ effects'[j] = 1 /\ Unresolved(j)' => j \in StoredKeys'
      BY Zenon DEF KeyInv
    <3>1. CASE j = k
      <4>1. ~Unresolved(k)' BY <1>2, <2>2, <2>8 DEF Unresolved, InFlight
      <4>2. QED BY <2>1, <2>4, <2>5, <2>8, <3>1, <4>1 DEF Buffered, BufferedKeys, KeysOf
    <3>2. CASE j # k
      <4>1. effects'[j] = effects[j] /\ idem'[j] = idem[j] /\ first'[j] = first[j] BY <2>4, <3>2
      <4>2. Unresolved(j)' <=> Unresolved(j) BY <2>2, <4>1 DEF Unresolved, InFlight
      <4>3. QED BY <1>2, <2>5, <2>7, <4>1, <4>2 DEF KeyInv, StoredKeys, KeysOf
    <3>3. QED BY <3>1, <3>2
  <2>10. QED BY <1>1, <2>2, <2>6, <2>9 DEF IInv, ReplayIsFirstResult, Reply
<1>8. CASE Flush
  <2>1. /\ UNCHANGED <<idem, clock, reply, effects, first>>
        /\ \/ ring' = <<>> /\ rows' = RowsAfter(Len(ring))
           \/ ring' = ring /\ \E n \in 0..Len(ring) : rows' = RowsAfter(n)
    BY <1>8 DEF Flush, FlushAll, FlushSome, history
  <2>2. /\ rows \subseteq rows' /\ rows' \subseteq rows \cup Buffered
        /\ Buffered' \subseteq Buffered
    <3>1. PICK n \in 0..Len(ring) : rows' = rows \cup Unstored(n)
      <4>1. \E n \in 0..Len(ring) : rows' = RowsAfter(n) BY <1>1, <2>1 DEF MoneyOK
      <4>2. QED BY <4>1 DEF RowsAfter
    <3>2. Buffered' \subseteq Buffered
      <4>1. CASE ring' = <<>> BY <4>1 DEF Buffered
      <4>2. CASE ring' = ring BY <4>2 DEF Buffered
      <4>3. QED BY <2>1, <4>1, <4>2
    <3>3. QED BY <1>1, <3>1, <3>2, UnstoredIsBuffered
  <2>3. BufferedKeys \subseteq (StoredKeys \cup BufferedKeys)'
    <3>1. CASE ring' = ring BY <3>1 DEF BufferedKeys
    <3>2. CASE ring' = <<>> /\ rows' = RowsAfter(Len(ring))
      BY <3>2 DEF BufferedKeys, StoredKeys, KeysOf, RowsAfter, Unstored
    <3>3. QED BY <2>1, <3>1, <3>2
  <2>4. KeyInv'
    <3>1. \A k \in Keys : Unresolved(k)' <=> Unresolved(k) BY <2>1 DEF Unresolved, InFlight
    <3>2. QED BY <1>2, <2>1, <2>2, <2>3, <3>1 DEF KeyInv, StoredKeys, KeysOf
  <2>5. ReplayIsFirstResult' BY <1>2, <2>1 DEF ReplayIsFirstResult
  <2>6. QED BY <1>1, <1>2, <2>1, <2>2, <2>4, <2>5 DEF IInv, LogInv
<1>9. CASE Tick
  <2>1. /\ UNCHANGED <<idem, ring, rows, reply, effects, first>>
        /\ \A k \in BufferedKeys :
              InFlight(k) /\ clock' >= idem[k].deadline => k \in StoredKeys
    BY <1>9 DEF Tick, ledger, history
  <2>2. ASSUME NEW k \in Keys, effects[k] = 1, Unresolved(k)' PROVE k \in StoredKeys
    <3>1. CASE idem[k].st = "Failed" BY <1>2, <2>2, <3>1 DEF KeyInv, Unresolved
    <3>2. CASE InFlight(k) /\ clock' >= idem[k].deadline
      BY <1>2, <2>1, <2>2, <3>2 DEF KeyInv, InFlight
    <3>3. QED BY <2>1, <2>2, <3>1, <3>2 DEF Unresolved, InFlight
  <2>3. /\ StoredKeys' = StoredKeys /\ BufferedKeys' = BufferedKeys
        /\ Buffered' = Buffered
    BY <2>1 DEF StoredKeys, BufferedKeys, Buffered
  <2>4. KeyInv' BY <1>2, <2>1, <2>2, <2>3 DEF KeyInv
  <2>5. ReplayIsFirstResult' BY <1>2, <2>1 DEF ReplayIsFirstResult
  <2>6. QED BY <1>1, <1>2, <2>1, <2>3, <2>4, <2>5 DEF IInv, LogInv
<1>10. CASE UNCHANGED vars
  <2>1. KeyInv' /\ LogInv' /\ ReplayIsFirstResult'
    BY <1>2, <1>2a, <1>10 DEF ReplayIsFirstResult, vars, ledger, history
  <2>2. QED BY <1>1, <2>1 DEF IInv
<1>11. QED BY <1>3, <1>4, <1>5, <1>6, <1>7, <1>8, <1>9, <1>10 DEF Next, Execute

LEMMA InvCorrect == ASSUME SingleFault = TRUE PROVE Spec => []IInv
<1>1. IInv /\ [Next]_vars => IInv' BY SingleFault = TRUE, InvStep
<1>2. QED BY InvInit, <1>1, PTL DEF Spec

(* A command takes effect at most once under its key, for every set of      *)
(* commands, any number of retries and any legal pattern of failures        *)
(* (Execute, TryBegin, TryRecoverFromLedger, RebeginIdempotency).           *)
THEOREM AtMostOnceCorrect == ASSUME SingleFault = TRUE PROVE Spec => []AtMostOnce
<1>1. IInv => AtMostOnce BY DEF IInv, KeyInv, AtMostOnce
<1>2. QED BY InvCorrect, <1>1, PTL

(* A command that took effect keeps an idempotency row, whatever fails and  *)
(* expires, and a completed row holds its first result (Abort, TryBegin,    *)
(* RebeginIdempotency).                                                     *)
THEOREM NeverForgottenCorrect ==
  ASSUME SingleFault = TRUE PROVE Spec => []NeverForgotten
<1>1. IInv => NeverForgotten
  <2> SUFFICES ASSUME IInv, NEW k \in Keys, effects[k] > 0
               PROVE  /\ idem[k] # NoRow
                      /\ idem[k].st = "Completed" => idem[k].balance = first[k]
    BY DEF NeverForgotten
  <2>1. /\ effects[k] = 1 /\ idem[k].st \in {"InFlight", "Failed", "Completed"}
        /\ idem[k].st = "Completed" => idem[k].balance = first[k]
    BY DEF IInv, KeyInv
  <2>2. QED BY <2>1 DEF NoRow
<1>2. QED BY InvCorrect, <1>1, PTL

(* Whoever repeats a key is answered with the first result, from the row    *)
(* or from the ledger.                                                      *)
THEOREM ReplayCorrect ==
  ASSUME SingleFault = TRUE PROVE Spec => []ReplayIsFirstResult
<1>1. IInv => ReplayIsFirstResult BY DEF IInv
<1>2. QED BY InvCorrect, <1>1, PTL

------------------------------------------------------------------------------
(* The ledger explains the balances.  What was posted, stored or buffered   *)
(* by now, has one entry for each command that took effect and was not      *)
(* flagged.                                                                 *)

Posts == rows \cup Buffered

PostsInv ==
    /\ IsFiniteSet(Posts) /\ Posts \subseteq Entries
    /\ \A d, e \in Posts : d.key = e.key => d = e
    /\ \A e \in Posts : effects[e.key] = 1

FlagInv ==
    /\ IsFiniteSet(flagged) /\ pending = Cardinality(flagged)
    /\ \A k \in Keys : effects[k] = 1 <=> k \in KeysOf(Posts) \cup flagged
    /\ flagged \cap KeysOf(Posts) = {}

Explained ==
    \A p \in Players, c \in Currencies :
        ~Untold(p, c) => wallet[p][c] = Net(Posts, p, c)

(* Commands of which an entry of the ledger can give the whole account: a   *)
(* purchase names the currency of its price, a transfer moves money or      *)
(* items but not both, and no other command names a peer.                   *)
Explicable ==
    \A k \in Keys :
        LET c == Cmd[k] IN
        /\ c.op = "Purchase" => \A cur \in Currencies : Charged(c, cur) => cur = c.currency
        /\ c.op = "Transfer" => c.amount = 0 \/ c.items = <<>>
        /\ c.op # "Transfer" => c.peer = NoPlayer

(* The part of entry e in the balance of p in currency c.                   *)
Part(e, p, c) ==
    IF e.currency = c /\ p \in {e.player, e.peer}
      THEN IF e.player = p THEN e.delta ELSE -e.delta
      ELSE 0

LEMMA PartIsInteger ==
  ASSUME NEW e \in Entries, NEW p, NEW c
  PROVE  Part(e, p, c) \in Int
<1>1. QED BY EconomyAssumption DEF Part, Entries

LEMMA NetIsInteger ==
  ASSUME NEW log, IsFiniteSet(log), log \subseteq Entries, NEW p, NEW c
  PROVE  /\ IsFiniteSet(Concerning(log, p, c))
         /\ \A e \in Concerning(log, p, c) : Share(log, p)[e] = Part(e, p, c)
         /\ Net(log, p, c) \in Int
<1>1. IsFiniteSet(Concerning(log, p, c)) /\ Concerning(log, p, c) \subseteq log
  BY FS_Subset DEF Concerning
<1>2. \A e \in Concerning(log, p, c) : Share(log, p)[e] = Part(e, p, c)
  BY DEF Concerning, Share, Part
<1>3. QED BY <1>1, <1>2, PartIsInteger, SumOfIntegers DEF Net, Sum

LEMMA NetGrows ==
  ASSUME NEW log, IsFiniteSet(log), log \subseteq Entries,
         NEW e \in Entries \ log, NEW p, NEW c
  PROVE  Net(log \cup {e}, p, c) = Net(log, p, c) + Part(e, p, c)
<1> DEFINE more == log \cup {e}
           old  == Concerning(log, p, c)
           new  == Concerning(more, p, c)
<1>1. IsFiniteSet(more) /\ more \subseteq Entries BY FS_AddElement
<1>2. /\ IsFiniteSet(old) /\ \A x \in old : Share(log, p)[x] = Part(x, p, c)
      /\ IsFiniteSet(new) /\ \A x \in new : Share(more, p)[x] = Part(x, p, c)
      /\ Net(log, p, c) \in Int
  <2> HIDE DEF more
  <2>1. QED BY <1>1, NetIsInteger
<1>3. /\ old \subseteq new /\ e \notin old
      /\ new = IF e.currency = c /\ p \in {e.player, e.peer} THEN old \cup {e} ELSE old
  BY DEF Concerning
<1>4. new \subseteq Entries BY DEF Concerning
<1> HIDE DEF more, old, new
<1>5. Sum(Share(more, p), old) = Sum(Share(log, p), old) BY <1>2, <1>3, SumDependsOnValues
<1>6. CASE e.currency = c /\ p \in {e.player, e.peer}
  <2>1. e \in new /\ new \ {e} = old BY <1>3, <1>6
  <2>2. Sum(Share(more, p), new) = Share(more, p)[e] + Sum(Share(more, p), new \ {e})
    BY <1>2, <1>4, <2>1, PartIsInteger, SumRemove
  <2>3. Share(more, p)[e] = Part(e, p, c) /\ Part(e, p, c) \in Int BY <1>2, <2>1, PartIsInteger
  <2>4. Sum(Share(more, p), new) = Part(e, p, c) + Sum(Share(log, p), old)
    BY <1>5, <2>1, <2>2, <2>3
  <2>5. Net(more, p, c) = Net(log, p, c) + Part(e, p, c)
    BY <1>2, <2>3, <2>4 DEF Net, Sum, new, old
  <2>6. QED BY <2>5 DEF more
<1>7. CASE ~(e.currency = c /\ p \in {e.player, e.peer})
  <2>1. Net(more, p, c) = Sum(Share(more, p), new) /\ Net(log, p, c) = Sum(Share(log, p), old)
    BY DEF Net, Sum, new, old
  <2>2. Net(more, p, c) = Net(log, p, c) + Part(e, p, c) BY <1>2, <1>3, <1>5, <1>7, <2>1 DEF Part
  <2>3. QED BY <2>2 DEF more
<1>8. QED BY <1>6, <1>7

(* What the entry says of a command is what the command did to the money.   *)
LEMMA EntryExplains ==
  ASSUME MoneyOK, Explicable, NEW k \in Keys
  PROVE  LET out == Do(World, Cmd[k]) IN
         /\ ~out.applied => out.world.wallet = wallet
         /\ out.applied =>
               \A p \in Players, c \in Currencies :
                  out.world.wallet[p][c] = wallet[p][c] + Part(Entry(k, out), p, c)
<1> DEFINE c   == Cmd[k]
           out == Do(World, c)
           v   == out.world
           e   == Entry(k, out)
<1>1. c \in Commands /\ ValidCommand(c) BY EconomyAssumption
<1>2. Solvent(World) /\ World.wallet = wallet BY DEF World, Solvent, MoneyOK, Wallets
<1>3. MoneyEffect(World, c, out) BY <1>1, <1>2, DoMovesMoney
<1>4. /\ c.player \in Players /\ c.currency \in Currencies \cup {NoCurrency}
      /\ c.amount \in Nat
  BY <1>1 DEF Commands
<1>5. /\ c.op = "Purchase" => \A cur \in Currencies : Charged(c, cur) => cur = c.currency
      /\ c.op = "Transfer" => c.amount = 0 \/ c.items = <<>>
      /\ c.op # "Transfer" => c.peer = NoPlayer
  BY DEF Explicable
<1> DEFINE had == Balance(World, c.player, c.currency)
<1>6. /\ e.player = c.player /\ e.peer = c.peer /\ e.currency = c.currency
      /\ e.delta = out.balance - had
  BY DEF Entry
<1>7. wallet \in Wallets /\ \A p \in Players, cur \in Currencies : wallet[p][cur] \in Int
  BY EconomyAssumption DEF MoneyOK, Wallets
<1>8. had \in Int BY <1>2, <1>4, BalanceInRange, EconomyAssumption
<1>9. c.currency \in Currencies =>
         had = wallet[c.player][c.currency]
         /\ Balance(v, c.player, c.currency) = v.wallet[c.player][c.currency]
  BY <1>2 DEF Balance
<1>10. c.peer = NoPlayer => c.peer \notin Players BY EconomyAssumption
<1> HIDE DEF c, out, v, e, had
<1> DEFINE goal == /\ ~out.applied => v.wallet = wallet
                   /\ out.applied =>
                         \A p \in Players, cur \in Currencies :
                            v.wallet[p][cur] = wallet[p][cur] + Part(e, p, cur)
<1>11. ASSUME SameMoney(World, v), out.applied => out.balance = had
       PROVE  goal
  <2>1. out.applied => \A p, cur : Part(e, p, cur) = 0 BY <1>6, <1>8, <1>11 DEF Part
  <2>2. QED BY <1>2, <1>7, <1>11, <2>1 DEF SameMoney
<1>12. ASSUME out.applied, c.op # "Transfer", NEW cur, NEW d, Charged(c, cur),
              Issued(World, v, c.player, cur, d),
              out.balance = Balance(v, c.player, cur)
       PROVE  goal
  <2>1. cur = c.currency /\ cur \in Currencies /\ d \in Int BY <1>5, <1>12 DEF Charged, Issued
  <2>2. \A p \in Players, x \in Currencies :
           v.wallet[p][x] = IF p = c.player /\ x = cur THEN wallet[p][x] + d ELSE wallet[p][x]
    BY <1>2, <1>4, <1>7, <1>12, <2>1, ShiftedIsWallet DEF Issued
  <2>3. e.delta = d BY <1>4, <1>6, <1>7, <1>9, <1>12, <2>1, <2>2
  <2>4. ASSUME NEW p \in Players, NEW x \in Currencies
        PROVE  v.wallet[p][x] = wallet[p][x] + Part(e, p, x)
    <3>1. Part(e, p, x) = IF p = c.player /\ x = cur THEN d ELSE 0
      BY <1>5, <1>6, <1>10, <1>12, <2>1, <2>3 DEF Part
    <3>2. QED BY <1>7, <2>2, <3>1
  <2>5. QED BY <1>12, <2>4
<1>13. ASSUME c.op = "Transfer", ~out.applied => c.items # <<>>,
              Passed(World, v, c.player, c.peer, c.currency, c.amount),
              out.balance = Balance(v, c.player, c.currency)
       PROVE  goal
  <2> DEFINE cur  == c.currency
             d    == c.amount
             half == Shifted(wallet, c.player, cur, -d)
  <2>1. /\ c.peer \in Players /\ c.peer # c.player /\ cur \in Currencies
        /\ d \in Nat /\ d # 0 /\ -d \in Int
        /\ wallet[c.player][cur] - d \in 0..MaxBalance
        /\ wallet[c.peer][cur] + d \in 0..MaxBalance
        /\ v.wallet = Shifted(half, c.peer, cur, d)
    BY <1>2, <1>13 DEF Passed
  <2>2. out.applied BY <1>5, <1>13, <2>1
  <2>3. wallet[c.player][cur] + (-d) \in 0..MaxBalance BY <1>4, <1>7, <2>1
  <2> HIDE DEF d, cur
  <2>4. /\ half \in Wallets
        /\ \A p \in Players, x \in Currencies :
              half[p][x] = IF p = c.player /\ x = cur THEN wallet[p][x] + (-d) ELSE wallet[p][x]
    BY <1>4, <1>7, <2>1, <2>3, ShiftedIsWallet
  <2> HIDE DEF half
  <2>5. \A p \in Players, x \in Currencies :
           v.wallet[p][x] = IF p = c.peer /\ x = cur THEN half[p][x] + d ELSE half[p][x]
    BY <2>1, <2>4, ShiftedIsWallet
  <2>6. \A p \in Players, x \in Currencies :
           v.wallet[p][x] = wallet[p][x] + (IF x = cur THEN IF p = c.player THEN -d
                                                           ELSE IF p = c.peer THEN d ELSE 0
                                                      ELSE 0)
    BY <1>7, <2>1, <2>4, <2>5
  <2>7. v.wallet[c.player][cur] = wallet[c.player][cur] - d /\ wallet[c.player][cur] \in Int
    BY <1>4, <1>7, <2>1, <2>6
  <2>8. ASSUME NEW p \in Players, NEW x \in Currencies
         PROVE  Part(e, p, x) = IF x = cur THEN IF p = c.player THEN -d
                                                ELSE IF p = c.peer THEN d ELSE 0
                                           ELSE 0
    BY <1>6, <1>9, <1>13, <2>1, <2>7 DEF Part, cur
  <2>9. QED BY <2>2, <2>6, <2>8
<1>14. goal
  <2> HIDE DEF goal
  <2>1. QED BY <1>3, <1>11, <1>12, <1>13, Zenon DEF MoneyEffect, v, had
<1>15. QED BY <1>14 DEF v, out, e, c

(* An entry that a flush skips is in the store already.                     *)
LEMMA UnstoredCompletes ==
  ASSUME MoneyOK, PostsInv
  PROVE  /\ rows \cup Unstored(Len(ring)) = rows \cup Buffered
         /\ \A n \in 0..Len(ring) : Unstored(n) \subseteq Buffered
         /\ PostedEntries = Posts
<1>1. \A n \in 0..Len(ring) : Unstored(n) \subseteq Buffered BY UnstoredIsBuffered
<1>2. ASSUME NEW d \in Buffered PROVE d \in rows \cup Unstored(Len(ring))
  <2>1. CASE d.key \in StoredKeys
    <3>1. PICK e \in rows : e.key = d.key BY <2>1 DEF StoredKeys, KeysOf
    <3>2. QED BY <3>1 DEF PostsInv, Posts
  <2>2. CASE d.key \notin StoredKeys BY <2>2 DEF Unstored, Buffered
  <2>3. QED BY <2>1, <2>2
<1>3. Len(ring) \in 0..Len(ring) BY DEF MoneyOK
<1>4. QED BY <1>1, <1>2, <1>3 DEF PostedEntries, RowsAfter, Posts

LEMMA PostAddsEntry ==
  ASSUME MoneyOK, PostsInv, NEW e \in Entries, NEW drain \in {0, 1}, PostLedger(e, drain)
  PROVE  Posts' = IF Posted(e, drain) THEN Posts \cup {e} ELSE Posts
<1>1. /\ ring \in Seq(Entries) /\ Len(ring) <= Capacity /\ Len(ring) \in Nat
      /\ Capacity \in Nat \ {0}
  BY EconomyAssumption DEF MoneyOK
<1>2. CASE Len(ring) < Capacity
  <2>1. /\ ring' = IF Posted(e, drain) THEN Append(ring, e) ELSE ring
        /\ rows' = rows
    <3>1. Len(ring) # Capacity BY <1>1, <1>2
    <3>2. QED BY <1>2, <3>1, Zenon DEF PostLedger, AppendToLedger
  <2>2. CASE Posted(e, drain)
    <3>1. /\ Len(ring') = Len(ring) + 1 /\ ring'[Len(ring) + 1] = e
          /\ \A i \in 1..Len(ring) : ring'[i] = ring[i]
      BY <1>1, <2>1, <2>2
    <3>2. QED BY <1>1, <2>1, <2>2, <3>1 DEF Posts, Buffered
  <2>3. CASE ~Posted(e, drain) BY <2>1, <2>3 DEF Posts, Buffered
  <2>4. QED BY <2>2, <2>3
<1>3. CASE Len(ring) = Capacity /\ drain = 0
  <2>1. ring' = <<e>> /\ rows' = rows \cup Unstored(Len(ring))
    BY <1>1, <1>3 DEF PostLedger, AppendToLedger, RowsAfter
  <2>2. Posted(e, drain) BY <1>3 DEF Posted
  <2>3. QED BY <2>1, <2>2, UnstoredCompletes DEF Posts, Buffered
<1>4. CASE Len(ring) = Capacity /\ drain = 1
  <2>1. PICK n \in 0..Len(ring) - 1 : rows' = rows \cup Unstored(n) /\ ring' = ring
    BY <1>1, <1>4 DEF PostLedger, AppendToLedger, RowsAfter
  <2>2. ~Posted(e, drain) BY <1>4 DEF Posted
  <2>3. QED BY <1>1, <2>1, <2>2, UnstoredCompletes DEF Posts, Buffered
<1>5. QED BY <1>1, <1>2, <1>3, <1>4

LEMMA FlushKeepsPosts ==
  ASSUME MoneyOK, PostsInv, Flush
  PROVE  Posts' = Posts
<1>1. CASE ring' = <<>> /\ rows' = RowsAfter(Len(ring))
  BY <1>1, UnstoredCompletes DEF Posts, RowsAfter, Buffered
<1>2. CASE ring' = ring /\ \E n \in 0..Len(ring) - 1 : rows' = RowsAfter(n)
  <2>1. PICK n \in 0..Len(ring) - 1 : rows' = rows \cup Unstored(n) BY <1>2 DEF RowsAfter
  <2>2. Buffered' = Buffered BY <1>2 DEF Buffered
  <2>3. Unstored(n) \subseteq Buffered
    <3>1. n \in 0..Len(ring) BY DEF MoneyOK
    <3>2. QED BY <3>1, UnstoredIsBuffered
  <2>4. QED BY <2>1, <2>2, <2>3 DEF Posts
<1>3. QED BY <1>1, <1>2 DEF Flush, FlushAll, FlushSome

LInv == IInv /\ PostsInv /\ FlagInv /\ Explained

LEMMA LInvInit == Init => LInv
<1> SUFFICES ASSUME Init PROVE LInv OBVIOUS
<1>1. Posts = {} BY DEF Init, Posts, Buffered
<1>2. ASSUME NEW p \in Players, NEW c \in Currencies PROVE wallet[p][c] = Net(Posts, p, c)
  <2>1. Sum(Share({}, p), {}) = 0 BY FS_EmptySet, SumChoose
  <2>2. Net(Posts, p, c) = 0 BY <1>1, <2>1 DEF Net, Sum, Concerning
  <2>3. QED BY <2>2 DEF Init
<1>3. FlagInv BY <1>1, FS_EmptySet DEF Init, FlagInv, KeysOf
<1>4. QED BY <1>1, <1>2, <1>3, FS_EmptySet, InvInit DEF LInv, Explained, PostsInv

LEMMA LInvStep ==
  ASSUME SingleFault = TRUE, Explicable, LInv, [Next]_vars
  PROVE  LInv'
<1>1. /\ IInv /\ MoneyOK /\ PostsInv /\ FlagInv /\ Explained
      /\ effects \in [Keys -> Nat] /\ flagged \subseteq Keys
      /\ wallet \in Wallets
  BY DEF LInv, IInv, MoneyOK, Wallets
<1>2. IInv' BY <1>1, InvStep
<1>3. ASSUME wallet' = wallet, Posts' = Posts, UNCHANGED <<effects, pending, flagged>>
      PROVE  LInv'
  <2>1. KeysOf(Posts)' = KeysOf(Posts) BY <1>3 DEF KeysOf
  <2>2. FlagInv' BY <1>1, <1>3, <2>1 DEF FlagInv
  <2>3. QED BY <1>1, <1>2, <1>3, <2>2 DEF LInv, PostsInv, Explained, Untold
<1>4. ASSUME wallet' = wallet, UNCHANGED <<ring, rows, pending, flagged, effects>>
      PROVE  LInv'
  BY <1>3, <1>4 DEF Posts, Buffered
<1>5. ASSUME NEW k \in Keys, RunApplied(k) PROVE LInv'
  <2> DEFINE out == Do(World, Cmd[k])
             e   == Entry(k, out)
  <2>1. e \in Entries /\ e.key = k BY <1>1, OutcomeIsTyped DEF Entry
  <2>2. PICK query \in {0, 1}, drain \in {0, 1} :
           /\ MayRun(k, query) /\ out.applied /\ wallet' = out.world.wallet
           /\ PostLedger(e, drain)
           /\ effects' = [effects EXCEPT ![k] = @ + 1]
    BY <1>5 DEF RunApplied
  <2>3. \A p \in Players, c \in Currencies :
           wallet'[p][c] = wallet[p][c] + Part(e, p, c)
    BY <1>1, <2>2, EntryExplains
  <2> HIDE DEF out, e
  <2>4. effects[k] = 0 BY <1>1, <2>2, OnlyFreshKeysRun
  <2>5. /\ effects'[k] = 1
        /\ \A j \in Keys : effects[j] = 1 => effects'[j] = 1
    BY <1>1, <2>2, <2>4
  <2>6. \A d \in Posts : d.key # k /\ d.key \in Keys BY <1>1, <2>4 DEF PostsInv, Entries
  <2>7. /\ Posts' = IF Posted(e, drain) THEN Posts \cup {e} ELSE Posts
        /\ pending' = IF Posted(e, drain) THEN pending ELSE pending + 1
        /\ flagged' = IF Posted(e, drain) THEN flagged ELSE flagged \cup {k}
        /\ e \notin Posts
    BY <1>1, <2>1, <2>2, <2>6, PostAddsEntry, PostIsSound
  <2>8. PostsInv' BY <1>1, <2>1, <2>5, <2>6, <2>7, FS_AddElement DEF PostsInv
  <2>9. FlagInv'
    <3>1. /\ IsFiniteSet(flagged) /\ pending = Cardinality(flagged)
          /\ k \notin flagged /\ k \notin KeysOf(Posts)
          /\ flagged \cap KeysOf(Posts) = {}
          /\ \A j \in Keys : effects[j] = 1 <=> j \in KeysOf(Posts) \cup flagged
      BY <1>1, <2>4 DEF FlagInv
    <3>2. \A j \in Keys \ {k} : effects'[j] = effects[j] BY <1>1, <2>2
    <3>3. CASE Posted(e, drain)
      <4>1. KeysOf(Posts)' = KeysOf(Posts) \cup {k} BY <2>1, <2>7, <3>3 DEF KeysOf
      <4>2. QED BY <2>5, <2>7, <3>1, <3>2, <3>3, <4>1 DEF FlagInv
    <3>4. CASE ~Posted(e, drain)
      <4>1. KeysOf(Posts)' = KeysOf(Posts) BY <2>7, <3>4 DEF KeysOf
      <4>2. /\ IsFiniteSet(flagged') /\ Cardinality(flagged') = Cardinality(flagged) + 1
        BY <2>7, <3>1, <3>4, FS_AddElement
      <4>3. QED BY <2>5, <2>7, <3>1, <3>2, <3>4, <4>1, <4>2 DEF FlagInv
    <3>5. QED BY <3>3, <3>4
  <2>10. Explained'
    <3> SUFFICES ASSUME NEW p \in Players, NEW c \in Currencies, ~Untold(p, c)'
                 PROVE  wallet'[p][c] = Net(Posts', p, c)
      BY DEF Explained
    <3> DEFINE log == Posts
    <3>1. IsFiniteSet(log) /\ log \subseteq Entries /\ e \in Entries \ log
      BY <1>1, <2>1, <2>7 DEF PostsInv
    <3>2. wallet[p][c] = Net(log, p, c) /\ wallet[p][c] \in Int
      <4>1. ~Untold(p, c) BY <2>7 DEF Untold
      <4>2. QED BY <1>1, <4>1, EconomyAssumption DEF Explained, Wallets
    <3>3. CASE Posted(e, drain)
      <4>1. Posts' = log \cup {e} BY <2>7, <3>3
      <4> HIDE DEF log
      <4>2. QED BY <2>3, <3>1, <3>2, <4>1, NetGrows
    <3>4. CASE ~Posted(e, drain)
      <4>1. /\ e.player = Cmd[k].player /\ e.peer = Cmd[k].peer
            /\ e.currency = Cmd[k].currency
        BY DEF e, Entry
      <4>2. ~(Cmd[k].currency = c /\ p \in {Cmd[k].player, Cmd[k].peer})
        BY <2>7, <3>4 DEF Untold
      <4>3. Part(e, p, c) = 0 BY <4>1, <4>2 DEF Part
      <4>4. Posts' = log BY <2>7, <3>4
      <4>5. QED BY <2>3, <3>2, <4>3, <4>4
    <3>5. QED BY <3>3, <3>4
  <2>11. QED BY <1>2, <2>8, <2>9, <2>10 DEF LInv
<1>6. ASSUME NEW k \in Keys, RunRejected(k) PROVE LInv'
  <2>1. UNCHANGED <<ring, rows, pending, flagged, effects>>
    BY <1>6 DEF RunRejected, ledger, history
  <2>2. QED BY <1>1, <1>4, <1>6, <2>1, EntryExplains DEF RunRejected
<1>7. ASSUME NEW k \in Keys,
             Replay(k) \/ Blocked(k) \/ Unreadable(k) \/ Recover(k) \/ BeginFails(k)
      PROVE  LInv'
  BY <1>4, <1>7
     DEF Replay, Blocked, Unreadable, Recover, BeginFails, world, ledger, history
<1>8. CASE Flush
  <2>1. wallet' = wallet /\ UNCHANGED <<effects, pending, flagged>>
    BY <1>8 DEF Flush, world, history
  <2>2. QED BY <1>1, <1>3, <1>8, <2>1, FlushKeepsPosts
<1>9. CASE Tick \/ UNCHANGED vars BY <1>4, <1>9 DEF Tick, vars, world, ledger, history
<1>10. QED BY <1>5, <1>6, <1>7, <1>8, <1>9 DEF Next, Execute

(* INTERFACE.md 6 and 16: for every set of commands an entry can account    *)
(* for, across retries, failed commits and flushes that stop half way, the  *)
(* entries the ledger holds add up to every balance that no flagged command *)
(* moved, and the flagged commands are exactly those that took effect and   *)
(* are in no entry, as many as the counter says: an entry that the full     *)
(* ledger refused is missing, and its command is known.                     *)
THEOREM LedgerExplainsCorrect ==
  ASSUME SingleFault = TRUE, Explicable PROVE Spec => []LedgerExplainsBalances
<1>1. LInv /\ [Next]_vars => LInv' BY SingleFault = TRUE, Explicable, LInvStep
<1>2. LInv => LedgerExplainsBalances
  <2> SUFFICES ASSUME LInv PROVE LedgerExplainsBalances OBVIOUS
  <2>1. PostedEntries = Posts BY UnstoredCompletes DEF LInv, IInv
  <2>2. \A k \in Keys : effects[k] > 0 <=> effects[k] = 1 BY DEF LInv, IInv, KeyInv
  <2>3. flagged = {k \in Keys : effects[k] > 0} \ KeysOf(PostedEntries)
    BY <2>1, <2>2 DEF LInv, IInv, MoneyOK, FlagInv
  <2>4. QED BY <2>1, <2>3 DEF LInv, FlagInv, Explained, LedgerExplainsBalances
<1>3. QED BY LInvInit, <1>1, <1>2, PTL DEF Spec

=============================================================================
