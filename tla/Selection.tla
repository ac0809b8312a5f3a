----------------------------- MODULE Selection -----------------------------
(***************************************************************************)
(* Which coins pay for a contract (selectPayCoins and getCoinsForPayment in  *)
(* operations/pay.ts) and which denominations are withdrawn for an amount    *)
(* (getWithdrawDenomList in operations/withdraw.ts).  Amounts are naturals,   *)
(* of one currency.                                                         *)
(***************************************************************************)
EXTENDS Amounts, Sums

Remainder(a, b) == IF a < b THEN 0 ELSE a - b

\* A set of coins in the order of a strict order on them.
InOrder(S, Precedes(_, _)) ==
  [i \in 1..Cardinality(S) |-> CHOOSE x \in S : Cardinality({y \in S : Precedes(y, x)}) = i - 1]

----------------------------------------------------------------------------
(* selectPayCoins.  A coin has a name, what is available of it, and the fee  *)
(* for depositing it.                                                       *)

\* What is worth most comes first, then what costs least, then by name.
IsBefore(a, b) ==
  \/ a.available > b.available
  \/ a.available = b.available /\ a.feeDeposit < b.feeDeposit
  \/ a.available = b.available /\ a.feeDeposit = b.feeDeposit /\ a.coinPub < b.coinPub

\* The first coins are used up; the one that is worth more than what remains gives that and
\* what the customer spends for its fee, but its fee at least.  A coin that costs what it is
\* worth is not used.
UseCoin(acc, coin) ==
  LET spend == Remainder(coin.feeDeposit, acc.limit)
      contribution == IF Remainder(coin.available, spend) > acc.remaining
                      THEN IF acc.remaining + spend < coin.feeDeposit THEN coin.feeDeposit ELSE acc.remaining + spend
                      ELSE coin.available
  IN IF coin.feeDeposit >= coin.available \/ acc.remaining = 0 THEN acc
     ELSE [remaining |-> IF Remainder(coin.available, spend) > acc.remaining THEN 0
                         ELSE Remainder(acc.remaining + spend, coin.available),
           limit |-> Remainder(acc.limit, coin.feeDeposit),
           chosen |-> Append(acc.chosen, [coin |-> coin, contribution |-> contribution])]

\* The fees the customer pays are reported as zero, whatever was spent for them.
SelectPayCoins(coins, amount, feeLimit) ==
  LET used == FoldLeft(UseCoin, [remaining |-> amount, limit |-> feeLimit, chosen |-> <<>>], InOrder(coins, IsBefore))
  IN IF coins = {} \/ used.remaining > 0 THEN Undef
     ELSE [paymentAmount |-> amount, chosen |-> used.chosen, customerWireFees |-> 0, customerDepositFees |-> 0]

----------------------------------------------------------------------------
(* getCoinsForPayment *)

IsAllowed(exchange, contract) ==
  \/ exchange.masterPub \in contract.allowedExchanges
  \/ exchange.auditors \cap contract.allowedAuditors # {}

AvailableCoins(exchange) == {c \in exchange.coins : ~c.suspended /\ c.status = "Fresh"}

\* The first wire fee.  Its period is compared with the contract's time, but they are
\* objects, and of two objects neither is less: both comparisons are always true.
WireFee(exchange) == IF exchange.fees = <<>> THEN Undef ELSE Head(exchange.fees).wireFee

\* What the customer pays of it: all of his share, if that is more than the merchant bears.
CustomerWireFee(exchange, contract) ==
  LET fee == WireFee(exchange)
      share == fee \div contract.wireFeeAmortization
  IN IF fee = Undef THEN 0 ELSE IF contract.maxWireFee < share THEN share ELSE 0

\* One exchange after the other, until one has the coins.  The wire fee of an exchange that
\* had not is still asked of the next one.
TryExchange(contract, acc, exchange) ==
  LET remaining == acc.remaining + CustomerWireFee(exchange, contract)
      result == SelectPayCoins(AvailableCoins(exchange), remaining, contract.maxDepositFee)
  IN IF \/ acc.result # Undef
        \/ ~exchange.hasDetails \/ ~exchange.hasWireInfo
        \/ ~IsAllowed(exchange, contract)
        \/ exchange.coins = {}
     THEN acc
     ELSE [remaining |-> remaining, exchange |-> exchange, result |-> result]

GetCoinsForPayment(exchanges, contract) ==
  FoldLeft(LAMBDA acc, e : TryExchange(contract, acc, e),
           [remaining |-> contract.amount, exchange |-> Undef, result |-> Undef], exchanges)

----------------------------------------------------------------------------
(* getWithdrawDenomList *)

\* 50 seconds are left at least.
IsWithdrawableDenom(denom, now, margin) ==
  /\ timestampCmp(now, denom.stampStart) >= 0
  /\ getDurationRemaining(timestampSubtractDuraction(denom.stampExpireWithdraw, margin), now) # 0
  /\ ~denom.isRevoked

CostOf(denom) == denom.value + denom.feeWithdraw

\* Up to so many times (1000) the first of the denominations that is affordable.
PickFirst(denoms, affordable, acc) ==
  LET denom == denoms[Min(affordable)]
  IN IF affordable = {} THEN acc
     ELSE [remaining |-> Remainder(acc.remaining, CostOf(denom)), picked |-> Append(acc.picked, denom)]
\* Mutant: the fee for withdrawing it is not looked at.
PickByValue(denoms, acc) == PickFirst(denoms, {i \in DOMAIN denoms : denoms[i].value <= acc.remaining}, acc)
PickDenom(denoms, acc) == PickFirst(denoms, {i \in DOMAIN denoms : CostOf(denoms[i]) <= acc.remaining}, acc)

\* The greatest denominations come first, equal ones in the order in which they were given.
GetWithdrawDenomList(amount, denoms, now, margin, times) ==
  LET withdrawable == {i \in DOMAIN denoms : IsWithdrawableDenom(denoms[i], now, margin)}
      Precedes(i, j) == \/ denoms[i].value > denoms[j].value
                        \/ denoms[i].value = denoms[j].value /\ i < j
      places == InOrder(withdrawable, Precedes)
      ordered == [i \in DOMAIN places |-> denoms[places[i]]]
  IN FoldLeft(LAMBDA acc, i : PickDenom(ordered, acc),
              [remaining |-> amount, picked |-> <<>>], [i \in 1..times |-> i]).picked

----------------------------------------------------------------------------
(* What the selections promise.                                             *)

\* The fees for depositing coins that the merchant does not bear.
Toll(coins, feeLimit) == Remainder(Sum([c \in coins |-> c.feeDeposit], coins), feeLimit)
Contributed(chosen) == Sum([i \in DOMAIN chosen |-> chosen[i].contribution], DOMAIN chosen)
CoinsOf(chosen) == {chosen[i].coin : i \in DOMAIN chosen}

\* The coins that are selected pay the amount and the fees that the merchant does not bear,
\* each once, none with more than it has or less than it costs, and an amount is refused
\* only if all coins together cannot pay it, or there is none.
PaymentFits(coins, amount, feeLimit) ==
  LET result == SelectPayCoins(coins, amount, feeLimit)
      usable == {c \in coins : c.feeDeposit < c.available}
      chosen == result.chosen
  IN IF result = Undef
     THEN coins = {} \/ Sum([c \in usable |-> c.available], usable) < amount + Toll(usable, feeLimit)
     ELSE /\ CoinsOf(chosen) \subseteq coins
          /\ \A i \in DOMAIN chosen : chosen[i].contribution \in chosen[i].coin.feeDeposit..chosen[i].coin.available
          /\ \A i, j \in DOMAIN chosen : i # j => chosen[i].coin # chosen[j].coin
          /\ Contributed(chosen) >= amount + Toll(CoinsOf(chosen), feeLimit)

\* What an exchange is paid with is its own, allowed, and enough with what the customer bears.
ContractFits(exchanges, contract) ==
  LET paid == GetCoinsForPayment(exchanges, contract)
      chosen == paid.result.chosen
  IN paid.result # Undef =>
       /\ paid.exchange \in ToSet(exchanges)
       /\ IsAllowed(paid.exchange, contract) /\ paid.exchange.hasWireInfo
       /\ CoinsOf(chosen) \subseteq AvailableCoins(paid.exchange)
       /\ Contributed(chosen) >= contract.amount + CustomerWireFee(paid.exchange, contract)
                                  + Toll(CoinsOf(chosen), contract.maxDepositFee)

\* What is withdrawn costs no more than there is, and unless it is as many coins as are picked
\* at most, nothing is left that would pay for another one.
WithdrawalFits(amount, denoms, now, margin, times) ==
  LET picked == GetWithdrawDenomList(amount, denoms, now, margin, times)
      withdrawable == {d \in ToSet(denoms) : IsWithdrawableDenom(d, now, margin)}
      cost == Sum([i \in DOMAIN picked |-> CostOf(picked[i])], DOMAIN picked)
  IN /\ ToSet(picked) \subseteq withdrawable
     /\ Len(picked) <= times
     /\ cost <= amount
     /\ Len(picked) < times => \A d \in withdrawable : CostOf(d) > amount - cost

----------------------------------------------------------------------------
(* What it costs.  The denominations of an exchange have a fee for melting a  *)
(* coin, too.                                                               *)

\* getTotalRefreshCost: what is lost of an amount left on a coin that is refreshed.
GetTotalRefreshCost(denoms, feeRefresh, left, now, margin, times) ==
  LET picked == GetWithdrawDenomList(Remainder(left, feeRefresh), denoms, now, margin, times)
  IN Remainder(left, FoldLeft(LAMBDA sum, d : sum + d.value, 0, picked))

\* getTotalPaymentCost: the amount and the fees of the selection, and what refreshing the
\* selected coins loses, by what is left on each.
GetTotalPaymentCost(selection, refreshCost) ==
  FoldLeft(LAMBDA sum, c : sum + refreshCost[Remainder(c.coin.value, c.contribution)],
           selection.paymentAmount + selection.customerDepositFees + selection.customerWireFees,
           selection.chosen)
=============================================================================
