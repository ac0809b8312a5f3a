----------------------------- MODULE Signatures -----------------------------
(***************************************************************************)
(* What the wallet signs and blinds (cryptoImplementation.ts), over the       *)
(* primitives of talerCrypto.ts.  RSA is computed with numbers, small ones;    *)
(* everywhere else a key, a hash or a signature is a term that says what it    *)
(* was made from, and two terms are equal when they were made alike.          *)
(***************************************************************************)
EXTENDS Amounts

----------------------------------------------------------------------------
(* Blind signatures.  A public key has its modulus N and its exponent e.      *)
RECURSIVE Gcd(_, _)
Gcd(a, b) == IF b = 0 THEN a ELSE Gcd(b, a % b)
ModPow(b, exponent, n) == FoldLeft(LAMBDA p, i : (p * b) % n, 1 % n, [i \in 1..exponent |-> i])
ModInv(a, n) == IF \E x \in 0..n - 1 : (a * x) % n = 1 THEN CHOOSE x \in 0..n - 1 : (a * x) % n = 1 ELSE Throws

\* kdfMod: of the numbers that the bytes give one after the other, with the bits cut off that
\* the modulus does not have, the first that is smaller than the modulus.
BitLength(n) == CHOOSE k \in 0..n : 2 ^ k > n /\ \A j \in 0..k - 1 : 2 ^ j <= n
KdfMod(n, bufs, byteBits) ==
  LET nbits == BitLength(n)
      buflen == (nbits - 1) \div byteBits + 1
      maskBits == byteBits - (buflen * byteBits - nbits)
      rest == 2 ^ ((buflen - 1) * byteBits)
      masked(buf) == (((buf \div rest) % 2 ^ maskBits) * rest) + (buf % rest)
      fits == SelectSeq(bufs, LAMBDA buf : masked(buf) < n)
  IN IF fits = <<>> THEN Undef ELSE masked(Head(fits))

\* data is what kdfMod gives for the hash of a message, r what it gives for a blinding key.
RsaFullDomainHash(data, pub) == IF Gcd(data, pub.N) # 1 THEN Throws ELSE data
RsaBlind(data, r, pub) ==
  IF RsaFullDomainHash(data, pub) = Throws THEN Throws ELSE (ModPow(r, pub.e, pub.N) * data) % pub.N
\* Mutant: the blinding key's inverse is forgotten.
RsaBlindAgain(sig, r, pub) == (sig * r) % pub.N
RsaUnblind(sig, r, pub) == IF ModInv(r, pub.N) = Throws THEN Throws ELSE (sig * ModInv(r, pub.N)) % pub.N
RsaVerify(data, sig, pub) ==
  IF RsaFullDomainHash(data, pub) = Throws THEN Throws ELSE ModPow(sig, pub.e, pub.N) = data

----------------------------------------------------------------------------
(* Terms. *)
Pub(priv) == <<"pub", priv>>
Hash(term) == <<"hash", term>>
EddsaSign(purpose, content, priv) == [purpose |-> purpose, content |-> content, by |-> priv]
EddsaVerify(purpose, content, sig, pub) == sig.purpose = purpose /\ sig.content = content /\ Pub(sig.by) = pub

\* Both sides of a key exchange come to the same secret.
SharedSecret(priv, pub) == <<"secret", {priv, pub[2]}>>
KeyExchangeEddsaEcdhe(eddsaPriv, ecdhePub) == SharedSecret(eddsaPriv, ecdhePub)
KeyExchangeEcdheEddsa(ecdhePriv, eddsaPub) == SharedSecret(ecdhePriv, eddsaPub)

Hmac(digest, key, message) == <<digest, key, message>>
\* kdf, in chunks of 32 bytes: each is made from the one before.
Kdf(chunks, ikm, salt, info) ==
  LET prk == Hmac("sha512", salt, ikm)
      add(output, i) == Append(output, Hmac("sha256", prk, <<IF i = 1 THEN <<>> ELSE output[i - 1], info, i>>))
  IN FoldLeft(add, <<>>, [i \in 1..chunks |-> i])

\* A blinded term can be signed by a denomination's key, and unblinded with its blinding key.
Blinded(term, bks, denomPub) == [hidden |-> term, with |-> bks, key |-> denomPub]
SignedBlindly(ev, denomPub) == [on |-> ev, key |-> denomPub]
Unblinded(sig, bks, denomPub) ==
  IF sig.key = denomPub /\ sig.on.key = denomPub /\ sig.on.with = bks THEN [signed |-> sig.on.hidden, key |-> denomPub] ELSE Undef
IsDenomSig(term, sig, denomPub) == sig = [signed |-> term, key |-> denomPub]

\* timestampRoundedToBuffer: seconds; for ever is no number, which throws.
TimestampRoundedToBuffer(ts, second) == IF ts = Forever THEN Throws ELSE timestampTruncateToSecond(ts, second)

----------------------------------------------------------------------------
(* Withdrawing.  A denomination has a key, a value and fees. *)
CreatePlanchet(reservePriv, denom, coinPriv, blindingKey) ==
  LET ev == Blinded(Hash(Pub(coinPriv)), blindingKey, denom.denomPub)
      amountWithFee == AddOne(Exact(denom.value), denom.feeWithdraw).amount
  IN [coinPriv |-> coinPriv, coinPub |-> Pub(coinPriv), blindingKey |-> blindingKey, coinEv |-> ev,
      denomPub |-> denom.denomPub, denomPubHash |-> Hash(denom.denomPub), reservePub |-> Pub(reservePriv),
      withdrawSig |-> EddsaSign("RESERVE_WITHDRAW",
                        <<Pub(reservePriv), amountWithFee, denom.feeWithdraw, Hash(denom.denomPub), Hash(ev)>>, reservePriv)]

\* A tip is withdrawn by the merchant: nothing is signed.
CreateTipPlanchet(denom, coinPriv, blindingKey) ==
  [coinPriv |-> coinPriv, coinPub |-> Pub(coinPriv), blindingKey |-> blindingKey,
   coinEv |-> Blinded(Hash(Pub(coinPriv)), blindingKey, denom.denomPub),
   denomPub |-> denom.denomPub, denomPubHash |-> Hash(denom.denomPub)]

\* processPlanchet makes a coin only of a signature that verifies.
CoinOf(planchet, sig) ==
  LET denomSig == Unblinded(sig, planchet.blindingKey, planchet.denomPub)
  IN IF ~IsDenomSig(Hash(planchet.coinPub), denomSig, planchet.denomPub) THEN Throws
     ELSE [coinPriv |-> planchet.coinPriv, coinPub |-> planchet.coinPub, blindingKey |-> planchet.blindingKey,
           denomPub |-> planchet.denomPub, denomPubHash |-> planchet.denomPubHash, denomSig |-> denomSig]

CreateRecoupRequest(coin, refreshed) ==
  [coin_blind_key_secret |-> coin.blindingKey, coin_pub |-> coin.coinPub, denom_pub_hash |-> coin.denomPubHash,
   denom_sig |-> coin.denomSig, refreshed |-> refreshed,
   coin_sig |-> EddsaSign("WALLET_COIN_RECOUP", <<coin.coinPub, coin.denomPubHash, coin.blindingKey>>, coin.coinPriv)]

----------------------------------------------------------------------------
(* Paying. *)
SignDepositPermission(coin, feeDeposit, contract, spendAmount, second) ==
  LET timestamp == TimestampRoundedToBuffer(contract.timestamp, second)
      refundDeadline == TimestampRoundedToBuffer(contract.refundDeadline, second)
  IN IF timestamp = Throws \/ refundDeadline = Throws THEN Throws
     ELSE [coin_pub |-> coin.coinPub, denom_pub |-> coin.denomPub, ub_sig |-> coin.denomSig,
           contribution |-> Stringify(spendAmount),
           coin_sig |-> EddsaSign("WALLET_COIN_DEPOSIT",
                          <<contract.contractTermsHash, contract.wireInfoHash, timestamp, refundDeadline, spendAmount,
                            feeDeposit, contract.merchantPub, coin.coinPub>>, coin.coinPriv)]

IsValidPaymentSignature(sig, contractHash, merchantPub) ==
  EddsaVerify("MERCHANT_PAYMENT_OK", <<contractHash>>, sig, merchantPub)

----------------------------------------------------------------------------
(* What the exchange's master key signs. *)
IsValidWireFee(type, wf, masterPub, second) ==
  LET start == TimestampRoundedToBuffer(wf.startStamp, second)
      end == TimestampRoundedToBuffer(wf.endStamp, second)
  IN IF start = Throws \/ end = Throws THEN Throws
     ELSE EddsaVerify("MASTER_WIRE_FEES", <<Hash(type), start, end, wf.wireFee, wf.closingFee>>, wf.sig, masterPub)

DenomStamps == <<"stampStart", "stampExpireWithdraw", "stampExpireDeposit", "stampExpireLegal">>
DenomAmounts == <<"value", "feeWithdraw", "feeDeposit", "feeRefresh", "feeRefund">>
IsValidDenom(denom, masterPub, second) ==
  LET stamps == [i \in DOMAIN DenomStamps |-> TimestampRoundedToBuffer(denom[DenomStamps[i]], second)]
      amounts == [i \in DOMAIN DenomAmounts |-> denom[DenomAmounts[i]]]
  IN IF \E i \in DOMAIN stamps : stamps[i] = Throws THEN Throws
     ELSE EddsaVerify("MASTER_DENOMINATION_KEY_VALIDITY", <<masterPub, stamps, amounts, Hash(denom.denomPub)>>,
                      denom.masterSig, masterPub)

IsValidWireAccount(paytoUri, sig, masterPub) ==
  EddsaVerify("MASTER_WIRE_DETAILS", <<Kdf(2, "exchange-wire-signature", paytoUri, <<>>)>>, sig, masterPub)

----------------------------------------------------------------------------
(* Refreshing. *)

\* The keys of the coinNumber-th new coin.
SetupRefreshPlanchet(secret, coinNumber) ==
  LET out == Kdf(2, secret, coinNumber, "taler-coin-derivation")
  IN [coinPriv |-> out[1], coinPub |-> Pub(out[1]), bks |-> out[2]]

RefreshPlanchet(secret, denom, j) ==
  LET fresh == SetupRefreshPlanchet(secret, j - 1)
  IN [blindingKey |-> fresh.bks, privateKey |-> fresh.coinPriv, publicKey |-> fresh.coinPub,
      coinEv |-> Blinded(Hash(fresh.coinPub), fresh.bks, denom.denomPub)]

\* What is taken off the coin: the new coins, the fees for withdrawing them and for melting.
ValueWithFee(denoms, meltFee) ==
  LET withNew == FoldLeft(LAMBDA sum, d : Add(sum, <<d.value, d.feeWithdraw>>).amount, getZero, denoms)
  IN Add(withNew, <<meltFee>>).amount
ValueOutput(denoms) == FoldLeft(LAMBDA sum, d : Add(sum, <<d.value>>).amount, getZero, denoms)

SessionHash(transferPubs, denomPubs, coinPub, valueWithFee, evs) == Hash(<<transferPubs, denomPubs, coinPub, valueWithFee, evs>>)

\* For each of kappa transfer keys a planchet of each new coin.
CreateRefreshSession(transferPrivs, coin, denoms, meltFee) ==
  LET gammas == DOMAIN transferPrivs
      transferPubs == [g \in gammas |-> Pub(transferPrivs[g])]
      planchets == [g \in gammas |->
        LET secret == KeyExchangeEcdheEddsa(transferPrivs[g], coin.coinPub)
        IN [j \in DOMAIN denoms |-> RefreshPlanchet(secret, denoms[j], j)]]
      valueWithFee == ValueWithFee(denoms, meltFee)
      denomPubs == [j \in DOMAIN denoms |-> denoms[j].denomPub]
      hash == SessionHash(transferPubs, denomPubs, coin.coinPub, valueWithFee,
                          [g \in gammas |-> [j \in DOMAIN denoms |-> planchets[g][j].coinEv]])
  IN [hash |-> hash, newDenoms |-> denomPubs, newDenomHashes |-> [j \in DOMAIN denoms |-> Hash(denoms[j].denomPub)],
      transferPrivs |-> transferPrivs, transferPubs |-> transferPubs, planchetsForGammas |-> planchets,
      amountRefreshInput |-> valueWithFee, amountRefreshOutput |-> ValueOutput(denoms),
      confirmSig |-> EddsaSign("WALLET_COIN_MELT", <<hash, valueWithFee, meltFee, coin.coinPub>>, coin.coinPriv)]

SignCoinLink(oldCoinPriv, newDenomHash, oldCoinPub, transferPub, coinEv) ==
  EddsaSign("WALLET_COIN_LINK", <<newDenomHash, oldCoinPub, transferPub, Hash(coinEv)>>, oldCoinPriv)

\* refreshReveal: all transfer keys but one.
RevealRequest(session, coin, norevealIndex) ==
  LET planchets == session.planchetsForGammas[norevealIndex]
  IN [rc |-> session.hash,
      new_denoms_h |-> session.newDenomHashes,
      coin_evs |-> [j \in DOMAIN planchets |-> planchets[j].coinEv],
      transfer_privs |-> RemoveAt(session.transferPrivs, norevealIndex),
      transfer_pub |-> session.transferPubs[norevealIndex],
      link_sigs |-> [j \in DOMAIN planchets |->
                       SignCoinLink(coin.coinPriv, session.newDenomHashes[j], coin.coinPub,
                                    session.transferPubs[norevealIndex], planchets[j].coinEv)]]

RefreshedCoin(session, norevealIndex, j, sig) ==
  LET pc == session.planchetsForGammas[norevealIndex][j]
  IN [blindingKey |-> pc.blindingKey, coinPriv |-> pc.privateKey, coinPub |-> pc.publicKey,
      denomPub |-> session.newDenoms[j], denomSig |-> Unblinded(sig, pc.blindingKey, session.newDenoms[j])]
=============================================================================
