------------------------------- MODULE Inputs -------------------------------
(***************************************************************************)
(* What reaches the wallet from outside: JSON (util/codec.ts and the codecs   *)
(* of the protocol's messages), taler: URIs (util/taleruri.ts), payto: URIs    *)
(* (util/payto.ts) and binary data in Crockford's base 32 (talerCrypto.ts).    *)
(***************************************************************************)
EXTENDS Amounts, TLC

----------------------------------------------------------------------------
(* A JSON value is a pair of its type and what it holds: an object a function *)
(* from the names of its properties, an array a sequence.                    *)
Text(t) == <<"string", t>>
Number(n) == <<"number", n>>
Truth(b) == <<"boolean", b>>
Object(f) == <<"object", f>>
Array(s) == <<"array", s>>
Null == <<"null">>

TypeOf(x) == IF x = Undef THEN "undefined" ELSE x[1]
Members(x) == IF TypeOf(x) = "null" THEN <<>> ELSE x[2]

\* x[name]; undefined and null have no properties to ask for.
Property(x, name) ==
  CASE TypeOf(x) \in {"undefined", "null"} -> Throws
    [] TypeOf(x) = "object" -> IF name \in DOMAIN x[2] THEN x[2][name] ELSE Undef
    [] OTHER -> Undef

\* A codec is a record with its kind.
codecForString == [kind |-> "string"]
codecForNumber == [kind |-> "number"]
codecForBoolean == [kind |-> "boolean"]
codecForAny == [kind |-> "any"]
makeCodecForConstString(s) == [kind |-> "const", text |-> s]
makeCodecOptional(inner) == [kind |-> "optional", inner |-> inner]
makeCodecForList(inner) == [kind |-> "list", inner |-> inner]
makeCodecForMap(inner) == [kind |-> "map", inner |-> inner]
makeCodecForObject(props) == [kind |-> "object", props |-> props]
makeCodecForUnion(tag, alternatives) == [kind |-> "union", tag |-> tag, alternatives |-> alternatives]
codecForTimestamp == [kind |-> "point", member |-> "t_ms", word |-> "never"]
codecForDuration == [kind |-> "point", member |-> "d_ms", word |-> "forever"]

\* Everything was decoded, or an error was thrown on the way.
All(type, f) == IF \E i \in DOMAIN f : f[i] = Throws THEN Throws ELSE <<type, f>>

RECURSIVE Decode(_, _)
DecodePoint(codec, x) ==
  LET p == Property(x, codec.member)
  IN IF p # Throws /\ (TypeOf(p) = "number" \/ p = Text(codec.word)) THEN Object(codec.member :> p) ELSE Throws
\* An object has the properties of its codec afterwards, and no others; those of the list
\* of an object are asked for, whatever the object is.
DecodeObject(codec, x) ==
  LET decoded(n) == IF TypeOf(x) = "array" THEN Decode(codec.props[n], Undef) ELSE Decode(codec.props[n], Property(x, n))
  IN IF TypeOf(x) \notin {"object", "array"} THEN Throws ELSE All("object", [n \in DOMAIN codec.props |-> decoded(n)])
DecodeUnion(codec, x) ==
  LET tag == Property(x, codec.tag)
  IN IF tag \in {Throws, Undef} THEN Throws
     ELSE IF tag \notin {Text(t) : t \in DOMAIN codec.alternatives} THEN Throws
     ELSE Decode(codec.alternatives[tag[2]], x)
Decode(codec, x) ==
  CASE codec.kind = "any" -> x
    [] codec.kind \in {"string", "number", "boolean"} -> IF TypeOf(x) = codec.kind THEN x ELSE Throws
    [] codec.kind = "const" -> IF x = Text(codec.text) THEN x ELSE Throws
    [] codec.kind = "optional" -> IF TypeOf(x) \in {"undefined", "null"} THEN Undef ELSE Decode(codec.inner, x)
    [] codec.kind = "list" -> IF TypeOf(x) # "array" THEN Throws
                              ELSE All("array", [i \in DOMAIN x[2] |-> Decode(codec.inner, x[2][i])])
    [] codec.kind = "map" -> IF TypeOf(x) \notin {"object", "array", "null"} THEN Throws
                             ELSE All("object", [i \in DOMAIN Members(x) |-> Decode(codec.inner, Members(x)[i])])
    [] codec.kind = "point" -> DecodePoint(codec, x)
    [] codec.kind = "object" -> DecodeObject(codec, x)
    [] codec.kind = "union" -> DecodeUnion(codec, x)

----------------------------------------------------------------------------
(* The messages of the protocol. *)
Each(names, codec) == [n \in names |-> codec]
Texts(names) == Each(names, codecForString)
Points(names) == Each(names, codecForTimestamp)
Maybe(names) == Each(names, makeCodecOptional(codecForString))
ListOf(props) == makeCodecForList(makeCodecForObject(props))

codecForDenomination ==
  makeCodecForObject(
    Texts({"value", "denom_pub", "fee_withdraw", "fee_deposit", "fee_refresh", "fee_refund", "master_sig"})
    @@ Points({"stamp_start", "stamp_expire_withdraw", "stamp_expire_legal", "stamp_expire_deposit"}))
codecForAuditor ==
  makeCodecForObject(Texts({"auditor_pub", "auditor_url"})
                     @@ "denomination_keys" :> ListOf(Texts({"denom_pub_h", "auditor_sig"})))
codecForContractTerms ==
  makeCodecForObject(
    Texts({"order_id", "fulfillment_url", "merchant_base_url", "h_wire", "wire_method", "summary", "nonce", "amount",
           "max_fee", "merchant_pub"})
    @@ Points({"pay_deadline", "refund_deadline", "wire_transfer_deadline", "timestamp"})
    @@ Each({"locations", "merchant", "extra"}, codecForAny)
    @@ Maybe({"max_wire_fee"})
    @@ "auto_refund" :> makeCodecOptional(codecForDuration)
    @@ "products" :> makeCodecOptional(makeCodecForList(codecForAny))
    @@ "auditors" :> ListOf(Texts({"name", "master_pub", "url"}))
    @@ "exchanges" :> ListOf(Texts({"master_pub", "url"})))
codecForMerchantRefundPermission ==
  makeCodecForObject(
    Texts({"refund_amount", "refund_fee", "coin_pub"})
    @@ Each({"rtransaction_id", "exchange_http_status"}, codecForNumber)
    @@ Maybe({"exchange_sig", "exchange_pub"})
    @@ "exchange_code" :> makeCodecOptional(codecForNumber)
    @@ "exchange_reply" :> makeCodecOptional(codecForAny))
codecForMerchantRefundResponse ==
  makeCodecForObject(Texts({"merchant_pub", "h_contract_terms"})
                     @@ "refunds" :> makeCodecForList(codecForMerchantRefundPermission))
codecForTipResponse == makeCodecForObject(Texts({"reserve_pub"}) @@ "reserve_sigs" :> ListOf(Texts({"reserve_sig"})))
codecForExchangeSigningKey ==
  makeCodecForObject(Texts({"key", "master_sig"}) @@ Points({"stamp_end", "stamp_start", "stamp_expire"}))
codecForExchangeKeysJson ==
  makeCodecForObject(
    Texts({"master_public_key", "version"}) @@ Points({"list_issue_date"})
    @@ "denoms" :> makeCodecForList(codecForDenomination)
    @@ "auditors" :> makeCodecForList(codecForAuditor)
    @@ "recoup" :> makeCodecOptional(ListOf(Texts({"h_denom_pub"})))
    @@ "signkeys" :> makeCodecForList(codecForExchangeSigningKey))
codecForWireFeesJson ==
  makeCodecForObject(Texts({"wire_fee", "closing_fee", "sig"}) @@ Points({"start_date", "end_date"}))
codecForExchangeWireJson ==
  makeCodecForObject("accounts" :> ListOf(Texts({"payto_uri", "master_sig"}))
                     @@ "fees" :> makeCodecForMap(makeCodecForList(codecForWireFeesJson)))
codecForProposal == makeCodecForObject(Texts({"sig"}) @@ "contract_terms" :> codecForAny)
codecForCheckPaymentResponse ==
  makeCodecForObject(
    "paid" :> codecForBoolean @@ "refunded" :> makeCodecOptional(codecForBoolean)
    @@ Maybe({"refunded_amount", "taler_pay_uri", "contract_url"})
    @@ "contract_terms" :> makeCodecOptional(codecForAny))
codecForWithdrawOperationStatusResponse ==
  makeCodecForObject(
    Each({"selection_done", "transfer_done"}, codecForBoolean) @@ Texts({"amount"})
    @@ Maybe({"sender_wire", "suggested_exchange", "confirm_transfer_url"})
    @@ "wire_types" :> makeCodecForList(codecForString))
codecForTipPickupGetResponse ==
  makeCodecForObject(Texts({"amount", "amount_left", "exchange_url"}) @@ Points({"stamp_expire", "stamp_created"})
                     @@ "extra" :> codecForAny)
codecForRecoupConfirmation == makeCodecForObject(Maybe({"reserve_pub", "old_coin_pub"}))
codecForWithdrawResponse == makeCodecForObject(Texts({"ev_sig"}))

Transaction(type, props) == makeCodecForObject(props @@ "amount" :> codecForString @@ "type" :> makeCodecForConstString(type))
codecForReserveTransaction ==
  makeCodecForUnion("type",
    [WITHDRAW |-> Transaction("WITHDRAW", Texts({"h_coin_envelope", "h_denom_pub", "reserve_sig", "withdraw_fee"})),
     CREDIT |-> Transaction("CREDIT", Texts({"sender_account_url", "wire_reference"}) @@ Points({"timestamp"})),
     CLOSING |-> Transaction("CLOSING", Texts({"closing_fee", "exchange_pub", "exchange_sig", "h_wire", "wtid"})
                                        @@ Points({"timestamp"})),
     RECOUP |-> Transaction("RECOUP", Texts({"coin_pub", "exchange_pub", "exchange_sig"}) @@ Points({"timestamp"}))])
codecForReserveStatus ==
  makeCodecForObject(Texts({"balance"}) @@ "history" :> makeCodecForList(codecForReserveTransaction))
codecForAmountJson == makeCodecForObject(Texts({"currency"}) @@ Each({"value", "fraction"}, codecForNumber))
codecForCreateReserveRequest ==
  makeCodecForObject("amount" :> codecForAmountJson @@ Texts({"exchange", "exchangeWire"})
                     @@ Maybe({"senderWire", "bankWithdrawStatusUrl"}))
codecForConfirmReserveRequest == makeCodecForObject(Texts({"reservePub"}))

\* scrutinizeTalerJsonResponse: only a 200 whose body is JSON is decoded.
ScrutinizeResponse(status, body, codec) == IF status # 200 \/ body = Undef THEN Throws ELSE Decode(codec, body)

----------------------------------------------------------------------------
(* A taler: URI has the kind its prefix names ("pay", ...), the segments      *)
(* between its slashes, and may ask for http with ?insecure=1.  A segment is   *)
(* a word that was percent-encoded so many times.                           *)
Segment(word, escaped) == [word |-> word, escaped |-> escaped]
Dash == Segment("-", 0)
DecodeURIComponent(s) == [s EXCEPT !.escaped = IF @ = 0 THEN 0 ELSE @ - 1]
At(uri, i) == IF i \in DOMAIN uri.segments THEN uri.segments[i] ELSE Undef
IsMissing(s) == IF s = Undef THEN TRUE ELSE s.word = ""

classifyTalerUri(uri) == IF uri.kind \in {"pay", "tip", "refund", "withdraw", "notify-reserve"} THEN uri.kind ELSE "unknown"

\* The host, the path and the instance of a merchant.
BaseUrl(uri, path, insecure) ==
  [protocol |-> IF insecure THEN "http" ELSE "https",
   host |-> At(uri, 1),
   path |-> IF At(uri, 2) = Dash THEN Segment("public", 0) ELSE path,
   instance |-> IF At(uri, 3) = Dash THEN Undef ELSE At(uri, 3)]
IsComplete(uri, kind, count) == uri.kind = kind /\ \A i \in {1, 2, count} : ~IsMissing(At(uri, i))

\* The path of a payment is decoded twice.
parsePayUri(uri) ==
  IF ~IsComplete(uri, "pay", 4) THEN Undef
  ELSE [merchantBaseUrl |-> BaseUrl(uri, DecodeURIComponent(DecodeURIComponent(At(uri, 2))), uri.insecure),
        orderId |-> At(uri, 4), sessionId |-> At(uri, 5)]
\* Mutant: the instance is left out.
parseRefundUriShort(uri) ==
  IF ~IsComplete(uri, "refund", 4) THEN Undef
  ELSE [merchantBaseUrl |-> [BaseUrl(uri, DecodeURIComponent(At(uri, 2)), uri.insecure) EXCEPT !.instance = Undef], orderId |-> At(uri, 4)]
parseRefundUri(uri) ==
  IF ~IsComplete(uri, "refund", 4) THEN Undef
  ELSE [merchantBaseUrl |-> BaseUrl(uri, DecodeURIComponent(At(uri, 2)), uri.insecure), orderId |-> At(uri, 4)]

\* What follows a question mark stays a part of the last segment.
Whole(uri, i) == <<At(uri, i), uri.insecure /\ Len(uri.segments) = i>>
parseTipUri(uri) ==
  IF ~IsComplete(uri, "tip", 4) THEN Undef
  ELSE [merchantBaseUrl |-> BaseUrl(uri, DecodeURIComponent(At(uri, 2)), FALSE), merchantTipId |-> Whole(uri, 4)]
parseWithdrawUri(uri) ==
  IF ~IsComplete(uri, "withdraw", 3) THEN Undef
  ELSE [host |-> At(uri, 1), path |-> IF At(uri, 2) = Dash THEN Segment("api/withdraw-operation", 0) ELSE At(uri, 2),
        withdrawId |-> Whole(uri, 3)]
getOrderDownloadUrl(merchantBaseUrl, orderId) == [base |-> merchantBaseUrl, page |-> "proposal", orderId |-> orderId]

\* parsePaytoUri: the names and the values of the parameters change places.
parsePaytoUri(uri) ==
  IF uri.scheme # "payto" \/ Len(uri.path) < 2 THEN Undef
  ELSE [targetType |-> Head(uri.path), targetPath |-> Tail(uri.path),
        params |-> [v \in {uri.params[i][2] : i \in DOMAIN uri.params} |->
                      LET last == CHOOSE i \in DOMAIN uri.params : /\ uri.params[i][2] = v
                                                                   /\ \A j \in DOMAIN uri.params : uri.params[j][2] = v => j <= i
                      IN uri.params[last][1]]]

----------------------------------------------------------------------------
(* Bytes in base 32, five bits to a character; a character is its place in    *)
(* encTable, or one past its end for O, I, L and U, which are read for others.  *)
Base == 32
ByteSize == 256
\* The buffers of bits keep their last 16 bits (32 in the code, of which at most 13 matter).
Kept(bits) == bits % 2 ^ 16

getValue(chr) == IF chr < Base THEN chr ELSE <<0, 1, 1, 27>>[chr - Base + 1]

RECURSIVE EncodeFrom(_, _, _)
\* encodeCrock: the last character is filled up with zeros.
EncodeFrom(data, buf, bits) ==
  CASE data = <<>> /\ bits = 0 -> <<>>
    [] data # <<>> /\ bits < 5 -> EncodeFrom(Tail(data), Kept(buf * ByteSize + Head(data)), bits + 8)
    [] data = <<>> /\ bits \in 1..4 -> EncodeFrom(data, Kept(buf * 2 ^ (5 - bits)), 5)
    [] OTHER -> <<(buf \div 2 ^ (bits - 5)) % Base>> \o EncodeFrom(data, buf, bits - 5)
encodeCrock(data) == EncodeFrom(data, 0, 0)

RECURSIVE DecodeFrom(_, _, _)
\* decodeCrock: what is left at the end is a byte of its own if it is not zero.
DecodeFrom(chars, buf, pos) ==
  CASE pos >= 8 -> <<(buf \div 2 ^ (pos - 8)) % ByteSize>> \o DecodeFrom(chars, buf, pos - 8)
    [] chars # <<>> /\ pos < 8 -> DecodeFrom(Tail(chars), Kept(buf * Base + getValue(Head(chars))), pos + 5)
    [] chars = <<>> /\ pos \in 1..7 -> LET rest == (buf * 2 ^ (8 - pos)) % ByteSize
                                       IN DecodeFrom(chars, rest, IF rest = 0 THEN 0 ELSE 8)
    [] OTHER -> <<>>
\* No more than the whole bytes are kept.
decodeCrock(chars) ==
  LET outLen == (Len(chars) * 5) \div 8
      out == DecodeFrom(chars, 0, 0)
  IN [i \in 1..outLen |-> IF i \in DOMAIN out THEN out[i] ELSE 0]
=============================================================================
