---------------------------- MODULE XcmLocation ----------------------------
(***************************************************************************)
(* Locations and addresses as the adapters handle them                     *)
(* (packages/adapter/src/utils.ts and contract-utils.ts).                  *)
(*                                                                         *)
(* A location is [parents, interior], its interior the sequence of its     *)
(* junctions: Here is the empty sequence, X1, X2, ... one of that length.  *)
(* A junction is a record whose field is its selector, [Parachain |-> n].  *)
(* Hexadecimal strings are sequences of digits without 0x.                 *)
(***************************************************************************)
EXTENDS Naturals, Sequences

Here == <<>>

Has(record, field) == field \in DOMAIN record

\* An address is [hex, checksum]: checksum is FALSE for mixed case that
\* does not fit.  Other lengths have no type: the code throws.
AccountTypeOf(address) ==
  CASE Len(address.hex) = 40 -> "AccountKey20"
    [] Len(address.hex) = 64 -> "AccountId32"
    [] OTHER -> "unrecognized"

\* encodeAddress takes other lengths too (1, 2, 4, 8 or 33 bytes).  Only
\* transferMultiasset can be given one, and throws all the same when it makes
\* an AccountId32 of it.
IsValidAddress(address, isEthereum) ==
  IF isEthereum THEN Len(address.hex) = 40 /\ address.checksum
                ELSE Len(address.hex) = 64

AccountJunction(type, hex) ==
  IF type = "AccountKey20" THEN [AccountKey20 |-> [key |-> hex]]
                           ELSE [AccountId32 |-> [id |-> hex]]

WithoutParachain(interior) ==
  LET kept[i \in 0 .. Len(interior)] ==
        IF i = 0 THEN Here
        ELSE IF Has(interior[i], "Parachain") THEN kept[i - 1]
        ELSE Append(kept[i - 1], interior[i])
  IN  kept[Len(interior)]

ConvertAbsoluteLocationToRelative(location) ==
  [parents |-> 0,
   interior |-> IF Len(location.interior) = 1 THEN Here ELSE WithoutParachain(location.interior)]
-----------------------------------------------------------------------------
Numbers == 0 .. 16 * 16 * 16 - 1  \* bound: the ids of the tables have at most three digits

Digits[n \in Numbers] == IF n < 16 THEN <<n>> ELSE Append(Digits[n \div 16], n % 16)

NumberOf(hex) ==
  LET upTo[i \in 0 .. Len(hex)] == IF i = 0 THEN 0 ELSE 16 * upTo[i - 1] + hex[i]
  IN  upTo[Len(hex)]

\* Mutant: the digits are not padded.
Unpadded(number, bytes) == Digits[number]

\* Padded with zeros, never cut.
NumberToHex(number, bytes) ==
  LET digits == Digits[number]
      zeros  == IF Len(digits) < 2 * bytes THEN 2 * bytes - Len(digits) ELSE 0
  IN  [i \in 1 .. zeros |-> 0] \o digits

Networks == [Any |-> <<0, 0>>, Rococo |-> <<0, 1>>, Kusama |-> <<0, 2>>, Polkadot |-> <<0, 3>>]

\* The network is looked for beside the account, not inside it.
NetworkHex(j) == Networks[IF Has(j, "Network") THEN j.Network ELSE "Any"]

Prefix == [Parachain |-> 0, AccountId32 |-> 1, AccountIndex64 |-> 2, AccountKey20 |-> 3,
           PalletInstance |-> 4, GeneralIndex |-> 5, GeneralKey |-> 6]

FieldHex(j) ==
  CASE Has(j, "Parachain")      -> NumberToHex(j.Parachain, 4)
    [] Has(j, "PalletInstance") -> NumberToHex(j.PalletInstance, 1)
    [] Has(j, "GeneralIndex")   -> NumberToHex(j.GeneralIndex, 16)
    [] Has(j, "GeneralKey")     -> j.GeneralKey.data
    [] Has(j, "AccountId32")    -> j.AccountId32.id \o NetworkHex(j)
    [] Has(j, "AccountKey20")   -> j.AccountKey20.key \o NetworkHex(j)
    [] Has(j, "AccountIndex64") -> NumberToHex(j.AccountIndex64.index, 8) \o NetworkHex(j)

EncodeJunction(j) ==
  LET selector == CHOOSE s \in DOMAIN j : s \in DOMAIN Prefix
  IN  <<0, Prefix[selector]>> \o FieldHex(j)

ConvertLocationToPrecompileMultiLocation(location) ==
  [parents |-> location.parents,
   interiors |-> [i \in DOMAIN location.interior |-> EncodeJunction(location.interior[i])]]
-----------------------------------------------------------------------------
(***************************************************************************)
(* What a precompiled contract takes an encoded junction for: its first    *)
(* byte says which junction, the rest has the length of that junction.     *)
(***************************************************************************)
DecodeJunction(hex) ==
  LET field == SubSeq(hex, 3, Len(hex))
      account == SubSeq(field, 1, Len(field) - 2)
  IN  CASE hex[2] = 0 /\ Len(field) = 8  -> [Parachain |-> NumberOf(field)]
        [] hex[2] = 1 /\ Len(field) = 66 -> [AccountId32 |-> [id |-> account]]
        [] hex[2] = 3 /\ Len(field) = 42 -> [AccountKey20 |-> [key |-> account]]
        [] hex[2] = 4 /\ Len(field) = 2  -> [PalletInstance |-> NumberOf(field)]
        [] OTHER -> [Undecodable |-> hex]

Decode(multiLocation) ==
  [parents |-> multiLocation.parents,
   interior |-> [i \in DOMAIN multiLocation.interiors |->
                   DecodeJunction(multiLocation.interiors[i])]]
=============================================================================
