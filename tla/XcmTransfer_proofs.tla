------------------------- MODULE XcmTransfer_proofs -------------------------
(***************************************************************************)
(* What XcmTransfer says of cross-chain transfers, for every number of     *)
(* transfers, whatever they ask for and whatever funds there are at the    *)
(* start.                                                                  *)
(***************************************************************************)
EXTENDS XcmTransfer, SequenceTheorems, TLAPS

(***************************************************************************)
(* The tables.                                                             *)
(***************************************************************************)
LEMMA Families ==
  /\ DOMAIN Oak = {"turing", "turingStaging", "turingMoonbase", "turingLocal"}
  /\ DOMAIN Astar = {"shiden", "rocstar", "shibuya"}
  /\ DOMAIN Mangata = {"mangata", "mangataRococo", "mangataLocal"}
  /\ DOMAIN Moonbeam = {"moonriver", "moonbaseAlpha", "moonbaseLocal"}
BY DEF Oak, Astar, Mangata, Moonbeam

LEMMA OakRows == \A k \in DOMAIN Oak : Oak[k].native = Tur
BY DEF Oak

LEMMA AstarRows ==
  \A k \in DOMAIN Astar : Astar[k].native \in {Sdn, Rstr, Sby} /\ Astar[k].foreign = {}
BY DEF Astar

LEMMA MangataRows == \A k \in DOMAIN Mangata : Mangata[k].native = Mgx
BY DEF Mangata

LEMMA MoonbeamRows ==
  \A k \in DOMAIN Moonbeam : Moonbeam[k].native \in {Movr, Unit} /\ Moonbeam[k].foreign = {Tur}
BY DEF Moonbeam

\* A chain, its family and the asset it issues.
LEMMA Rows ==
  ASSUME NEW k \in Chains
  PROVE  /\ Family(k) \in {"oak", "astar", "mangata", "moonbeam"}
         /\ Family(k) = "oak" => Native(k) = Tur
         /\ Family(k) = "astar" => Native(k) \in {Sdn, Rstr, Sby} /\ Listed(k) = {Native(k)}
         /\ Family(k) = "mangata" => Native(k) = Mgx
         /\ Family(k) = "moonbeam" => Native(k) \in {Movr, Unit} /\ Listed(k) = {Native(k), Tur}
<1>1. CASE k \in DOMAIN Oak
  <2>1. Family(k) = "oak" /\ Entry(k) = Oak[k]
    BY <1>1, Families DEF Family, Entry
  <2>. QED  BY <1>1, <2>1, OakRows DEF Native
<1>2. CASE k \in DOMAIN Astar
  <2>1. Family(k) = "astar" /\ Entry(k) = Astar[k]
    BY <1>2, Families DEF Family, Entry
  <2>. QED  BY <1>2, <2>1, AstarRows DEF Native, Listed
<1>3. CASE k \in DOMAIN Mangata
  <2>1. Family(k) = "mangata" /\ Entry(k) = Mangata[k]
    BY <1>3, Families DEF Family, Entry
  <2>. QED  BY <1>3, <2>1, MangataRows DEF Native
<1>4. CASE k \in DOMAIN Moonbeam
  <2>1. Family(k) = "moonbeam" /\ Entry(k) = Moonbeam[k]
    BY <1>4, Families DEF Family, Entry
  <2>. QED  BY <1>4, <2>1, MoonbeamRows DEF Native, Listed
<1>. QED  BY <1>1, <1>2, <1>3, <1>4 DEF Chains

LEMMA RegisteredIs ==
  \A k, a : a \in Registered(k) <=> a \in Listed(k) /\ ~(a = Mgx /\ k = "turing")
BY DEF Registered, NotRegisteredYet

LEMMA Alone == ASSUME NEW a PROVE <<a>> \o <<>> = <<a>>
<1>. <<a>> \in Seq({a})
  OBVIOUS
<1>. QED  BY ConcatEmptySeq

LEMMA Pair == ASSUME NEW a, NEW b PROVE <<a>> \o <<b>> = <<a, b>>
<1>1. <<a>> \in Seq({a, b}) /\ <<b>> \in Seq({a, b}) /\ <<a, b>> \in Seq({a, b})
  OBVIOUS
<1>. DEFINE s == <<a>> \o <<b>>
            t == <<a, b>>
<1>2. /\ s \in Seq({a, b}) /\ Len(s) = 2
      /\ \A i \in 1 .. 2 : s[i] = IF i <= 1 THEN <<a>>[i] ELSE <<b>>[i - 1]
  BY <1>1, ConcatProperties
<1>3. s[1] = a /\ s[2] = b
  BY <1>2
<1>4. t \in Seq({a, b}) /\ Len(t) = 2 /\ t[1] = a /\ t[2] = b
  BY <1>1
<1>. HIDE DEF s, t
<1>5. Len(s) = Len(t) /\ \A i \in 1 .. Len(s) : s[i] = t[i]
  BY <1>2, <1>3, <1>4
<1>6. s = t
  BY <1>2, <1>4, <1>5, SeqEqual
<1>. QED  BY <1>6 DEF s, t

\* The locations of the assets.
LEMMA Locations ==
  /\ Tur = [parents |-> 1, interior |-> <<[Parachain |-> 2114]>>]
  /\ Sdn = [parents |-> 1, interior |-> <<[Parachain |-> 2007]>>]
  /\ Rstr = [parents |-> 1, interior |-> <<[Parachain |-> 2006]>>]
  /\ Sby = [parents |-> 1, interior |-> <<[Parachain |-> 2000]>>]
  /\ Movr = [parents |-> 1, interior |-> <<[Parachain |-> 2023], [PalletInstance |-> 10]>>]
  /\ Unit = [parents |-> 1, interior |-> <<[Parachain |-> 1000], [PalletInstance |-> 3]>>]
  /\ Mgx.parents = 1 /\ Len(Mgx.interior) = 2 /\ Mgx.interior[1] = [Parachain |-> 2110]
BY Alone, Pair DEF Tur, Sdn, Rstr, Sby, Movr, Unit, Mgx, ConstructLocation

\* Every asset is at home on a parachain.
LEMMA Homes ==
  /\ Tur.interior[1] = [Parachain |-> 2114] /\ Sdn.interior[1] = [Parachain |-> 2007]
  /\ Rstr.interior[1] = [Parachain |-> 2006] /\ Sby.interior[1] = [Parachain |-> 2000]
  /\ Movr.interior[1] = [Parachain |-> 2023] /\ Unit.interior[1] = [Parachain |-> 1000]
  /\ Mgx.interior[1] = [Parachain |-> 2110]
BY Locations

\* The ids that the contracts' locations have room for.
IsId(n) == 256 <= n /\ n <= 4095

LEMMA Ids ==
  ASSUME NEW k \in Chains
  PROVE  \E n \in Nat : /\ IsId(n) /\ n = ParachainId(k)
                       /\ Native(k).interior[1] = [Parachain |-> n]
<1>. DEFINE a == Native(k)
            j == a.interior[1]
            Id(n) == j = [Parachain |-> n]
<1>1. a \in {Tur, Sdn, Rstr, Sby, Movr, Unit, Mgx}
  BY Rows
<1>2. Id(2114) \/ Id(2007) \/ Id(2006) \/ Id(2000) \/ Id(2023) \/ Id(1000) \/ Id(2110)
  <2>. HIDE DEF a
  <2>1. CASE a = Tur
    BY <2>1, Homes
  <2>2. CASE a = Sdn
    BY <2>2, Homes
  <2>3. CASE a = Rstr
    BY <2>3, Homes
  <2>4. CASE a = Sby
    BY <2>4, Homes
  <2>5. CASE a = Movr
    BY <2>5, Homes
  <2>6. CASE a = Unit
    BY <2>6, Homes
  <2>7. CASE a = Mgx
    BY <2>7, Homes
  <2>. HIDE DEF Id
  <2>. QED  BY <1>1, <2>1, <2>2, <2>3, <2>4, <2>5, <2>6, <2>7
<1>3. ParachainId(k) = j.Parachain
  BY DEF ParachainId
<1>. HIDE DEF j
<1>4. \E n \in Nat : IsId(n) /\ j = [Parachain |-> n]
  BY <1>2 DEF IsId
<1>5. PICK n \in Nat : IsId(n) /\ j = [Parachain |-> n]
  BY <1>4
<1>6. ParachainId(k) = n
  BY <1>3, <1>5
<1>. QED  BY <1>5, <1>6 DEF j

LEMMA IdIsNumber == \A k \in Chains : ParachainId(k) \in Nat
BY Ids
-----------------------------------------------------------------------------
(***************************************************************************)
(* Numbers in the locations given to the contracts.                        *)
(***************************************************************************)
LEMMA AppendedTwo == ASSUME NEW a, NEW b PROVE Append(<<a>>, b) = <<a, b>>
<1>1. <<a>> \in Seq({a, b}) /\ b \in {a, b}
  OBVIOUS
<1>2. Append(<<a>>, b) = <<a>> \o <<b>>
  BY <1>1, AppendIsConcat
<1>. QED  BY <1>2, Pair

LEMMA AppendedThree ==
  ASSUME NEW a, NEW b, NEW c
  PROVE  Append(<<a, b>>, c) = <<a, b, c>>
<1>. DEFINE S == {a, b, c}
            s == Append(<<a, b>>, c)
            t == <<a, b, c>>
<1>1. /\ <<a, b>> \in Seq(S) /\ Len(<<a, b>>) = 2 /\ c \in S
      /\ <<a, b>>[1] = a /\ <<a, b>>[2] = b
  OBVIOUS
<1>2. /\ s \in Seq(S) /\ Len(s) = 3 /\ s[3] = c
      /\ \A i \in 1 .. 2 : s[i] = <<a, b>>[i]
  BY <1>1, AppendProperties
<1>3. s[1] = a /\ s[2] = b
  BY <1>1, <1>2
<1>4. t \in Seq(S) /\ Len(t) = 3 /\ t[1] = a /\ t[2] = b /\ t[3] = c
  OBVIOUS
<1>. HIDE DEF s, t, S
<1>5. Len(s) = Len(t) /\ \A i \in 1 .. Len(s) : s[i] = t[i]
  BY <1>2, <1>3, <1>4
<1>6. s = t
  BY <1>2, <1>4, <1>5, SeqEqual
<1>. QED  BY <1>6 DEF s, t

LEMMA UpTo == ASSUME NEW m \in Nat, NEW n \in Nat PROVE n \in 0 .. m <=> n <= m
OBVIOUS

LEMMA NumbersAre ==
  ASSUME NEW n \in Nat
  PROVE  n \in Numbers <=> n <= 4095
<1>. DEFINE m == 16 * 16 * 16 - 1
            M == 0 .. m
<1>1. m = 4095
  OBVIOUS
<1>2. Numbers = M
  BY Zenon DEF Numbers
<1>. HIDE DEF m
<1>3. n \in M <=> n <= m
  <2>1. m \in Nat
    BY <1>1
  <2>. QED  BY <2>1, UpTo
<1>. HIDE DEF M
<1>. QED  BY <1>1, <1>2, <1>3

LEMMA NumbersNat == Numbers \subseteq Nat
BY DEF Numbers

One(n) == <<n>>
Two(n) == Append(One(n \div 16), n % 16)
Three(n) == Append(Two(n \div 16), n % 16)

Table == [n \in Numbers |->
  IF n < 16 THEN One(n) ELSE IF n < 256 THEN Two(n) ELSE Three(n)]

\* The equation of Digits.
Longer(digits) ==
  [n \in Numbers |-> IF n < 16 THEN One(n) ELSE Append(digits[n \div 16], n % 16)]

LEMMA Halves ==
  ASSUME NEW n \in Numbers
  PROVE  /\ n \in Nat /\ n \div 16 \in Numbers /\ n \div 16 \in Nat
         /\ n < 256 => n \div 16 < 16
         /\ n >= 256 => n \div 16 >= 16 /\ n \div 16 < 256
<1>. n \in Nat /\ n <= 4095
  BY NumbersAre, NumbersNat
<1>. DEFINE q == n \div 16
<1>1. q \in Nat /\ 16 * q <= n /\ n < 16 * q + 16
  OBVIOUS
<1>. HIDE DEF q
<1>2. q <= 4095 /\ (n < 256 => q < 16) /\ (n >= 256 => q >= 16 /\ q < 256)
  BY <1>1
<1>3. q \in Numbers
  BY <1>1, <1>2, NumbersAre
<1>. QED  BY <1>1, <1>2, <1>3 DEF q

LEMMA TableFits == Table = Longer(Table)
<1>1. ASSUME NEW n \in Numbers
      PROVE  Table[n] = IF n < 16 THEN One(n) ELSE Append(Table[n \div 16], n % 16)
  <2>. DEFINE q == n \div 16
  <2>1. /\ n \in Nat /\ q \in Numbers /\ q \in Nat /\ (n < 256 => q < 16)
        /\ n >= 256 => q >= 16 /\ q < 256
    BY Halves
  <2>. HIDE DEF q
  <2>2. /\ Table[n] = IF n < 16 THEN One(n) ELSE IF n < 256 THEN Two(n) ELSE Three(n)
        /\ Table[q] = IF q < 16 THEN One(q) ELSE IF q < 256 THEN Two(q) ELSE Three(q)
    BY <2>1 DEF Table
  <2>3. Two(n) = Append(One(q), n % 16) /\ Three(n) = Append(Two(q), n % 16)
    BY DEF Two, Three, q
  <2>4. Table[n] = IF n < 16 THEN One(n) ELSE Append(Table[q], n % 16)
    BY <2>1, <2>2, <2>3
  <2>. QED  BY <2>4 DEF q
<1>2. Table = [n \in Numbers |-> Table[n]]
  BY DEF Table
<1>. HIDE DEF Table
<1>. QED  BY <1>1, <1>2 DEF Longer

LEMMA DigitsFit == Digits = Longer(Digits)
<1>1. Digits = CHOOSE digits : digits = Longer(digits)
  BY DEF Digits, Longer, One
<1>. QED  BY <1>1, TableFits

LEMMA DigitsShort == ASSUME NEW n \in Numbers, n < 16 PROVE Digits[n] = One(n)
BY DigitsFit DEF Longer

LEMMA DigitsLong ==
  ASSUME NEW n \in Numbers, ~(n < 16)
  PROVE  Digits[n] = Append(Digits[n \div 16], n % 16)
BY DigitsFit DEF Longer

\* The digits of the numbers that occur.
LEMMA DigitsAre ==
  ASSUME NEW n \in Nat, n <= 4095
  PROVE  /\ n < 16 => Digits[n] = <<n>>
         /\ n >= 256 => Digits[n] = <<n \div 256, (n \div 16) % 16, n % 16>>
<1>1. n \in Numbers
  BY NumbersAre
<1>2. ASSUME n < 16 PROVE Digits[n] = <<n>>
  BY <1>1, <1>2, DigitsShort DEF One
<1>3. ASSUME n >= 256
      PROVE  Digits[n] = <<n \div 256, (n \div 16) % 16, n % 16>>
  <2>. DEFINE q == n \div 16
              p == q \div 16
              a == n % 16
              b == q % 16
  <2>1. q \in Numbers /\ q >= 16 /\ q < 256 /\ q \in Nat
    BY <1>1, <1>3, Halves
  <2>2. p = n \div 256
    OBVIOUS
  <2>3. Digits[n] = Append(Digits[q], a)
    BY <1>1, <1>3, DigitsLong
  <2>. HIDE DEF q, a
  <2>4. p \in Numbers /\ p < 16 /\ p \in Nat
    BY <2>1, Halves
  <2>5. Digits[q] = Append(Digits[p], b)
    BY <2>1, DigitsLong
  <2>. HIDE DEF p, b
  <2>6. Digits[p] = <<p>>
    BY <2>4, DigitsShort DEF One
  <2>7. Append(<<p>>, b) = <<p, b>> /\ Append(<<p, b>>, a) = <<p, b, a>>
    BY AppendedTwo, AppendedThree
  <2>. DEFINE one == <<p>>
              two == <<p, b>>
              three == <<p, b, a>>
  <2>8. Digits[p] = one /\ Append(one, b) = two /\ Append(two, a) = three
    BY <2>6, <2>7
  <2>. HIDE DEF one, two, three
  <2>9. Digits[q] = two
    BY <2>5, <2>8
  <2>10. Digits[n] = three
    BY <2>3, <2>8, <2>9
  <2>. QED  BY <2>2, <2>10 DEF q, p, a, b, three
<1>. QED  BY <1>2, <1>3
-----------------------------------------------------------------------------
(***************************************************************************)
(* Reading a number back.                                                  *)
(***************************************************************************)
Reading(hex, f) ==
  [i \in 0 .. Len(hex) |-> IF i = 0 THEN 0 ELSE 16 * f[i - 1] + hex[i]]

LEMMA NumberIsRead ==
  ASSUME NEW hex, NEW f, f = Reading(hex, f)
  PROVE  \E g : g = Reading(hex, g) /\ NumberOf(hex) = g[Len(hex)]
<1>1. NumberOf(hex) = (CHOOSE g : g = Reading(hex, g))[Len(hex)]
  BY DEF NumberOf, Reading
<1>. QED  BY <1>1

LEMMA OneByteRead ==
  ASSUME NEW hex, Len(hex) = 2, hex[1] = 0, hex[2] \in Nat
  PROVE  NumberOf(hex) = hex[2]
<1>. DEFINE a == hex[2]
            f == [i \in 0 .. 2 |-> IF i <= 1 THEN 0 ELSE a]
<1>1. f = [i \in 0 .. 2 |-> IF i = 0 THEN 0 ELSE 16 * f[i - 1] + hex[i]]
  OBVIOUS
<1>2. f = Reading(hex, f)
  BY <1>1, Zenon DEF Reading
<1>. HIDE DEF f
<1>3. PICK g : g = Reading(hex, g) /\ NumberOf(hex) = g[Len(hex)]
  BY <1>2, NumberIsRead
<1>4. \A i \in 0 .. 2 : g[i] = IF i = 0 THEN 0 ELSE 16 * g[i - 1] + hex[i]
  BY <1>3 DEF Reading
<1>5. g[0] = 0
  BY <1>4
<1>6. g[1] = 0
  BY <1>4, <1>5
<1>7. g[2] = a
  BY <1>4, <1>6
<1>. QED  BY <1>3, <1>7

LEMMA FourBytesRead ==
  ASSUME NEW hex, Len(hex) = 8, \A i \in 1 .. 5 : hex[i] = 0,
         NEW a \in Nat, NEW b \in Nat, NEW c \in Nat,
         hex[6] = a, hex[7] = b, hex[8] = c
  PROVE  NumberOf(hex) = 256 * a + 16 * b + c
<1>. DEFINE f == [i \in 0 .. 8 |-> IF i <= 5 THEN 0 ELSE IF i = 6 THEN a
                                   ELSE IF i = 7 THEN 16 * a + b ELSE 256 * a + 16 * b + c]
            F(i) == IF i = 0 THEN 0 ELSE 16 * f[i - 1] + hex[i]
<1>1. f[0] = F(0) /\ f[1] = F(1) /\ f[2] = F(2) /\ f[3] = F(3) /\ f[4] = F(4) /\ f[5] = F(5)
  OBVIOUS
<1>2. f[6] = F(6) /\ f[7] = F(7)
  OBVIOUS
<1>3. f[8] = F(8)
  OBVIOUS
<1>4. f = [i \in 0 .. 8 |-> f[i]]
  OBVIOUS
<1>. HIDE DEF f
<1>5. f = [i \in 0 .. 8 |-> F(i)]
  <2>. HIDE DEF F
  <2>1. \A i \in 0 .. 8 : f[i] = F(i)
    BY <1>1, <1>2, <1>3
  <2>. QED  BY <1>4, <2>1
<1>6. f = Reading(hex, f)
  BY <1>5, Zenon DEF Reading
<1>7. PICK g : g = Reading(hex, g) /\ NumberOf(hex) = g[Len(hex)]
  BY <1>6, NumberIsRead
<1>8. \A i \in 0 .. 8 : g[i] = IF i = 0 THEN 0 ELSE 16 * g[i - 1] + hex[i]
  BY <1>7 DEF Reading
<1>9. g[0] = 0
  BY <1>8
<1>10. g[1] = 0
  BY <1>8, <1>9
<1>11. g[2] = 0
  BY <1>8, <1>10
<1>12. g[3] = 0
  BY <1>8, <1>11
<1>13. g[4] = 0
  BY <1>8, <1>12
<1>14. g[5] = 0
  BY <1>8, <1>13
<1>15. g[6] = a
  BY <1>8, <1>14
<1>16. g[7] = 16 * a + b
  BY <1>8, <1>15
<1>17. g[8] = 256 * a + 16 * b + c
  BY <1>8, <1>16
<1>. QED  BY <1>7, <1>17

LEMMA ThreeDigits ==
  ASSUME NEW n \in Nat
  PROVE  /\ n \div 256 \in Nat /\ (n \div 16) % 16 \in Nat /\ n % 16 \in Nat
         /\ n = 256 * (n \div 256) + 16 * ((n \div 16) % 16) + (n % 16)
<1>. DEFINE q == n \div 16
            p == q \div 16
<1>1. q \in Nat /\ n = 16 * q + (n % 16) /\ n % 16 \in Nat
  OBVIOUS
<1>2. p = n \div 256
  OBVIOUS
<1>. HIDE DEF q
<1>3. p \in Nat /\ q = 16 * p + (q % 16) /\ q % 16 \in Nat
  BY <1>1
<1>. HIDE DEF p
<1>4. n = 256 * p + 16 * (q % 16) + (n % 16)
  <2>. DEFINE a == n % 16
              b == q % 16
  <2>. HIDE DEF a, b
  <2>1. n = 16 * q + a /\ q = 16 * p + b /\ a \in Nat /\ b \in Nat
    BY <1>1, <1>3 DEF a, b
  <2>2. n = 256 * p + 16 * b + a
    BY <1>1, <1>3, <2>1
  <2>. QED  BY <2>2 DEF a, b
<1>. QED  BY <1>1, <1>2, <1>3, <1>4 DEF q

Zeros(n) == [i \in 1 .. n |-> 0]

LEMMA ZerosAre ==
  ASSUME NEW n \in Nat
  PROVE  Zeros(n) \in Seq(Nat) /\ Len(Zeros(n)) = n /\ \A i \in 1 .. n : Zeros(n)[i] = 0
BY DEF Zeros

LEMMA Joined ==
  ASSUME NEW s \in Seq(Nat), NEW t \in Seq(Nat), NEW k \in Nat, Len(s) = k,
         NEW u, u = s \o t
  PROVE  /\ u \in Seq(Nat) /\ Len(u) = k + Len(t)
         /\ \A i \in 1 .. k : u[i] = s[i]
         /\ \A i \in 1 .. Len(t) : u[k + i] = t[i]
<1>. DEFINE l == Len(t)
<1>1. l \in Nat
  BY LenProperties
<1>2. /\ u \in Seq(Nat) /\ Len(u) = k + l
      /\ \A i \in 1 .. k + l : u[i] = IF i <= k THEN s[i] ELSE t[i - k]
  BY ConcatProperties
<1>. HIDE DEF l
<1>3. ASSUME NEW i \in 1 .. k PROVE u[i] = s[i]
  BY <1>1, <1>2
<1>4. ASSUME NEW i \in 1 .. l PROVE u[k + i] = t[i]
  <2>1. k + i \in 1 .. k + l /\ ~(k + i <= k) /\ (k + i) - k = i
    BY <1>1, <1>4
  <2>. QED  BY <1>2, <2>1
<1>. QED  BY <1>1, <1>2, <1>3, <1>4 DEF l

LEMMA HexOf ==
  ASSUME NEW n \in Nat, NEW bytes \in Nat, Digits[n] \in Seq(Nat),
         NEW z \in Nat, Len(Digits[n]) + z = 2 * bytes
  PROVE  NumberToHex(n, bytes) = Zeros(z) \o Digits[n]
<1>. DEFINE d == Digits[n]
            k == Len(d)
            l == 2 * bytes
            zeros == IF k < l THEN l - k ELSE 0
<1>1. NumberToHex(n, bytes) = [i \in 1 .. zeros |-> 0] \o d
  BY Zenon DEF NumberToHex
<1>2. k \in Nat /\ l \in Nat /\ k + z = l
  BY LenProperties
<1>. HIDE DEF k, l
<1>3. zeros = z
  BY <1>2
<1>. HIDE DEF zeros
<1>. QED  BY <1>1, <1>3 DEF Zeros

\* An id of a parachain, in four bytes.
LEMMA FourBytes ==
  ASSUME NEW n \in Nat, 256 <= n, n <= 4095
  PROVE  LET hex == NumberToHex(n, 4)
         IN  hex \in Seq(Nat) /\ Len(hex) = 8 /\ NumberOf(hex) = n
<1>. DEFINE a == n \div 256
            b == (n \div 16) % 16
            c == n % 16
            d == <<a, b, c>>
            hex == NumberToHex(n, 4)
            four == 4
            five == 5
            z == Zeros(five)
<1>1. a \in Nat /\ b \in Nat /\ c \in Nat /\ n = 256 * a + 16 * b + c
  BY ThreeDigits
<1>2. d = Digits[n]
  BY DigitsAre
<1>. HIDE DEF a, b, c
<1>3. d \in Seq(Nat) /\ Len(d) = 3 /\ d[1] = a /\ d[2] = b /\ d[3] = c
  BY <1>1
<1>. HIDE DEF d
<1>4. four \in Nat /\ five \in Nat
  OBVIOUS
<1>5. hex = z \o d
  <2>1. Len(d) + five = 2 * four
    BY <1>3
  <2>. HIDE DEF four, five
  <2>2. d \in Seq(Nat)
    BY <1>3
  <2>3. PICK k \in Nat : k = five
    BY <1>4
  <2>4. PICK bytes \in Nat : bytes = four
    BY <1>4
  <2>5. Digits[n] \in Seq(Nat) /\ Len(Digits[n]) + k = 2 * bytes
    BY <1>2, <2>1, <2>2, <2>3, <2>4
  <2>6. NumberToHex(n, bytes) = Zeros(k) \o Digits[n]
    BY <2>5, HexOf
  <2>7. NumberToHex(n, four) = z \o d
    BY <1>2, <2>3, <2>4, <2>6
  <2>. QED  BY <2>7 DEF four
<1>. HIDE DEF hex, five
<1>6. z \in Seq(Nat) /\ Len(z) = five /\ \A i \in 1 .. five : z[i] = 0
  BY <1>4, ZerosAre
<1>. HIDE DEF z
<1>7. /\ hex \in Seq(Nat) /\ Len(hex) = five + Len(d)
      /\ \A i \in 1 .. five : hex[i] = z[i]
      /\ \A i \in 1 .. Len(d) : hex[five + i] = d[i]
  <2>1. d \in Seq(Nat) /\ z \in Seq(Nat) /\ Len(z) = five
    BY <1>3, <1>6
  <2>2. hex \in Seq(Nat) /\ Len(hex) = five + Len(d)
    BY <1>4, <1>5, <2>1, Joined
  <2>3. \A i \in 1 .. five : hex[i] = z[i]
    BY <1>4, <1>5, <2>1, Joined
  <2>4. \A i \in 1 .. Len(d) : hex[five + i] = d[i]
    BY <1>4, <1>5, <2>1, Joined
  <2>. QED  BY <2>2, <2>3, <2>4
<1>. USE DEF five
<1>8. Len(hex) = 8 /\ (\A i \in 1 .. 5 : hex[i] = 0)
  BY <1>3, <1>6, <1>7
<1>9. hex[5 + 1] = a /\ hex[5 + 2] = b /\ hex[5 + 3] = c
  BY <1>3, <1>7
<1>10. hex[6] = a /\ hex[7] = b /\ hex[8] = c
  BY <1>9
<1>11. NumberOf(hex) = 256 * a + 16 * b + c
  BY <1>1, <1>8, <1>10, FourBytesRead
<1>. QED  BY <1>1, <1>7, <1>8, <1>11 DEF hex

\* The number of a pallet, in one byte.
LEMMA OneByte ==
  ASSUME NEW n \in Nat, n < 16
  PROVE  LET hex == NumberToHex(n, 1)
         IN  hex \in Seq(Nat) /\ Len(hex) = 2 /\ NumberOf(hex) = n
<1>. DEFINE d == <<n>>
            hex == NumberToHex(n, 1)
            one == 1
<1>1. d = Digits[n]
  BY DigitsAre
<1>2. d \in Seq(Nat) /\ Len(d) = 1 /\ d[1] = n
  OBVIOUS
<1>. HIDE DEF d
<1>3. hex = Zeros(1) \o d
  <2>1. one \in Nat /\ Len(d) + one = 2 * one
    BY <1>2
  <2>. HIDE DEF one
  <2>2. NumberToHex(n, one) = Zeros(one) \o d
    BY <1>1, <1>2, <2>1, HexOf
  <2>. QED  BY <2>2 DEF one
<1>. HIDE DEF hex
<1>4. Zeros(1) \in Seq(Nat) /\ Len(Zeros(1)) = 1 /\ Zeros(1)[1] = 0
  BY DEF Zeros
<1>5. /\ hex \in Seq(Nat) /\ Len(hex) = 2
      /\ \A i \in 1 .. 2 : hex[i] = IF i <= 1 THEN Zeros(1)[i] ELSE d[i - 1]
  BY <1>2, <1>3, <1>4, ConcatProperties
<1>6. hex[1] = 0 /\ hex[2] = n
  BY <1>2, <1>4, <1>5
<1>7. NumberOf(hex) = n
  BY <1>5, <1>6, OneByteRead
<1>. QED  BY <1>5, <1>7 DEF hex
-----------------------------------------------------------------------------
(***************************************************************************)
(* Reading a location back.                                                *)
(***************************************************************************)
\* The selector of a junction, and the rest of it.
LEMMA Split ==
  ASSUME NEW p \in Nat, NEW field \in Seq(Nat)
  PROVE  LET hex == <<0, p>> \o field
         IN  /\ hex \in Seq(Nat) /\ hex[2] = p
             /\ SubSeq(hex, 3, Len(hex)) = field
<1>. DEFINE s == <<0, p>>
            hex == s \o field
            l == Len(hex)
            tail == SubSeq(hex, 3, l)
<1>. DEFINE two == 2
<1>1. s \in Seq(Nat) /\ Len(s) = two /\ s[2] = p /\ two \in Nat
  OBVIOUS
<1>. HIDE DEF s
<1>2. Len(field) \in Nat
  BY LenProperties
<1>3. /\ hex \in Seq(Nat) /\ l = two + Len(field)
      /\ \A i \in 1 .. two : hex[i] = s[i]
      /\ \A i \in 1 .. Len(field) : hex[two + i] = field[i]
  <2>1. hex = s \o field
    OBVIOUS
  <2>2. PICK k \in Nat : k = two /\ Len(s) = k
    BY <1>1
  <2>3. Len(s) = k /\ s \in Seq(Nat)
    BY <1>1, <2>2
  <2>. HIDE DEF hex, two
  <2>4. /\ hex \in Seq(Nat) /\ Len(hex) = k + Len(field)
        /\ \A i \in 1 .. k : hex[i] = s[i]
        /\ \A i \in 1 .. Len(field) : hex[k + i] = field[i]
    BY <2>1, <2>3, Joined
  <2>. QED  BY <2>2, <2>4 DEF l
<1>. HIDE DEF hex
<1>4. hex[2] = p
  BY <1>1, <1>3
<1>. HIDE DEF l
<1>5. /\ tail \in Seq(Nat) /\ Len(tail) = IF 3 <= l THEN l - 3 + 1 ELSE 0
      /\ \A i \in 1 .. l - 3 + 1 : tail[i] = hex[3 + i - 1]
  <2>1. \A i \in 3 .. l : hex[i] \in Nat
    <3>. SUFFICES ASSUME NEW i \in 3 .. l PROVE hex[i] \in Nat
      OBVIOUS
    <3>1. i \in 1 .. Len(hex)
      BY <1>2, <1>3 DEF l
    <3>. QED  BY <1>3, <3>1, ElementOfSeq
  <2>2. 3 \in Int /\ l \in Int
    BY <1>2, <1>3
  <2>. QED  BY <2>1, <2>2, SubSeqProperties
<1>. HIDE DEF tail
<1>6. Len(tail) = Len(field)
  BY <1>2, <1>3, <1>5
<1>7. \A i \in 1 .. Len(tail) : tail[i] = field[i]
  <2>. SUFFICES ASSUME NEW i \in 1 .. Len(tail) PROVE tail[i] = field[i]
    OBVIOUS
  <2>1. i \in 1 .. Len(field) /\ i \in 1 .. l - 3 + 1 /\ 3 + i - 1 = 2 + i
    BY <1>2, <1>3, <1>6
  <2>2. tail[i] = hex[2 + i]
    BY <1>5, <2>1
  <2>3. hex[2 + i] = field[i]
    BY <1>3, <2>1
  <2>. QED  BY <2>2, <2>3
<1>8. tail = field
  BY <1>5, <1>6, <1>7, SeqEqual
<1>. QED  BY <1>3, <1>4, <1>8 DEF tail, hex, l, s

\* An account without the network that follows it.
LEMMA Cut ==
  ASSUME NEW key \in Seq(Nat), NEW k \in Nat, Len(key) = k,
         NEW field, field = key \o <<0, 0>>
  PROVE  /\ field \in Seq(Nat) /\ Len(field) = k + 2
         /\ SubSeq(field, 1, Len(field) - 2) = key
<1>. DEFINE any == <<0, 0>>
            cut == SubSeq(field, 1, k)
<1>1. any \in Seq(Nat) /\ Len(any) = 2 /\ field = key \o any
  OBVIOUS
<1>. HIDE DEF any
<1>2. field \in Seq(Nat) /\ Len(field) = k + Len(any)
  BY <1>1, Joined
<1>3. \A i \in 1 .. k : field[i] = key[i]
  BY <1>1, Joined
<1>4. \A i \in 1 .. k : key[i] \in Nat
  BY ElementOfSeq
<1>5. /\ cut \in Seq(Nat) /\ Len(cut) = IF 1 <= k THEN k - 1 + 1 ELSE 0
      /\ \A i \in 1 .. k - 1 + 1 : cut[i] = field[1 + i - 1]
  <2>1. \A i \in 1 .. k : field[i] \in Nat
    BY <1>3, <1>4
  <2>2. 1 \in Int /\ k \in Int
    OBVIOUS
  <2>. QED  BY <2>1, <2>2, SubSeqProperties
<1>. HIDE DEF cut
<1>6. Len(cut) = k
  BY <1>5
<1>7. \A i \in 1 .. Len(cut) : cut[i] = key[i]
  <2>. SUFFICES ASSUME NEW i \in 1 .. k PROVE cut[i] = key[i]
    BY <1>6
  <2>1. i \in 1 .. k - 1 + 1 /\ 1 + i - 1 = i
    OBVIOUS
  <2>. QED  BY <1>3, <1>5, <2>1
<1>8. cut = key
  BY <1>5, <1>6, <1>7, SeqEqual
<1>9. Len(field) = k + 2 /\ Len(field) - 2 = k
  BY <1>1, <1>2
<1>. QED  BY <1>2, <1>8, <1>9 DEF cut

\* What a contract reads of a junction with selector p.
Taken(p, field) ==
  CASE p = 0 /\ Len(field) = 8  -> [Parachain |-> NumberOf(field)]
    [] p = 1 /\ Len(field) = 66 -> [AccountId32 |-> [id |-> SubSeq(field, 1, Len(field) - 2)]]
    [] p = 3 /\ Len(field) = 42 -> [AccountKey20 |-> [key |-> SubSeq(field, 1, Len(field) - 2)]]
    [] p = 4 /\ Len(field) = 2  -> [PalletInstance |-> NumberOf(field)]
    [] OTHER -> [Undecodable |-> <<0, p>> \o field]

LEMMA Decoded ==
  ASSUME NEW p \in Nat, NEW field \in Seq(Nat)
  PROVE  DecodeJunction(<<0, p>> \o field) = Taken(p, field)
<1>. DEFINE hex == <<0, p>> \o field
<1>1. hex[2] = p /\ SubSeq(hex, 3, Len(hex)) = field
  BY Split
<1>2. hex = <<0, p>> \o field
  OBVIOUS
<1>. HIDE DEF hex
<1>3. DecodeJunction(hex) = Taken(p, field)
  BY <1>1, <1>2, Zenon DEF DecodeJunction, Taken
<1>. QED  BY <1>2, <1>3

LEMMA Encoded ==
  ASSUME NEW j, NEW name \in DOMAIN Prefix, DOMAIN j = {name}
  PROVE  EncodeJunction(j) = <<0, Prefix[name]>> \o FieldHex(j)
<1>. DEFINE selector == CHOOSE s \in DOMAIN j : s \in DOMAIN Prefix
<1>1. selector = name
  OBVIOUS
<1>2. EncodeJunction(j) = <<0, Prefix[selector]>> \o FieldHex(j)
  BY Zenon DEF EncodeJunction
<1>. HIDE DEF selector
<1>. QED  BY <1>1, <1>2

LEMMA Selectors ==
  /\ {"Parachain", "AccountId32", "AccountKey20", "PalletInstance"} \subseteq DOMAIN Prefix
  /\ Prefix["Parachain"] = 0 /\ Prefix["AccountId32"] = 1
  /\ Prefix["AccountKey20"] = 3 /\ Prefix["PalletInstance"] = 4
BY DEF Prefix

\* A junction that names a parachain.
LEMMA ParachainRead ==
  ASSUME NEW n \in Nat, 256 <= n, n <= 4095
  PROVE  DecodeJunction(EncodeJunction([Parachain |-> n])) = [Parachain |-> n]
<1>. DEFINE j == [Parachain |-> n]
            field == NumberToHex(n, 4)
<1>1. DOMAIN j = {"Parachain"} /\ j.Parachain = n
  OBVIOUS
<1>. HIDE DEF j
<1>2. FieldHex(j) = NumberToHex(n, 4)
  BY <1>1 DEF FieldHex, Has
<1>3. EncodeJunction(j) = <<0, 0>> \o field
  BY <1>1, <1>2, Encoded, Selectors
<1>4. field \in Seq(Nat) /\ Len(field) = 8 /\ NumberOf(field) = n
  BY FourBytes
<1>. HIDE DEF field
<1>5. DecodeJunction(<<0, 0>> \o field) = Taken(0, field)
  BY <1>4, Decoded
<1>6. Taken(0, field) = [Parachain |-> NumberOf(field)]
  BY <1>4 DEF Taken
<1>7. DecodeJunction(EncodeJunction(j)) = [Parachain |-> n]
  BY <1>3, <1>4, <1>5, <1>6
<1>. QED  BY <1>7 DEF j

\* A junction that names a pallet.
LEMMA PalletRead ==
  ASSUME NEW n \in Nat, n < 16
  PROVE  DecodeJunction(EncodeJunction([PalletInstance |-> n])) = [PalletInstance |-> n]
<1>. DEFINE j == [PalletInstance |-> n]
            field == NumberToHex(n, 1)
<1>1. DOMAIN j = {"PalletInstance"} /\ j.PalletInstance = n
  OBVIOUS
<1>. HIDE DEF j
<1>2. FieldHex(j) = NumberToHex(n, 1)
  BY <1>1 DEF FieldHex, Has
<1>3. EncodeJunction(j) = <<0, 4>> \o field
  BY <1>1, <1>2, Encoded, Selectors
<1>4. field \in Seq(Nat) /\ Len(field) = 2 /\ NumberOf(field) = n
  BY OneByte
<1>. HIDE DEF field
<1>5. DecodeJunction(<<0, 4>> \o field) = Taken(4, field)
  BY <1>4, Decoded
<1>6. Taken(4, field) = [PalletInstance |-> NumberOf(field)]
  BY <1>4 DEF Taken
<1>. QED  BY <1>3, <1>4, <1>5, <1>6 DEF j

\* A junction that names an account.
LEMMA AccountRead ==
  ASSUME NEW key \in Seq(Nat), NEW type \in {"AccountKey20", "AccountId32"},
         Len(key) = IF type = "AccountKey20" THEN 40 ELSE 64
  PROVE  LET j == AccountJunction(type, key)
         IN  DecodeJunction(EncodeJunction(j)) = j
<1>. DEFINE j == AccountJunction(type, key)
            field == key \o <<0, 0>>
<1>1. Networks["Any"] = <<0, 0>>
  BY DEF Networks
<1>2. CASE type = "AccountKey20"
  <2>1. DOMAIN j = {"AccountKey20"} /\ j.AccountKey20.key = key /\ j = [AccountKey20 |-> [key |-> key]]
    BY <1>2 DEF AccountJunction
  <2>. HIDE DEF j
  <2>2. FieldHex(j) = field
    BY <1>1, <2>1 DEF FieldHex, Has, NetworkHex
  <2>3. EncodeJunction(j) = <<0, 3>> \o field
    BY <2>1, <2>2, Encoded, Selectors
  <2>4. PICK k \in Nat : k = 40 /\ Len(key) = k
    BY <1>2
  <2>5. /\ field \in Seq(Nat) /\ Len(field) = k + 2
        /\ SubSeq(field, 1, Len(field) - 2) = key
    BY <2>4, Cut
  <2>6. Len(field) = 42
    BY <2>4, <2>5
  <2>. HIDE DEF field
  <2>7. DecodeJunction(<<0, 3>> \o field) = Taken(3, field)
    BY <2>5, Decoded
  <2>8. Taken(3, field) = [AccountKey20 |-> [key |-> SubSeq(field, 1, Len(field) - 2)]]
    BY <2>6 DEF Taken
  <2>9. DecodeJunction(EncodeJunction(j)) = j
    BY <2>1, <2>3, <2>5, <2>7, <2>8
  <2>. QED  BY <2>9 DEF j
<1>3. CASE type = "AccountId32"
  <2>1. DOMAIN j = {"AccountId32"} /\ j.AccountId32.id = key /\ j = [AccountId32 |-> [id |-> key]]
    BY <1>3 DEF AccountJunction
  <2>. HIDE DEF j
  <2>2. FieldHex(j) = field
    BY <1>1, <2>1 DEF FieldHex, Has, NetworkHex
  <2>3. EncodeJunction(j) = <<0, 1>> \o field
    BY <2>1, <2>2, Encoded, Selectors
  <2>4. PICK k \in Nat : k = 64 /\ Len(key) = k
    BY <1>3
  <2>5. /\ field \in Seq(Nat) /\ Len(field) = k + 2
        /\ SubSeq(field, 1, Len(field) - 2) = key
    BY <2>4, Cut
  <2>6. Len(field) = 66
    BY <2>4, <2>5
  <2>. HIDE DEF field
  <2>7. DecodeJunction(<<0, 1>> \o field) = Taken(1, field)
    BY <2>5, Decoded
  <2>8. Taken(1, field) = [AccountId32 |-> [id |-> SubSeq(field, 1, Len(field) - 2)]]
    BY <2>6 DEF Taken
  <2>9. DecodeJunction(EncodeJunction(j)) = j
    BY <2>1, <2>3, <2>5, <2>7, <2>8
  <2>. QED  BY <2>9 DEF j
<1>. QED  BY <1>2, <1>3
-----------------------------------------------------------------------------
(***************************************************************************)
(* What is built of a request.                                             *)
(***************************************************************************)
Readable(j) == DecodeJunction(EncodeJunction(j)) = j

LEMMA LocationRead ==
  ASSUME NEW p, NEW n \in Nat, NEW interior, DOMAIN interior = 1 .. n,
         interior = [i \in DOMAIN interior |-> interior[i]],
         \A i \in 1 .. n : Readable(interior[i])
  PROVE  LET location == [parents |-> p, interior |-> interior]
         IN  Decode(ConvertLocationToPrecompileMultiLocation(location)) = location
<1>. DEFINE location == [parents |-> p, interior |-> interior]
            code == [i \in DOMAIN interior |-> EncodeJunction(interior[i])]
            encoded == [parents |-> p, interiors |-> code]
<1>1. ConvertLocationToPrecompileMultiLocation(location) = encoded
  BY DEF ConvertLocationToPrecompileMultiLocation
<1>2. Decode(encoded) = [parents |-> p,
        interior |-> [i \in DOMAIN code |-> DecodeJunction(code[i])]]
  <2>1. encoded.parents = p /\ encoded.interiors = code
    OBVIOUS
  <2>. HIDE DEF encoded, code
  <2>. QED  BY <2>1 DEF Decode
<1>3. [i \in DOMAIN code |-> DecodeJunction(code[i])] = interior
  <2>1. DOMAIN code = DOMAIN interior
    OBVIOUS
  <2>2. \A i \in DOMAIN interior : DecodeJunction(code[i]) = interior[i]
    BY DEF Readable
  <2>. HIDE DEF code
  <2>. QED  BY <2>1, <2>2
<1>. HIDE DEF code, encoded
<1>. QED  BY <1>1, <1>2, <1>3

LEMMA Dropped ==
  ASSUME NEW a, NEW b
  PROVE  WithoutParachain(<<[Parachain |-> a], [PalletInstance |-> b]>>) = <<[PalletInstance |-> b]>>
<1>. DEFINE x == [Parachain |-> a]
            y == [PalletInstance |-> b]
            s == <<x, y>>
            Kept(f) == [i \in 0 .. Len(s) |->
                          IF i = 0 THEN Here
                          ELSE IF Has(s[i], "Parachain") THEN f[i - 1]
                          ELSE Append(f[i - 1], s[i])]
            one == <<y>>
            g == [i \in 0 .. 2 |-> IF i <= 1 THEN Here ELSE one]
<1>1. Has(x, "Parachain") /\ ~Has(y, "Parachain")
  BY DEF Has
<1>2. Append(Here, y) = one
  BY DEF Here
<1>. HIDE DEF x, y
<1>3. Len(s) = 2 /\ s[1] = x /\ s[2] = y
  OBVIOUS
<1>. HIDE DEF s, one
<1>4. ASSUME NEW f
      PROVE  Kept(f) = [i \in 0 .. 2 |-> IF i = 0 THEN Here ELSE IF i = 1 THEN f[0]
                                         ELSE Append(f[1], y)]
  BY <1>1, <1>3
<1>5. WithoutParachain(s) = (CHOOSE f : f = Kept(f))[2]
  BY <1>3 DEF WithoutParachain
<1>. HIDE DEF Kept
<1>6. g = Kept(g)
  <2>1. g[0] = Here /\ g[1] = Here
    OBVIOUS
  <2>2. g = [i \in 0 .. 2 |-> IF i = 0 THEN Here ELSE IF i = 1 THEN Here ELSE one]
    OBVIOUS
  <2>. HIDE DEF g
  <2>. QED  BY <1>2, <1>4, <2>1, <2>2
<1>. HIDE DEF g
<1>7. PICK f : f = Kept(f) /\ WithoutParachain(s) = f[2]
  BY <1>5, <1>6
<1>8. f = [i \in 0 .. 2 |-> IF i = 0 THEN Here ELSE IF i = 1 THEN f[0] ELSE Append(f[1], y)]
  BY <1>4, <1>7
<1>9. f[0] = Here /\ f[1] = f[0] /\ f[2] = Append(f[1], y)
  BY <1>8
<1>10. WithoutParachain(s) = one
  BY <1>2, <1>7, <1>9
<1>. QED  BY <1>10 DEF s, one, x, y

Located(parents, interior) == [parents |-> parents, interior |-> interior]

\* The native asset of a chain that reads relative locations.
LEMMA RelativeAsset ==
  ASSUME NEW k \in Chains, Family(k) \in {"astar", "moonbeam"}
  PROVE  LET location == ConvertAbsoluteLocationToRelative(Native(k))
         IN  /\ location = Located(0, Tail(Native(k).interior))
             /\ Decode(ConvertLocationToPrecompileMultiLocation(location)) = location
<1>. DEFINE a == Native(k)
            location == ConvertAbsoluteLocationToRelative(a)
<1>1. CASE a \in {Sdn, Rstr, Sby}
  <2>1. PICK n : a = [parents |-> 1, interior |-> <<[Parachain |-> n]>>]
    BY <1>1, Locations
  <2>. HIDE DEF a
  <2>2. Len(a.interior) = 1 /\ Tail(a.interior) = Here
    BY <2>1 DEF Here
  <2>3. location = Located(0, Here)
    BY <2>2 DEF ConvertAbsoluteLocationToRelative, Located
  <2>4. Decode(ConvertLocationToPrecompileMultiLocation(Located(0, Here))) = Located(0, Here)
    <3>. DEFINE none == <<>>
    <3>1. PICK zero \in Nat : zero = 0
      OBVIOUS
    <3>2. DOMAIN none = 1 .. 0 /\ none = [i \in DOMAIN none |-> none[i]]
      OBVIOUS
    <3>. HIDE DEF none
    <3>3. DOMAIN none = 1 .. zero /\ \A i \in 1 .. zero : Readable(none[i])
      BY <3>1, <3>2
    <3>4. Decode(ConvertLocationToPrecompileMultiLocation(Located(0, none))) = Located(0, none)
      BY <3>2, <3>3, LocationRead DEF Located
    <3>. QED  BY <3>4 DEF none, Here
  <2>. QED  BY <2>2, <2>3, <2>4 DEF a
<1>2. ASSUME NEW n, NEW m \in Nat, m < 16,
             a = [parents |-> 1, interior |-> <<[Parachain |-> n], [PalletInstance |-> m]>>]
      PROVE  /\ location = Located(0, Tail(a.interior))
             /\ Decode(ConvertLocationToPrecompileMultiLocation(location)) = location
  <2>. DEFINE y == [PalletInstance |-> m]
              two == <<[Parachain |-> n], y>>
              one == <<y>>
  <2>1. WithoutParachain(two) = one
    BY Dropped
  <2>2. Len(two) = 2 /\ Tail(two) = one
    OBVIOUS
  <2>3. a.interior = two
    BY <1>2
  <2>4. Readable(y)
    BY PalletRead, <1>2 DEF Readable
  <2>. HIDE DEF a, y
  <2>5. one[1] = y /\ DOMAIN one = 1 .. 1 /\ one = [i \in DOMAIN one |-> one[i]]
    OBVIOUS
  <2>. HIDE DEF one, two
  <2>6. location = Located(0, one)
    BY <2>1, <2>2, <2>3 DEF ConvertAbsoluteLocationToRelative, Located
  <2>7. \A i \in 1 .. 1 : Readable(one[i])
    BY <2>4, <2>5
  <2>8. Decode(ConvertLocationToPrecompileMultiLocation(Located(0, one))) = Located(0, one)
    BY <2>5, <2>7, LocationRead DEF Located
  <2>. QED  BY <2>2, <2>3, <2>6, <2>8
<1>3. CASE a = Movr
  BY <1>2, <1>3, Locations
<1>4. CASE a = Unit
  BY <1>2, <1>4, Locations
<1>. QED  BY <1>1, <1>3, <1>4, Rows

\* What a caller may ask for.
Fits(r) ==
  /\ r.function \in CrossChain \cup {"transferMultiasset"}
  /\ r.source \in Chains /\ r.destination \in Chains \ {r.source}
  /\ Network(r.source) = Network(r.destination)
  /\ r.asset \in Assets /\ r.amount \in Nat /\ r.recipient.hex \in Seq(0 .. 15)
  /\ r.function = "crossChainTransferWithEthSigner" => Family(r.source) \in {"astar", "moonbeam"}
  /\ r.function = "transferMultiasset" => Family(r.source) = "oak"
  /\ r.asset \in Listed(r.source) => Sender(r) \in DOMAIN Purse

LEMMA RequestsFit == \A w \in Workloads, t \in Transfers : Fits(w[t])
BY RequestAssumption, PurseAssumption DEF Fits, Sender

Through(location) == Decode(ConvertLocationToPrecompileMultiLocation(location))

LEMMA PassedIs ==
  ASSUME NEW r, NEW location
  PROVE  Passed(r, location) =
           IF r.function = "crossChainTransferWithEthSigner" THEN Through(location) ELSE location
BY DEF Passed, Through

LEMMA ParentsKept ==
  ASSUME NEW r, NEW location
  PROVE  Passed(r, location).parents = location.parents
BY DEF Passed, Decode, ConvertLocationToPrecompileMultiLocation

LEMMA AssetParents ==
  ASSUME NEW r, r.asset \in Assets
  PROVE  Passed(r, AssetLocation(r)).parents \in 0 .. 1
<1>1. r.asset.parents = 1
  BY Locations DEF Assets
<1>2. AssetLocation(r).parents \in {0, 1}
  BY <1>1 DEF AssetLocation, ConvertAbsoluteLocationToRelative
<1>. QED  BY <1>2, ParentsKept

\* The location of the other asset that chains with contracts list.
LEMMA TurRead == Through(Tur) = Tur
<1>. DEFINE x == [Parachain |-> 2114]
            one == <<x>>
<1>1. Tur = Located(1, one)
  BY Locations DEF Located
<1>2. Readable(x)
  <2>1. PICK n \in Nat : n = 2114
    OBVIOUS
  <2>2. 256 <= n /\ n <= 4095
    BY <2>1
  <2>3. Readable([Parachain |-> n])
    BY <2>2, ParachainRead DEF Readable
  <2>. QED  BY <2>1, <2>3
<1>. HIDE DEF x
<1>3. one[1] = x /\ DOMAIN one = 1 .. 1 /\ one = [i \in DOMAIN one |-> one[i]]
  OBVIOUS
<1>. HIDE DEF one
<1>4. \A i \in 1 .. 1 : Readable(one[i])
  BY <1>2, <1>3
<1>5. Through(Located(1, one)) = Located(1, one)
  BY <1>3, <1>4, LocationRead DEF Located, Through
<1>. QED  BY <1>1, <1>5

LEMMA TurIsForeign == Tur \notin {Movr, Unit}
<1>1. Len(Tur.interior) = 1 /\ Len(Movr.interior) = 2 /\ Len(Unit.interior) = 2
  BY Locations
<1>. QED  BY <1>1

\* Every asset registered on the source is named in the form the source knows it by.
LEMMA AssetDenoted ==
  ASSUME NEW r, Fits(r), r.asset \in Registered(r.source)
  PROVE  Denotes(r.source, Passed(r, AssetLocation(r)), r.asset)
<1>. DEFINE k == r.source
            a == r.asset
            location == AssetLocation(r)
<1>1. /\ k \in Chains /\ a \in Registered(k) /\ a \in Listed(k)
      /\ r.function = "crossChainTransferWithEthSigner" => Family(k) \in {"astar", "moonbeam"}
  BY DEF Fits, Registered
<1>2. CASE Family(k) \in {"astar", "moonbeam"} /\ a = Native(k)
  <2>1. location = ConvertAbsoluteLocationToRelative(Native(k))
    BY <1>2 DEF AssetLocation, IsNativeAsset
  <2>2. location = Located(0, Tail(Native(k).interior)) /\ Through(location) = location
    BY <1>1, <1>2, <2>1, RelativeAsset DEF Through
  <2>3. Passed(r, location) = location
    BY <2>2, PassedIs
  <2>. HIDE DEF location, k, a
  <2>4. Denotes(k, location, a)
    BY <1>1, <1>2, <2>2 DEF Denotes, Located
  <2>. QED  BY <2>3, <2>4 DEF location, k, a
<1>3. CASE ~(Family(k) \in {"astar", "moonbeam"} /\ a = Native(k))
  <2>1. location = a
    BY <1>3 DEF AssetLocation, IsNativeAsset
  <2>2. Family(k) \in {"astar", "moonbeam"} => a = Tur
    BY <1>1, <1>3, Rows
  <2>3. Passed(r, location) = a
    BY <1>1, <2>1, <2>2, PassedIs, TurRead
  <2>. HIDE DEF location, k, a
  <2>4. Denotes(k, a, a)
    BY <1>1, <1>3 DEF Denotes
  <2>. QED  BY <2>3, <2>4 DEF location, k, a
<1>. QED  BY <1>2, <1>3

\* The beneficiary is named on the destination, by an account of the kind
\* the function makes of the address.
LEMMA BeneficiaryNamed ==
  ASSUME NEW r, Fits(r), ~Throws(r), paraId[r.destination] \in {Unset, ParachainId(r.destination)}
  PROVE  LET b == Passed(r, Beneficiary(r))
         IN  /\ b.parents = 1
             /\ b.interior[1] = [Parachain |-> paraId[r.destination]]
             /\ b.interior[2] = AccountJunction(RecipientType(r), r.recipient.hex)
             /\ r.function \in CrossChain => paraId[r.destination] # Unset
<1>. DEFINE x == [Parachain |-> paraId[r.destination]]
            y == AccountJunction(RecipientType(r), r.recipient.hex)
            two == <<x, y>>
<1>1. Beneficiary(r) = Located(1, two)
  BY DEF Beneficiary, Located
<1>2. r.function \in CrossChain => paraId[r.destination] # Unset
  BY DEF Throws
<1>3. ASSUME r.function = "crossChainTransferWithEthSigner"
      PROVE  Readable(x) /\ Readable(y)
  <2>1. r.function \in CrossChain
    BY <1>3 DEF CrossChain
  <2>2. x = [Parachain |-> ParachainId(r.destination)] /\ r.destination \in Chains
    BY <1>2, <2>1 DEF Fits
  <2>3. Readable([Parachain |-> ParachainId(r.destination)])
    <3>1. PICK n \in Nat : n = ParachainId(r.destination) /\ IsId(n)
      BY <2>2, Ids
    <3>2. Readable([Parachain |-> n])
      BY <3>1, ParachainRead DEF Readable, IsId
    <3>. QED  BY <3>1, <3>2
  <2>. HIDE DEF x
  <2>. DEFINE hex == r.recipient.hex
              type == RecipientType(r)
  <2>4. type = AccountTypeOf(r.recipient) /\ type # "unrecognized"
    BY <2>1 DEF RecipientType, Throws
  <2>5. type \in {"AccountKey20", "AccountId32"} /\ Len(hex) = IF type = "AccountKey20" THEN 40 ELSE 64
    BY <2>4 DEF AccountTypeOf
  <2>6. hex \in Seq(Nat)
    <3>1. hex \in Seq(0 .. 15) /\ 0 .. 15 \subseteq Nat
      BY DEF Fits
    <3>. HIDE DEF hex
    <3>. QED  BY <3>1, SeqMonotonic
  <2>. HIDE DEF type, hex
  <2>7. Readable(AccountJunction(type, hex))
    BY <2>5, <2>6, AccountRead DEF Readable
  <2>. QED  BY <2>2, <2>3, <2>7 DEF type, hex
<1>. HIDE DEF x, y
<1>4. /\ two[1] = x /\ two[2] = y
      /\ DOMAIN two = 1 .. 2 /\ two = [i \in DOMAIN two |-> two[i]]
  OBVIOUS
<1>. HIDE DEF two
<1>5. r.function = "crossChainTransferWithEthSigner" => Through(Located(1, two)) = Located(1, two)
  <2>. SUFFICES ASSUME r.function = "crossChainTransferWithEthSigner"
                PROVE  Through(Located(1, two)) = Located(1, two)
    OBVIOUS
  <2>1. \A i \in 1 .. 2 : Readable(two[i])
    BY <1>3, <1>4
  <2>. QED  BY <1>4, <2>1, LocationRead DEF Located, Through
<1>6. Passed(r, Beneficiary(r)) = Located(1, two)
  BY <1>1, <1>5, PassedIs
<1>. QED  BY <1>2, <1>4, <1>6 DEF Located, x, y
-----------------------------------------------------------------------------
(***************************************************************************)
(* The invariant.                                                          *)
(***************************************************************************)
Departed == {"moving", "received", "trapped"}

\* A config is completed with the id its chain has.
Completed == \A k \in Chains : paraId[k] \in {Unset, ParachainId(k)}

\* What is built names the asset as the source knows it, and the account on
\* the destination or, by transferMultiasset, on no chain at all.
Towards(r, b) ==
  \/ b.interior[1] = [Parachain |-> ParachainId(r.destination)]
  \/ r.function = "transferMultiasset" /\ b.interior[1] = [Parachain |-> Unset]

Names(r, c) ==
  /\ r.asset \in Registered(r.source) => Denotes(r.source, c.asset, r.asset)
  /\ c.asset.parents \in 0 .. 1 /\ c.beneficiary.parents = 1
  /\ Towards(r, c.beneficiary)
  /\ c.beneficiary.interior[2] = AccountJunction(RecipientType(r), r.recipient.hex)

Named == \A t \in Transfers : pc[t] \notin {"asked", "threw"} => Names(request[t], call[t])

\* Only a transfer that left takes funds.
Spent == \A h \in DOMAIN Purse : funds[h] < Purse[h] =>
  \E u \in Transfers : Sender(request[u]) = h /\ pc[u] \in Departed

Base == TypeOK /\ request \in Workloads /\ DOMAIN call = Transfers /\ Completed

IInv == Base /\ Named /\ Spent /\ TrappedOnlyByCaller /\ RefusedOnlyForFunds

LEMMA Requested == Base => \A t \in Transfers : Fits(request[t])
BY RequestsFit DEF Base

LEMMA LeadsThere ==
  ASSUME NEW r, Fits(r), NEW b, Towards(r, b), NEW k \in Chains, Leads(r.source, b, k)
  PROVE  k = r.destination /\ b.interior[1] = [Parachain |-> ParachainId(r.destination)]
<1>. DEFINE l == r.destination
            At(n) == [Parachain |-> n]
<1>1. l \in Chains /\ Network(l) = Network(k)
  BY DEF Fits, Leads
<1>2. b.interior[1] = At(ParachainId(k)) /\ b.interior[1] \in {At(ParachainId(l)), At(Unset)}
  BY DEF Leads, Towards
<1>3. ParachainId(k) # Unset
  <2>1. ParachainId(k) \in Nat
    BY IdIsNumber
  <2>. QED  BY <2>1, UnsetAssumption
<1>4. ASSUME NEW m, NEW n, At(m) = At(n) PROVE m = n
  <2>1. At(m).Parachain = m /\ At(n).Parachain = n
    OBVIOUS
  <2>. HIDE DEF At
  <2>. QED  BY <1>4, <2>1
<1>. HIDE DEF At, l
<1>5. ParachainId(k) = ParachainId(l) /\ b.interior[1] = At(ParachainId(l))
  BY <1>2, <1>3, <1>4
<1>6. k = l
  BY <1>1, <1>5, DistinctChains
<1>. QED  BY <1>5, <1>6 DEF At, l

LEMMA LeadsToDestination ==
  ASSUME NEW r, Fits(r), NEW b, b.parents = 1,
         b.interior[1] = [Parachain |-> ParachainId(r.destination)]
  PROVE  \E k \in Chains \ {r.source} : Leads(r.source, b, k)
BY DEF Fits, Leads

LEMMA JunctionHex ==
  ASSUME NEW type, NEW hex
  PROVE  LET account == AccountJunction(type, hex)
         IN  hex = IF Has(account, "AccountKey20") THEN account.AccountKey20.key
                   ELSE IF Has(account, "AccountId32") THEN account.AccountId32.id ELSE <<>>
BY DEF AccountJunction, Has

LEMMA HoldsByKind ==
  ASSUME NEW k, NEW type, NEW x, NEW y
  PROVE  Holds(k, AccountJunction(type, x)) <=> Holds(k, AccountJunction(type, y))
BY DEF Holds, AccountJunction, Has

Accepts(r) == Holds(r.destination, AccountJunction(RecipientType(r), r.recipient.hex))

\* transferMultiasset makes an account the destination has.
LEMMA FittingAccount ==
  ASSUME NEW r, Fits(r), r.function = "transferMultiasset"
  PROVE  Accepts(r)
<1>1. r.destination \in Chains /\ r.function \notin CrossChain
  BY DEF Fits, CrossChain
<1>2. RecipientType(r) = IF IsEthereum(r.destination) THEN "AccountKey20" ELSE "AccountId32"
  BY <1>1 DEF RecipientType
<1>. QED  BY <1>1, <1>2, Rows DEF Accepts, Holds, AccountJunction, Has, IsEthereum

\* What comes of a message.
LEMMA Delivered ==
  ASSUME Base, Named, NEW t \in Transfers, Deliver(t)
  PROVE  LET r == request[t]
         IN  /\ pc[t] = "moving" /\ UNCHANGED <<paraId, request, call>>
             /\ \/ /\ pc' = [pc EXCEPT ![t] = "received"]
                   /\ funds' = [funds EXCEPT ![Recipient(r)] = @ + r.amount]
                \/ /\ r.asset \notin Registered(r.destination) \/ ~Accepts(r)
                   /\ pc' = [pc EXCEPT ![t] = "trapped"] /\ UNCHANGED funds
<1>. DEFINE r == request[t]
            b == call[t].beneficiary
            account == b.interior[2]
            hex == IF Has(account, "AccountKey20") THEN account.AccountKey20.key
                   ELSE IF Has(account, "AccountId32") THEN account.AccountId32.id ELSE <<>>
<1>1. pc[t] = "moving" /\ UNCHANGED <<paraId, request, call>>
  BY DEF Deliver
<1>2. Fits(r) /\ Names(r, call[t])
  BY <1>1, Requested DEF Named
<1>3. PICK k \in Chains :
        /\ Leads(r.source, b, k)
        /\ IF r.asset \in Registered(k) /\ Holds(k, account)
             THEN /\ pc' = [pc EXCEPT ![t] = "received"]
                  /\ funds' = [funds EXCEPT ![<<k, hex, r.asset>>] = @ + r.amount]
             ELSE pc' = [pc EXCEPT ![t] = "trapped"] /\ UNCHANGED funds
  BY DEF Deliver
<1>4. Towards(r, b) /\ account = AccountJunction(RecipientType(r), r.recipient.hex)
  BY <1>2 DEF Names
<1>5. k = r.destination
  BY <1>2, <1>3, <1>4, LeadsThere
<1>6. hex = r.recipient.hex
  BY <1>4, JunctionHex
<1>. HIDE DEF hex
<1>7. Holds(k, account) <=> Accepts(r)
  BY <1>4, <1>5 DEF Accepts
<1>8. <<k, hex, r.asset>> = Recipient(r)
  BY <1>5, <1>6 DEF Recipient
<1>. HIDE DEF r, account
<1>9. \/ /\ pc' = [pc EXCEPT ![t] = "received"]
         /\ funds' = [funds EXCEPT ![Recipient(r)] = @ + r.amount]
      \/ /\ r.asset \notin Registered(r.destination) \/ ~Accepts(r)
         /\ pc' = [pc EXCEPT ![t] = "trapped"] /\ UNCHANGED funds
  BY <1>3, <1>5, <1>7, <1>8
<1>. QED  BY <1>1, <1>9 DEF r

LEMMA InitIInv == Init => IInv
<1>. SUFFICES ASSUME Init PROVE IInv
  OBVIOUS
<1>1. Base
  <2>1. DOMAIN request = Transfers
    BY WorkloadAssumption DEF Init
  <2>. QED  BY <2>1, PurseAssumption DEF Init, Base, TypeOK, Completed, Outcomes
<1>2. \A t \in Transfers : pc[t] = "asked"
  BY DEF Init
<1>3. Named /\ TrappedOnlyByCaller /\ RefusedOnlyForFunds
  BY <1>2 DEF Named, TrappedOnlyByCaller, RefusedOnlyForFunds
<1>4. Spent
  <2>1. \A h \in DOMAIN Purse : funds[h] = Purse[h] /\ Purse[h] \in Nat
    BY PurseAssumption DEF Init
  <2>. QED  BY <2>1 DEF Spent
<1>. QED  BY <1>1, <1>2, <1>3, <1>4 DEF IInv

\* What was built stays, and so does what was asked for.
LEMMA NamedKept ==
  ASSUME Base, Named, NEW t \in Transfers, NEW state, pc[t] \notin {"asked", "threw"},
         pc' = [pc EXCEPT ![t] = state], UNCHANGED <<request, call>>
  PROVE  Named'
<1>. SUFFICES ASSUME NEW u \in Transfers, pc'[u] \notin {"asked", "threw"}
              PROVE  Names(request[u], call[u])
  BY DEF Named
<1>1. pc[u] \notin {"asked", "threw"}
  BY DEF Base, TypeOK
<1>. QED  BY <1>1 DEF Named

LEMMA NamesTypes ==
  ASSUME Named, NEW t \in Transfers, pc[t] \notin {"asked", "threw"}
  PROVE  call[t].asset.parents \in 0 .. 1 /\ call[t].beneficiary.parents = 1
BY DEF Named, Names

LEMMA BuildBase ==
  ASSUME Base, Named, NEW t \in Transfers, Build(t)
  PROVE  Base' /\ Named'
<1>. DEFINE r == request[t]
            c == [asset |-> Passed(r, AssetLocation(r)), beneficiary |-> Passed(r, Beneficiary(r))]
<1>1. /\ pc[t] = "asked" /\ UNCHANGED <<paraId, request, funds>>
      /\ IF Throws(r)
           THEN pc' = [pc EXCEPT ![t] = "threw"] /\ UNCHANGED call
           ELSE pc' = [pc EXCEPT ![t] = "built"] /\ call' = [call EXCEPT ![t] = c]
  BY DEF Build
<1>2. Fits(r)
  BY Requested
<1>3. ASSUME ~Throws(r) PROVE Names(r, c)
  <2>1. c.asset = Passed(r, AssetLocation(r)) /\ c.beneficiary = Passed(r, Beneficiary(r))
    OBVIOUS
  <2>2. paraId[r.destination] \in {Unset, ParachainId(r.destination)}
    BY <1>2 DEF Base, Completed, Fits
  <2>. HIDE DEF c
  <2>3. /\ c.beneficiary.parents = 1
        /\ c.beneficiary.interior[1] = [Parachain |-> paraId[r.destination]]
        /\ c.beneficiary.interior[2] = AccountJunction(RecipientType(r), r.recipient.hex)
        /\ r.function \in CrossChain => paraId[r.destination] # Unset
    BY <1>2, <1>3, <2>1, <2>2, BeneficiaryNamed
  <2>4. Towards(r, c.beneficiary)
    BY <1>2, <2>2, <2>3 DEF Towards, Fits
  <2>5. c.asset.parents \in 0 .. 1
    BY <1>2, <2>1, AssetParents DEF Fits
  <2>6. r.asset \in Registered(r.source) => Denotes(r.source, c.asset, r.asset)
    BY <1>2, <2>1, AssetDenoted
  <2>. QED  BY <2>3, <2>4, <2>5, <2>6 DEF Names
<1>. HIDE DEF c
<1>4. /\ \A u \in Transfers : u # t => pc'[u] = pc[u] /\ call'[u] = call[u]
      /\ pc'[t] \in {"threw", "built"} /\ (pc'[t] = "built" => ~Throws(r) /\ call'[t] = c)
      /\ DOMAIN call' = Transfers
      /\ pc' \in [Transfers -> {"asked", "built", "moving"} \cup Outcomes]
  <2>1. pc \in [Transfers -> {"asked", "built", "moving"} \cup Outcomes] /\ DOMAIN call = Transfers
    BY DEF Base, TypeOK
  <2>. HIDE DEF r
  <2>. QED  BY <1>1, <2>1 DEF Outcomes
<1>5. Named'
  <2>. SUFFICES ASSUME NEW u \in Transfers, pc'[u] \notin {"asked", "threw"}
                PROVE  Names(request[u], call'[u])
    BY <1>1 DEF Named
  <2>1. CASE u = t
    BY <1>3, <1>4, <2>1
  <2>2. CASE u # t
    BY <1>4, <2>2 DEF Named
  <2>. QED  BY <2>1, <2>2
<1>6. TypeOK'
  <2>1. \A u \in Transfers : pc'[u] \notin {"asked", "threw"} =>
          call'[u].asset.parents \in 0 .. 1 /\ call'[u].beneficiary.parents = 1
    BY <1>5 DEF Named, Names
  <2>2. /\ paraId' \in [Chains -> Nat \cup {Unset}] /\ DOMAIN request' = Transfers
        /\ funds' \in [DOMAIN Purse -> Nat]
    BY <1>1 DEF Base, TypeOK
  <2>. QED  BY <1>4, <2>1, <2>2 DEF TypeOK
<1>. QED  BY <1>1, <1>4, <1>5, <1>6 DEF Base, Completed

LEMMA DispatchBase ==
  ASSUME Base, Named, NEW t \in Transfers, Dispatch(t)
  PROVE  Base' /\ Named'
<1>. DEFINE r == request[t]
<1>1. /\ pc[t] = "built" /\ UNCHANGED <<paraId, request, call>>
      /\ \/ pc' = [pc EXCEPT ![t] = "refused"] /\ funds' = funds
         \/ /\ pc' = [pc EXCEPT ![t] = "moving"]
            /\ Denotes(r.source, call[t].asset, r.asset) /\ funds[Sender(r)] >= r.amount
            /\ funds' = [funds EXCEPT ![Sender(r)] = @ - r.amount]
  BY DEF Dispatch
<1>2. Fits(r)
  BY Requested
<1>. HIDE DEF r
<1>3. Named'
  BY <1>1, NamedKept
<1>4. funds' \in [DOMAIN Purse -> Nat]
  <2>1. funds \in [DOMAIN Purse -> Nat]
    BY DEF Base, TypeOK
  <2>2. CASE /\ Denotes(r.source, call[t].asset, r.asset) /\ funds[Sender(r)] >= r.amount
             /\ funds' = [funds EXCEPT ![Sender(r)] = @ - r.amount]
    <3>1. Sender(r) \in DOMAIN Purse /\ r.amount \in Nat
      BY <1>2, <2>2 DEF Fits, Denotes, Registered
    <3>2. funds[Sender(r)] - r.amount \in Nat
      BY <2>1, <2>2, <3>1
    <3>. QED  BY <2>1, <2>2, <3>1, <3>2
  <2>. QED  BY <1>1, <2>1, <2>2
<1>5. TypeOK'
  <2>1. \A u \in Transfers : pc'[u] \notin {"asked", "threw"} =>
          call'[u].asset.parents \in 0 .. 1 /\ call'[u].beneficiary.parents = 1
    BY <1>3 DEF Named, Names
  <2>2. /\ paraId' \in [Chains -> Nat \cup {Unset}] /\ DOMAIN request' = Transfers
        /\ pc' \in [Transfers -> {"asked", "built", "moving"} \cup Outcomes]
    BY <1>1 DEF Base, TypeOK, Outcomes
  <2>. QED  BY <1>4, <2>1, <2>2 DEF TypeOK
<1>. QED  BY <1>1, <1>3, <1>5 DEF Base, Completed

LEMMA DeliverBase ==
  ASSUME Base, Named, NEW t \in Transfers, Deliver(t)
  PROVE  Base' /\ Named'
<1>. DEFINE r == request[t]
<1>1. /\ pc[t] = "moving" /\ UNCHANGED <<paraId, request, call>>
      /\ pc' = [pc EXCEPT ![t] = "received"] \/ pc' = [pc EXCEPT ![t] = "trapped"]
      /\ funds' = [funds EXCEPT ![Recipient(r)] = @ + r.amount] \/ funds' = funds
  BY Delivered
<1>2. r.amount \in Nat
  BY Requested DEF Fits
<1>. HIDE DEF r
<1>3. Named'
  BY <1>1, NamedKept
<1>4. funds' \in [DOMAIN Purse -> Nat]
  <2>1. funds \in [DOMAIN Purse -> Nat]
    BY DEF Base, TypeOK
  <2>2. CASE funds' = [funds EXCEPT ![Recipient(r)] = @ + r.amount]
    <3>1. CASE Recipient(r) \in DOMAIN Purse
      <4>1. funds[Recipient(r)] + r.amount \in Nat
        BY <1>2, <2>1, <3>1
      <4>. QED  BY <2>1, <2>2, <4>1
    <3>2. CASE Recipient(r) \notin DOMAIN Purse
      BY <2>1, <2>2, <3>2
    <3>. QED  BY <3>1, <3>2
  <2>. QED  BY <1>1, <2>1, <2>2
<1>5. TypeOK'
  <2>1. \A u \in Transfers : pc'[u] \notin {"asked", "threw"} =>
          call'[u].asset.parents \in 0 .. 1 /\ call'[u].beneficiary.parents = 1
    BY <1>3 DEF Named, Names
  <2>2. /\ paraId' \in [Chains -> Nat \cup {Unset}] /\ DOMAIN request' = Transfers
        /\ pc' \in [Transfers -> {"asked", "built", "moving"} \cup Outcomes]
    BY <1>1 DEF Base, TypeOK, Outcomes
  <2>. QED  BY <1>4, <2>1, <2>2 DEF TypeOK
<1>. QED  BY <1>1, <1>3, <1>5 DEF Base, Completed

LEMMA InitializeBase ==
  ASSUME Base, Named, NEW k \in Chains, Initialize(k)
  PROVE  Base' /\ Named'
<1>1. paraId' = [paraId EXCEPT ![k] = ParachainId(k)] /\ UNCHANGED <<request, pc, call, funds>>
  BY DEF Initialize
<1>2. ParachainId(k) \in Nat
  BY IdIsNumber
<1>3. paraId' \in [Chains -> Nat \cup {Unset}]
  BY <1>1, <1>2 DEF Base, TypeOK
<1>4. Completed'
  BY <1>1 DEF Base, Completed, TypeOK
<1>. QED  BY <1>1, <1>3, <1>4 DEF Base, TypeOK, Named
-----------------------------------------------------------------------------
(***************************************************************************)
(* Who takes the funds, and why a transfer is refused.                     *)
(***************************************************************************)
\* A transfer that left has left for good.
LEMMA DepartedStay ==
  ASSUME Base, Named, Next, NEW u \in Transfers, pc[u] \in Departed
  PROVE  pc'[u] \in Departed /\ request' = request
<1>. USE DEF Base, TypeOK, Departed
<1>1. ASSUME NEW t \in Transfers, Build(t) PROVE pc'[u] \in Departed /\ request' = request
  BY <1>1 DEF Build
<1>2. ASSUME NEW t \in Transfers, Dispatch(t) PROVE pc'[u] \in Departed /\ request' = request
  BY <1>2 DEF Dispatch
<1>3. ASSUME NEW t \in Transfers, Deliver(t) PROVE pc'[u] \in Departed /\ request' = request
  <2>1. /\ UNCHANGED request
        /\ pc' = [pc EXCEPT ![t] = "received"] \/ pc' = [pc EXCEPT ![t] = "trapped"]
    BY <1>3, Delivered
  <2>. QED  BY <2>1
<1>4. ASSUME NEW k \in Chains, Initialize(k) PROVE pc'[u] \in Departed /\ request' = request
  BY <1>4 DEF Initialize
<1>. QED  BY <1>1, <1>2, <1>3, <1>4 DEF Next, Step

LEMMA SpentKept == ASSUME IInv, Next PROVE Spent'
<1>. SUFFICES ASSUME NEW h \in DOMAIN Purse, funds'[h] < Purse[h]
              PROVE  \E u \in Transfers : Sender(request'[u]) = h /\ pc'[u] \in Departed
  BY DEF Spent
<1>1. Purse[h] \in Nat /\ funds \in [DOMAIN Purse -> Nat]
  BY PurseAssumption DEF IInv, Base, TypeOK
<1>2. CASE funds[h] < Purse[h]
  <2>1. PICK u \in Transfers : Sender(request[u]) = h /\ pc[u] \in Departed
    BY <1>2 DEF IInv, Spent
  <2>2. pc'[u] \in Departed /\ request' = request
    BY <2>1, DepartedStay DEF IInv
  <2>. QED  BY <2>1, <2>2
<1>3. CASE ~(funds[h] < Purse[h])
  <2>1. funds' # funds
    BY <1>3
  <2>2. ASSUME NEW t \in Transfers, Dispatch(t)
        PROVE  Sender(request'[t]) = h /\ pc'[t] \in Departed
    <3>. DEFINE r == request[t]
    <3>1. /\ request' = request /\ pc' = [pc EXCEPT ![t] = "moving"]
          /\ funds' = [funds EXCEPT ![Sender(r)] = @ - r.amount]
      BY <2>1, <2>2 DEF Dispatch
    <3>. HIDE DEF r
    <3>2. Sender(r) = h
      BY <1>1, <1>3, <3>1
    <3>3. pc'[t] \in Departed
      BY <3>1 DEF IInv, Base, TypeOK, Departed
    <3>. QED  BY <3>1, <3>2, <3>3 DEF r
  <2>3. ASSUME NEW t \in Transfers, Deliver(t) PROVE FALSE
    <3>. DEFINE r == request[t]
    <3>1. funds' = [funds EXCEPT ![Recipient(r)] = @ + r.amount]
      BY <2>1, <2>3, Delivered DEF IInv
    <3>2. r.amount \in Nat
      BY Requested DEF IInv, Fits
    <3>. HIDE DEF r
    <3>3. funds'[h] = funds[h] \/ funds'[h] = funds[h] + r.amount
      BY <1>1, <3>1
    <3>4. funds[h] \in Nat
      BY <1>1
    <3>. QED  BY <1>1, <1>3, <3>2, <3>3, <3>4
  <2>. QED  BY <2>1, <2>2, <2>3 DEF Next, Step, Build, Initialize
<1>. QED  BY <1>2, <1>3

LEMMA TrappedKept == ASSUME IInv, Next PROVE TrappedOnlyByCaller'
<1>. SUFFICES ASSUME NEW t \in Transfers, pc'[t] = "trapped"
              PROVE  LET r == request'[t]
                     IN  \/ r.asset \notin Listed(r.destination)
                         \/ r.asset = Mgx /\ r.destination = "turing"
                         \/ /\ r.function \in CrossChain
                            /\ ~Holds(r.destination, AccountJunction(AccountTypeOf(r.recipient), <<>>))
  BY DEF TrappedOnlyByCaller
<1>. DEFINE r == request[t]
            By == \/ r.asset \notin Listed(r.destination)
                  \/ r.asset = Mgx /\ r.destination = "turing"
                  \/ /\ r.function \in CrossChain
                     /\ ~Holds(r.destination, AccountJunction(AccountTypeOf(r.recipient), <<>>))
<1>0. pc \in [Transfers -> {"asked", "built", "moving"} \cup Outcomes]
  BY DEF IInv, Base, TypeOK
<1>1. request' = request
  BY DEF Next, Step, Build, Dispatch, Deliver, Initialize
<1>2. CASE pc[t] = "trapped"
  <2>1. By
    BY <1>2 DEF IInv, TrappedOnlyByCaller
  <2>. QED  BY <1>1, <2>1
<1>3. CASE pc[t] # "trapped"
  <2>1. PICK u \in Transfers : Deliver(u)
    BY <1>0, <1>3 DEF Next, Step, Build, Dispatch, Initialize
  <2>2. u = t
    BY <1>0, <1>3, <2>1 DEF Deliver
  <2>3. /\ pc' = [pc EXCEPT ![t] = "received"]
        \/ r.asset \notin Registered(r.destination) \/ ~Accepts(r)
    BY <2>1, <2>2, Delivered DEF IInv
  <2>4. Fits(r)
    BY Requested DEF IInv
  <2>. HIDE DEF r
  <2>5. r.asset \notin Registered(r.destination) \/ ~Accepts(r)
    BY <1>0, <2>3
  <2>6. CASE ~Accepts(r)
    <3>1. r.function \in CrossChain
      BY <2>4, <2>6, FittingAccount DEF Fits
    <3>2. ~Holds(r.destination, AccountJunction(AccountTypeOf(r.recipient), r.recipient.hex))
      BY <2>6, <3>1 DEF Accepts, RecipientType
    <3>. QED  BY <1>1, <3>1, <3>2, HoldsByKind DEF r
  <2>7. CASE r.asset \notin Registered(r.destination)
    BY <1>1, <2>7, RegisteredIs DEF r
  <2>. QED  BY <2>5, <2>6, <2>7
<1>. QED  BY <1>2, <1>3

Excused(t) ==
  LET r == request[t]
  IN  \/ r.asset \notin Listed(r.source)
      \/ r.asset = Mgx /\ r.source = "turing"
      \/ Purse[Sender(r)] < r.amount
      \/ \E u \in Transfers \ {t} : Sender(request[u]) = Sender(r) /\ pc[u] \in Departed
      \/ /\ r.function = "transferMultiasset"
         /\ call[t].beneficiary.interior[1] = [Parachain |-> Unset]

LEMMA RefusedIs ==
  RefusedOnlyForFunds <=> \A t \in Transfers : pc[t] = "refused" => Excused(t)
BY DEF RefusedOnlyForFunds, Excused, Departed

\* A transfer that is refused is refused for what its caller chose, or for
\* want of the funds another one took.
LEMMA RefusedNow ==
  ASSUME IInv, NEW t \in Transfers, Dispatch(t), pc' = [pc EXCEPT ![t] = "refused"]
  PROVE  Excused(t)
<1>. DEFINE r == request[t]
            b == call[t].beneficiary
<1>1. /\ pc[t] = "built"
      /\ ~(/\ Denotes(r.source, call[t].asset, r.asset)
           /\ \E k \in Chains \ {r.source} : Leads(r.source, b, k)
           /\ funds[Sender(r)] >= r.amount)
  <2>1. pc[t] = "built" /\ pc'[t] = "refused"
    BY DEF Dispatch, IInv, Base, TypeOK
  <2>. QED  BY <2>1 DEF Dispatch, IInv, Base, TypeOK
<1>2. Fits(r) /\ Names(r, call[t])
  BY <1>1, Requested DEF IInv, Named
<1>. HIDE DEF r
<1>. SUFFICES ASSUME r.asset \in Registered(r.source), ~(Purse[Sender(r)] < r.amount),
                     b.interior[1] = [Parachain |-> ParachainId(r.destination)]
              PROVE  \E u \in Transfers \ {t} : Sender(request[u]) = Sender(r) /\ pc[u] \in Departed
  BY <1>2, RegisteredIs DEF Excused, Names, Towards, r
<1>3. Denotes(r.source, call[t].asset, r.asset) /\ b.parents = 1
  BY <1>2 DEF Names
<1>4. \E k \in Chains \ {r.source} : Leads(r.source, b, k)
  BY <1>2, <1>3, LeadsToDestination
<1>5. Sender(r) \in DOMAIN Purse /\ r.amount \in Nat
  BY <1>2 DEF Fits, Registered
<1>6. ~(funds[Sender(r)] >= r.amount)
  BY <1>1, <1>3, <1>4
<1>7. Purse[Sender(r)] \in Nat /\ funds[Sender(r)] \in Nat
  BY <1>5, PurseAssumption DEF IInv, Base, TypeOK
<1>8. funds[Sender(r)] < Purse[Sender(r)]
  BY <1>5, <1>6, <1>7
<1>9. PICK u \in Transfers : Sender(request[u]) = Sender(r) /\ pc[u] \in Departed
  BY <1>5, <1>8 DEF IInv, Spent
<1>10. u # t
  BY <1>1, <1>9 DEF Departed
<1>. QED  BY <1>9, <1>10

LEMMA RefusedKept == ASSUME IInv, Next PROVE RefusedOnlyForFunds'
<1>. SUFFICES ASSUME NEW t \in Transfers, pc'[t] = "refused" PROVE Excused(t)'
  BY DEF RefusedOnlyForFunds, Excused, Departed
<1>0. pc \in [Transfers -> {"asked", "built", "moving"} \cup Outcomes]
  BY DEF IInv, Base, TypeOK
<1>1. pc[t] \notin {"asked", "moving"}
  <2>1. ASSUME NEW u \in Transfers, Build(u) PROVE pc[t] \notin {"asked", "moving"}
    BY <1>0, <2>1 DEF Build
  <2>2. ASSUME NEW u \in Transfers, Dispatch(u) PROVE pc[t] \notin {"asked", "moving"}
    BY <1>0, <2>2 DEF Dispatch
  <2>3. ASSUME NEW u \in Transfers, Deliver(u) PROVE pc[t] \notin {"asked", "moving"}
    <3>1. /\ pc[u] = "moving"
          /\ pc' = [pc EXCEPT ![u] = "received"] \/ pc' = [pc EXCEPT ![u] = "trapped"]
      BY <2>3, Delivered DEF IInv
    <3>. QED  BY <1>0, <3>1
  <2>4. ASSUME NEW k \in Chains, Initialize(k) PROVE pc[t] \notin {"asked", "moving"}
    BY <1>0, <2>4 DEF Initialize
  <2>. QED  BY <2>1, <2>2, <2>3, <2>4 DEF Next, Step
<1>2. request' = request /\ call'[t] = call[t]
  <2>1. ASSUME NEW u \in Transfers, Build(u) PROVE request' = request /\ call'[t] = call[t]
    <3>1. pc[u] = "asked" /\ request' = request
      BY <2>1 DEF Build
    <3>2. u # t
      BY <1>1, <3>1
    <3>3. call' = call \/ \E c : call' = [call EXCEPT ![u] = c]
      BY <2>1, Zenon DEF Build
    <3>. QED  BY <3>1, <3>2, <3>3 DEF IInv, Base
  <2>2. ASSUME NEW u \in Transfers, Dispatch(u) \/ Deliver(u) PROVE request' = request /\ call' = call
    BY <2>2 DEF Dispatch, Deliver
  <2>3. ASSUME NEW k \in Chains, Initialize(k) PROVE request' = request /\ call' = call
    BY <2>3 DEF Initialize
  <2>. QED  BY <2>1, <2>2, <2>3 DEF Next, Step
<1>3. Excused(t)
  <2>1. CASE pc[t] = "refused"
    BY <2>1, RefusedIs DEF IInv
  <2>2. CASE pc[t] # "refused"
    <3>1. PICK u \in Transfers : Dispatch(u)
      <4>1. ASSUME NEW u \in Transfers, Build(u) PROVE FALSE
        BY <1>0, <2>2, <4>1 DEF Build
      <4>2. ASSUME NEW u \in Transfers, Deliver(u) PROVE FALSE
        <5>1. pc' = [pc EXCEPT ![u] = "received"] \/ pc' = [pc EXCEPT ![u] = "trapped"]
          BY <4>2, Delivered DEF IInv
        <5>. QED  BY <1>0, <2>2, <5>1
      <4>3. ASSUME NEW k \in Chains, Initialize(k) PROVE FALSE
        BY <2>2, <4>3 DEF Initialize
      <4>. QED  BY <4>1, <4>2, <4>3 DEF Next, Step
    <3>2. u = t /\ pc' = [pc EXCEPT ![t] = "refused"]
      BY <1>0, <2>2, <3>1 DEF Dispatch
    <3>. QED  BY <3>1, <3>2, RefusedNow
  <2>. QED  BY <2>1, <2>2
<1>. DEFINE r == request[t]
            Took(u) == Sender(request[u]) = Sender(r) /\ pc[u] \in Departed
<1>4. CASE \E u \in Transfers \ {t} : Took(u)
  <2>1. PICK u \in Transfers \ {t} : Took(u)
    BY <1>4
  <2>2. pc'[u] \in Departed
    BY <2>1, DepartedStay DEF IInv
  <2>. QED  BY <1>2, <2>1, <2>2 DEF Excused
<1>5. CASE ~\E u \in Transfers \ {t} : Took(u)
  <2>1. \/ r.asset \notin Listed(r.source)
        \/ r.asset = Mgx /\ r.source = "turing"
        \/ Purse[Sender(r)] < r.amount
        \/ /\ r.function = "transferMultiasset"
           /\ call[t].beneficiary.interior[1] = [Parachain |-> Unset]
    BY <1>3, <1>5 DEF Excused
  <2>. QED  BY <1>2, <2>1 DEF Excused
<1>. QED  BY <1>4, <1>5
-----------------------------------------------------------------------------
(***************************************************************************)
(* The theorems.                                                           *)
(***************************************************************************)
\* The invariant holds in every reachable state: what was built names the
\* asset and the account as the chains read them, and only transfers that
\* left have taken funds.
THEOREM Invariant == Spec => []IInv
<1>1. Init => IInv
  BY InitIInv
<1>2. IInv /\ [Next]_vars => IInv'
  <2>. SUFFICES ASSUME IInv, [Next]_vars PROVE IInv'
    OBVIOUS
  <2>1. CASE Next
    <3>1. Base' /\ Named'
      BY <2>1, BuildBase, DispatchBase, DeliverBase, InitializeBase DEF IInv, Next, Step
    <3>2. Spent' /\ TrappedOnlyByCaller' /\ RefusedOnlyForFunds'
      BY <2>1, SpentKept, TrappedKept, RefusedKept
    <3>. QED  BY <3>1, <3>2 DEF IInv
  <2>2. CASE UNCHANGED vars
    <3>1. /\ paraId' = paraId /\ request' = request /\ pc' = pc
          /\ call' = call /\ funds' = funds
      BY <2>2 DEF vars
    <3>2. Base' /\ Named' /\ Spent'
      BY <3>1 DEF IInv, Base, TypeOK, Completed, Named, Spent
    <3>3. TrappedOnlyByCaller' /\ RefusedOnlyForFunds'
      BY <3>1 DEF IInv, TrappedOnlyByCaller, RefusedOnlyForFunds
    <3>. QED  BY <3>2, <3>3 DEF IInv
  <2>. QED  BY <2>1, <2>2
<1>. QED  BY <1>1, <1>2, PTL DEF Spec

\* The parachain ids, the calls and the funds have the types the adapters
\* and the chains give them, no balance is negative, and no location that
\* was built points two levels up.
THEOREM TypeCorrect == Spec => []TypeOK
<1>1. IInv => TypeOK
  BY DEF IInv, Base
<1>. QED  BY <1>1, Invariant, PTL

\* crossChainTransfer, crossChainTransferWithEthSigner and
\* transferMultiasset lose no asset: one is trapped on the destination only
\* where the caller named a destination that does not list it, or an account
\* of a kind the destination does not have, or where MGX was sent to Turing,
\* whose table lists it before the chain has it.
THEOREM TrappedByCaller == Spec => []TrappedOnlyByCaller
<1>1. IInv => TrappedOnlyByCaller
  BY DEF IInv
<1>. QED  BY <1>1, Invariant, PTL

\* The source refuses a transfer of an asset its table lists, but for MGX on
\* Turing, only for want of funds, or when transferMultiasset was given a
\* config that has no id yet;
\* the locations the adapters build, the encoded ones included, are always
\* those the chains read.
THEOREM RefusedForFunds == Spec => []RefusedOnlyForFunds
<1>1. IInv => RefusedOnlyForFunds
  BY DEF IInv
<1>. QED  BY <1>1, Invariant, PTL

-----------------------------------------------------------------------------
(***************************************************************************)
(* The ledger.                                                             *)
(***************************************************************************)
StatusOf(state) ==
  CASE state \in {"asked", "built"}  -> "asked"
    [] state \in {"threw", "refused"} -> "refused"
    [] OTHER -> state

Status == [t \in Transfers |-> CASE pc[t] \in {"asked", "built"}  -> "asked"
                                 [] pc[t] \in {"threw", "refused"} -> "refused"
                                 [] OTHER -> pc[t]]

Order == [t \in Transfers |-> [from |-> Sender(request[t]), to |-> Recipient(request[t]),
                               amount |-> request[t].amount]]

LEMMA StatusChanges ==
  ASSUME Base, NEW t \in Transfers, NEW state, pc' = [pc EXCEPT ![t] = state]
  PROVE  Status' = [Status EXCEPT ![t] = StatusOf(state)] /\ Status[t] = StatusOf(pc[t])
<1>1. Status = [u \in Transfers |-> StatusOf(pc[u])] /\ Status' = [u \in Transfers |-> StatusOf(pc'[u])]
  BY DEF Status, StatusOf
<1>2. \A u \in Transfers : pc'[u] = IF u = t THEN state ELSE pc[u]
  BY DEF Base, TypeOK
<1>. QED  BY <1>1, <1>2

LEMMA StatusStays ==
  ASSUME Base, NEW t \in Transfers, NEW state, pc' = [pc EXCEPT ![t] = state],
         StatusOf(state) = StatusOf(pc[t])
  PROVE  Status' = Status
<1>1. Status' = [Status EXCEPT ![t] = StatusOf(state)] /\ Status[t] = StatusOf(pc[t])
  BY StatusChanges
<1>. QED  BY <1>1 DEF Status

LEMMA OrderStays == ASSUME request' = request PROVE Order' = Order
BY DEF Order

\* What the ledger does in a step of a transfer.
Posted(t) ==
  \/ /\ Status[t] = "asked" /\ Status' = [Status EXCEPT ![t] = "refused"]
     /\ funds' = funds /\ Order' = Order
  \/ /\ Status[t] = "asked" /\ Status' = [Status EXCEPT ![t] = "moving"]
     /\ funds[Order[t].from] >= Order[t].amount
     /\ funds' = [funds EXCEPT ![Order[t].from] = @ - Order[t].amount]
     /\ Order' = Order
  \/ /\ Status[t] = "moving" /\ Status' = [Status EXCEPT ![t] = "received"]
     /\ funds' = [funds EXCEPT ![Order[t].to] = @ + Order[t].amount]
     /\ Order' = Order
  \/ /\ Status[t] = "moving" /\ Status' = [Status EXCEPT ![t] = "trapped"]
     /\ funds' = funds /\ Order' = Order

Same == Status' = Status /\ funds' = funds /\ Order' = Order

LEMMA PostedIsNext == ASSUME NEW t \in Transfers, Posted(t) PROVE Ledger!Next
BY DEF Posted, Status, Order, Ledger!Next, Ledger!Refuse, Ledger!Depart, Ledger!Arrive,
       Ledger!Trap, Ledger!Change

LEMMA BuildPosts == ASSUME IInv, NEW t \in Transfers, Build(t) PROVE Posted(t) \/ Same
<1>1. pc[t] = "asked" /\ request' = request /\ funds' = funds
  BY DEF Build
<1>2. pc' = [pc EXCEPT ![t] = "threw"] \/ pc' = [pc EXCEPT ![t] = "built"]
  BY DEF Build
<1>3. Order' = Order
  BY <1>1, OrderStays
<1>4. CASE pc' = [pc EXCEPT ![t] = "threw"]
  BY <1>1, <1>3, <1>4, StatusChanges DEF IInv, Posted, StatusOf
<1>5. CASE pc' = [pc EXCEPT ![t] = "built"]
  BY <1>1, <1>3, <1>5, StatusStays DEF IInv, Same, StatusOf
<1>. QED  BY <1>2, <1>4, <1>5

LEMMA DispatchPosts == ASSUME IInv, NEW t \in Transfers, Dispatch(t) PROVE Posted(t)
<1>. DEFINE r == request[t]
<1>1. /\ pc[t] = "built" /\ request' = request
      /\ \/ pc' = [pc EXCEPT ![t] = "refused"] /\ funds' = funds
         \/ /\ pc' = [pc EXCEPT ![t] = "moving"] /\ funds[Sender(r)] >= r.amount
            /\ funds' = [funds EXCEPT ![Sender(r)] = @ - r.amount]
  BY DEF Dispatch
<1>2. Order' = Order /\ Order[t].from = Sender(r) /\ Order[t].amount = r.amount
  BY <1>1, OrderStays DEF Order
<1>. HIDE DEF r
<1>3. CASE pc' = [pc EXCEPT ![t] = "refused"] /\ funds' = funds
  BY <1>1, <1>2, <1>3, StatusChanges DEF IInv, Posted, StatusOf
<1>4. CASE /\ pc' = [pc EXCEPT ![t] = "moving"] /\ funds[Sender(r)] >= r.amount
           /\ funds' = [funds EXCEPT ![Sender(r)] = @ - r.amount]
  <2>1. Status[t] = "asked" /\ Status' = [Status EXCEPT ![t] = "moving"]
    BY <1>1, <1>4, StatusChanges DEF IInv, StatusOf
  <2>. QED  BY <1>2, <1>4, <2>1 DEF Posted
<1>. QED  BY <1>1, <1>3, <1>4

LEMMA DeliverPosts == ASSUME IInv, NEW t \in Transfers, Deliver(t) PROVE Posted(t)
<1>. DEFINE r == request[t]
<1>1. /\ pc[t] = "moving" /\ request' = request
      /\ \/ /\ pc' = [pc EXCEPT ![t] = "received"]
            /\ funds' = [funds EXCEPT ![Recipient(r)] = @ + r.amount]
         \/ pc' = [pc EXCEPT ![t] = "trapped"] /\ funds' = funds
  BY Delivered DEF IInv
<1>2. Order' = Order /\ Order[t].to = Recipient(r) /\ Order[t].amount = r.amount
  BY <1>1, OrderStays DEF Order
<1>. HIDE DEF r
<1>3. CASE pc' = [pc EXCEPT ![t] = "trapped"] /\ funds' = funds
  BY <1>1, <1>2, <1>3, StatusChanges DEF IInv, Posted, StatusOf
<1>4. CASE /\ pc' = [pc EXCEPT ![t] = "received"]
           /\ funds' = [funds EXCEPT ![Recipient(r)] = @ + r.amount]
  <2>1. Status[t] = "moving" /\ Status' = [Status EXCEPT ![t] = "received"]
    BY <1>1, <1>4, StatusChanges DEF IInv, StatusOf
  <2>. QED  BY <1>2, <1>4, <2>1 DEF Posted
<1>. QED  BY <1>1, <1>3, <1>4

\* Whichever function, adapters and kind of signer a transfer uses, it takes
\* the amount from the sender once and gives the same amount of the same
\* asset to the recipient that was named, or changes nothing, or the asset
\* is trapped: the transfers of the adapters implement TransferLedger.
THEOREM Implements == Spec => ImplementsLedger
<1>1. Init => Ledger!Init
  <2>. SUFFICES ASSUME Init PROVE Ledger!Init
    OBVIOUS
  <2>1. pc = [t \in Transfers |-> "asked"] /\ \A t \in Transfers : request[t].amount \in Nat
    BY RequestAssumption DEF Init
  <2>. QED  BY <2>1 DEF Ledger!Init
<1>2. IInv /\ [Next]_vars => [Ledger!Next]_(Ledger!vars)
  <2>. SUFFICES ASSUME IInv, [Next]_vars PROVE Ledger!Next \/ Same
    BY DEF Same, Status, Order, Ledger!vars
  <2>1. CASE Next
    <3>1. ASSUME NEW t \in Transfers, Step(t) PROVE Posted(t) \/ Same
      BY <3>1, BuildPosts, DispatchPosts, DeliverPosts DEF Step
    <3>2. ASSUME NEW k \in Chains, Initialize(k) PROVE Same
      BY <3>2, OrderStays DEF Initialize, Same, Status
    <3>. QED  BY <2>1, <3>1, <3>2, PostedIsNext DEF Next
  <2>2. CASE UNCHANGED vars
    BY <2>2, OrderStays DEF vars, Same, Status
  <2>. QED  BY <2>1, <2>2
<1>. QED  BY <1>1, <1>2, Invariant, PTL DEF Spec, ImplementsLedger, Ledger!Spec
=============================================================================
