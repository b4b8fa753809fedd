--------------------------- MODULE Entries_proofs ---------------------------
(***************************************************************************)
(* Proofs about the reading of a configuration, for any width of address   *)
(* and any port limit: an entry parses to exactly the targets it names.    *)
(***************************************************************************)
EXTENDS Entries, FiniteSetTheorems, SequenceTheorems, TLAPS

(* The library's induction theorem takes an operator; these take a set. *)
LEMMA Least ==
    ASSUME NEW S, S \subseteq Nat, S # {}
    PROVE  \E m \in S : \A k \in S : m <= k
<1> DEFINE R == {ss \in Nat \X Nat : ss[1] < ss[2]}
<1>1. IsWellFoundedOn(R, Nat)
    BY NatLessThanWellFounded DEF OpToRel
<1>2. PICK m \in S : \A k \in S : ~(<<k, m>> \in R)
    <2> HIDE DEF R
    <2> QED
        BY <1>1, WFMin
<1>3. ASSUME NEW k \in S PROVE m <= k
    <2>1. m \in Nat /\ k \in Nat /\ ~(<<k, m>> \in R)
        BY <1>2
    <2> QED
        BY <2>1
<1> QED
    BY <1>3

LEMMA SetInduction ==
    ASSUME NEW S, 0 \in S, \A n \in Nat : n \in S => n + 1 \in S
    PROVE  \A n \in Nat : n \in S
<1> DEFINE T == Nat \ S
<1>1. ASSUME T # {} PROVE FALSE
    <2>1. PICK m \in T : \A k \in T : m <= k
        <3> HIDE DEF T
        <3>1. T \subseteq Nat
            BY DEF T
        <3> QED
            BY <1>1, <3>1, Least
    <2>2. m \in Nat \ {0} /\ m - 1 \in Nat /\ m - 1 \notin T
        BY <2>1
    <2> QED
        BY <2>2
<1> QED
    BY <1>1

LEMMA PowerPositive ==
    ASSUME NEW n \in Nat
    PROVE  2 ^ n \in Nat \ {0}
<1>1. IsFiniteSet(1..n) /\ Cardinality(1..n) = n
    BY FS_Interval
<1>2. IsFiniteSet(SUBSET (1..n)) /\ Cardinality(SUBSET (1..n)) = 2 ^ n
    BY <1>1, FS_SUBSET
<1>3. SUBSET (1..n) # {}
    OBVIOUS
<1> QED
    BY <1>2, <1>3, FS_CardinalityType, FS_EmptySet
-----------------------------------------------------------------------------
(* strings.Cut cuts at the first separator. *)
LEMMA CutFirst ==
    ASSUME NEW text \in Text, NEW sep, Has(text, sep)
    PROVE  /\ Cut(text, sep) \in 1..Len(text) /\ text[Cut(text, sep)].sep = sep
           /\ \A j \in 1..(Cut(text, sep) - 1) : text[j].sep # sep
<1> DEFINE S == {i \in 1..Len(text) : text[i].sep = sep}
<1>1. S \subseteq Nat /\ S # {} /\ DOMAIN text = 1..Len(text)
    BY DEF Has, Text
<1>2. PICK m \in S : \A k \in S : m <= k
    <2> HIDE DEF S
    <2> QED
        BY <1>1, Least
<1>3. \E i \in DOMAIN text : text[i].sep = sep /\ \A j \in 1..(i - 1) : text[j].sep # sep
    <2>1. ASSUME NEW j \in 1..(m - 1) PROVE text[j].sep # sep
        BY <1>2, <2>1 DEF Text
    <2> QED
        BY <1>1, <1>2, <2>1
<1> QED
    BY <1>1, <1>3 DEF Cut

(* The two parts of a text that is cut at a separator. *)
LEMMA CutSplits ==
    ASSUME NEW text \in Text, NEW sep
    PROVE  /\ Before(text, sep) \in Text /\ After(text, sep) \in Text
           /\ text = Before(text, sep) \o After(text, sep)
           /\ ~Has(Before(text, sep), sep)
           /\ Has(text, sep) <=> After(text, sep) # <<>>
           /\ After(text, sep) # <<>> => After(text, sep)[1].sep = sep
<1>1. CASE ~Has(text, sep)
    BY <1>1, ConcatEmptySeq DEF Before, After, Text
<1>2. CASE Has(text, sep)
    <2> DEFINE n == Cut(text, sep)
    <2>1. /\ n \in 1..Len(text) /\ text[n].sep = sep
          /\ \A j \in 1..(n - 1) : text[j].sep # sep
        BY <1>2, CutFirst
    <2>2. Before(text, sep) = SubSeq(text, 1, n - 1) /\ After(text, sep) = SubSeq(text, n, Len(text))
        BY <1>2 DEF Before, After
    <2> HIDE DEF n
    <2>3. Len(text) \in Nat /\ n \in Int /\ \A i \in 1..Len(text) : text[i] \in Field
        BY <2>1 DEF Text
    <2>4. /\ Before(text, sep) \in Seq(Field)
          /\ Len(Before(text, sep)) = n - 1
          /\ \A i \in 1..(n - 1) : Before(text, sep)[i] = text[i]
        BY <2>1, <2>2, <2>3, SubSeqProperties
    <2>5. /\ After(text, sep) \in Seq(Field)
          /\ Len(After(text, sep)) = Len(text) - n + 1
          /\ \A i \in 1..(Len(text) - n + 1) : After(text, sep)[i] = text[n + i - 1]
        BY <2>1, <2>2, <2>3, SubSeqProperties
    <2>6. text = Before(text, sep) \o After(text, sep)
        BY <2>1, <2>2, <2>3, ConcatAdjacentSubSeq, SubSeqFull DEF Text
    <2>7. ~Has(Before(text, sep), sep)
        BY <2>1, <2>4 DEF Has
    <2>8. After(text, sep) # <<>> /\ After(text, sep)[1].sep = sep
        BY <2>1, <2>3, <2>5
    <2> QED
        BY <1>2, <2>4, <2>5, <2>6, <2>7, <2>8 DEF Text
<1> QED
    BY <1>1, <1>2

(* A text without the separator, and one that begins with it or is empty, *)
(* are the two parts of their concatenation. *)
LEMMA CutConcat ==
    ASSUME NEW u \in Text, NEW v \in Text, NEW sep,
           ~Has(u, sep), v # <<>> => v[1].sep = sep
    PROVE  /\ Before(u \o v, sep) = u /\ After(u \o v, sep) = v
           /\ Has(u \o v, sep) <=> v # <<>>
<1> DEFINE w == u \o v
<1>1. /\ w \in Text /\ Len(w) = Len(u) + Len(v)
      /\ \A i \in 1..(Len(u) + Len(v)) : w[i] = IF i <= Len(u) THEN u[i] ELSE v[i - Len(u)]
    BY ConcatProperties DEF Text
<1>2. Len(u) \in Nat /\ Len(v) \in Nat /\ \A i \in 1..Len(u) : u[i].sep # sep
    BY DEF Text, Has
<1>3. CASE v = <<>>
    BY <1>2, <1>3, ConcatEmptySeq DEF Before, After, Text, Has
<1>4. CASE v # <<>>
    <2>1. Len(v) >= 1 /\ v[1].sep = sep
        BY <1>4 DEF Text
    <2>2. w[Len(u) + 1].sep = sep /\ \A i \in 1..Len(u) : w[i].sep # sep
        BY <1>1, <1>2, <2>1
    <2> HIDE DEF w
    <2>3. Has(w, sep)
        <3>1. Len(u) + 1 \in 1..Len(w) /\ DOMAIN w = 1..Len(w)
            BY <1>1, <1>2, <2>1 DEF Text
        <3> QED
            BY <2>2, <3>1 DEF Has
    <2>4. Cut(w, sep) = Len(u) + 1
        <3> DEFINE n == Cut(w, sep)
        <3>1. /\ n \in 1..Len(w) /\ w[n].sep = sep
              /\ \A j \in 1..(n - 1) : w[j].sep # sep
            BY <1>1, <2>3, CutFirst
        <3> HIDE DEF n
        <3>2. ~(n <= Len(u))
            BY <1>2, <2>2, <3>1
        <3>3. ~(n > Len(u) + 1)
            BY <1>2, <2>2, <3>1
        <3>4. n = Len(u) + 1
            BY <1>1, <1>2, <3>1, <3>2, <3>3
        <3> QED
            BY <3>4 DEF n
    <2>5. Before(w, sep) = SubSeq(w, 1, Len(u)) /\ After(w, sep) = SubSeq(w, Len(u) + 1, Len(w))
        BY <1>2, <2>3, <2>4 DEF Before, After
    <2>6. \A i \in 1..Len(w) : w[i] \in Field
        BY <1>1 DEF Text
    <2>7. SubSeq(w, 1, Len(u)) = u
        <3>1. /\ SubSeq(w, 1, Len(u)) \in Seq(Field) /\ Len(SubSeq(w, 1, Len(u))) = Len(u)
              /\ \A i \in 1..Len(u) : SubSeq(w, 1, Len(u))[i] = u[i]
            BY <1>1, <1>2, <2>6, SubSeqProperties
        <3> QED
            BY <3>1, SeqEqual DEF Text
    <2>8. SubSeq(w, Len(u) + 1, Len(w)) = v
        <3> DEFINE x == SubSeq(w, Len(u) + 1, Len(w))
        <3>1. /\ x \in Seq(Field) /\ Len(x) = Len(v)
              /\ \A i \in 1..Len(v) : x[i] = w[Len(u) + 1 + i - 1]
            BY <1>1, <1>2, <2>1, <2>6, SubSeqProperties
        <3>2. \A i \in 1..Len(v) : x[i] = v[i]
            BY <1>1, <1>2, <3>1
        <3> QED
            BY <3>1, <3>2, SeqEqual DEF Text
    <2> QED
        BY <1>4, <2>3, <2>5, <2>7, <2>8 DEF w
<1> QED
    BY <1>3, <1>4
-----------------------------------------------------------------------------
(* Addresses and blocks of them. *)
LEMMA BlockPositive ==
    ASSUME NEW bits \in 0..AddressBits
    PROVE  BlockSize(bits) \in Nat \ {0}
<1>1. AddressBits - bits \in Nat
    BY EntriesAssumption
<1> QED
    BY <1>1, PowerPositive DEF BlockSize

LEMMA AddressType == Address \subseteq Nat /\ 0 \in Address /\ \A a \in Address : 0..a \subseteq Address
<1>1. 2 ^ AddressBits \in Nat \ {0}
    BY EntriesAssumption, PowerPositive
<1> QED
    BY <1>1 DEF Address

(* The network address is the least of its block, and blocks do not overlap. *)
LEMMA MaskedBlock ==
    ASSUME NEW bits \in 0..AddressBits, NEW a \in Address
    PROVE  /\ Masked(a, bits) \in Address /\ Masked(a, bits) <= a
           /\ Masked(a, bits) = BlockSize(bits) * (a \div BlockSize(bits))
<1> DEFINE B == BlockSize(bits)
<1>1. B \in Nat \ {0} /\ a \in Nat
    BY BlockPositive, AddressType
<1> HIDE DEF B
<1>2. a % B \in 0..(B - 1) /\ a = B * (a \div B) + (a % B)
    BY <1>1
<1>3. a \div B \in Nat
    BY <1>1
<1>4. B * (a \div B) \in Nat
    BY <1>1, <1>3
<1>5. a - (a % B) = B * (a \div B) /\ a - (a % B) <= a
    BY <1>1, <1>2, <1>4
<1>6. Masked(a, bits) = a - (a % B)
    BY DEF Masked, B
<1>7. Masked(a, bits) \in 0..a
    BY <1>1, <1>4, <1>5, <1>6
<1> QED
    BY <1>5, <1>6, <1>7, AddressType DEF B

LEMMA SameMask ==
    ASSUME NEW bits \in 0..AddressBits, NEW a \in Address, NEW b \in Address
    PROVE  Masked(a, bits) = Masked(b, bits) <=> SameBlock(a, b, bits)
<1> DEFINE B == BlockSize(bits)
           x == a \div B
           y == b \div B
<1>1. B \in Nat \ {0} /\ a \in Nat /\ b \in Nat
    BY BlockPositive, AddressType
<1>2. x \in Nat /\ y \in Nat
    BY <1>1
<1>3. Masked(a, bits) = B * x /\ Masked(b, bits) = B * y
    BY MaskedBlock
<1>4. SameBlock(a, b, bits) <=> x = y
    BY DEF SameBlock, BlockSize
<1> HIDE DEF x, y, B
<1>5. B * x = B * y => x = y
    BY <1>1, <1>2
<1> QED
    BY <1>3, <1>4, <1>5

(* A block has no gap: what lies between two of its addresses is in it. *)
LEMMA BlockConvex ==
    ASSUME NEW bits \in 0..AddressBits, NEW a \in Address, NEW b \in Address, NEW c \in Address,
           a <= b, b <= c, Masked(a, bits) = Masked(c, bits)
    PROVE  Masked(b, bits) = Masked(a, bits)
<1> DEFINE B == BlockSize(bits)
           x == a \div B
           y == b \div B
           z == c \div B
<1>1. B \in Nat \ {0} /\ a \in Nat /\ b \in Nat /\ c \in Nat
    BY BlockPositive, AddressType
<1>2. x <= y /\ y <= z /\ x \in Nat /\ y \in Nat /\ z \in Nat
    BY <1>1
<1>3. Masked(a, bits) = B * x /\ Masked(b, bits) = B * y /\ Masked(c, bits) = B * z
    BY MaskedBlock
<1> HIDE DEF x, y, z, B
<1>4. B * x = B * z => x = z
    BY <1>1, <1>2
<1>5. B * x = B * z
    BY <1>3
<1>6. y = x
    BY <1>2, <1>4, <1>5
<1> QED
    BY <1>3, <1>6
-----------------------------------------------------------------------------
(* Texts of one field. *)
LEMMA OneField ==
    ASSUME NEW f \in Field
    PROVE  /\ << f >> \in Text /\ Len(<< f >>) = 1 /\ << f >>[1] = f /\ << f >> # <<>>
           /\ \A i \in DOMAIN << f >> : i = 1
<1>1. << f >> \in Text /\ Len(<< f >>) = 1 /\ << f >>[1] = f /\ << f >> # <<>>
    BY DEF Text
<1>2. \A i \in DOMAIN << f >> : i = 1
    OBVIOUS
<1> QED
    BY <1>1, <1>2

LEMMA OfOneField ==
    ASSUME NEW text \in Text, Len(text) = 1
    PROVE  text[1] \in Field /\ text = << text[1] >>
BY DEF Text

LEMMA FieldParts ==
    ASSUME NEW f \in Field
    PROVE  /\ f = [sep |-> f.sep, kind |-> f.kind, val |-> f.val]
           /\ f.sep \in {"", ":", "/", "+"} /\ f.val \in Nat
           /\ f.kind = "addr" => f.val \in Address
           /\ f.kind = "blank" => f.val = 0
BY DEF Field

LEMMA SuffixField ==
    ASSUME NEW sep \in {":", "/"}, NEW n \in Nat
    PROVE  /\ Suffix(sep, n) \in Text /\ Suffix(sep, n) # <<>> /\ Suffix(sep, n)[1].sep = sep
           /\ BlankSuffix(sep) \in Text /\ BlankSuffix(sep) # <<>> /\ BlankSuffix(sep)[1].sep = sep
           /\ Atoi(Suffix(sep, n)) = n /\ ~IsBlank(Suffix(sep, n)) /\ IsBlank(BlankSuffix(sep))
<1>1. /\ [sep |-> sep, kind |-> "num", val |-> n] \in Field
      /\ [sep |-> sep, kind |-> "blank", val |-> 0] \in Field
    BY DEF Field
<1> QED
    BY <1>1, OneField DEF Suffix, BlankSuffix, Atoi, IsBlank

LEMMA AddressField ==
    ASSUME NEW a \in Address
    PROVE  /\ AddressText(a) \in Text /\ Len(AddressText(a)) = 1
           /\ AddressText(a)[1].kind = "addr" /\ AddressText(a)[1].val = a
           /\ \A sep \in {":", "/", "+"} : ~Has(AddressText(a), sep)
<1> DEFINE f == [sep |-> "", kind |-> "addr", val |-> a]
<1>1. f \in Field /\ f.sep = "" /\ f.kind = "addr" /\ f.val = a
    BY AddressType DEF Field
<1>2. AddressText(a) = << f >>
    BY DEF AddressText
<1> HIDE DEF f
<1>3. /\ AddressText(a) \in Text /\ Len(AddressText(a)) = 1 /\ AddressText(a)[1] = f
      /\ \A i \in DOMAIN AddressText(a) : i = 1
    BY <1>1, <1>2, OneField
<1>4. \A sep \in {":", "/", "+"} : ~Has(AddressText(a), sep)
    BY <1>1, <1>3 DEF Has
<1> QED
    BY <1>1, <1>3, <1>4

(* The texts that give a port are those that ParsePort reads it from. *)
LEMMA PortRead ==
    ASSUME NEW text \in Text, text # <<>> => text[1].sep = ":", NEW d \in Int, NEW port \in Int
    PROVE  ~BadPort(text) /\ ParsePort(text, d) = port <=> text \in PortSuffixes(port, d)
<1>1. ASSUME text \in PortSuffixes(port, d) PROVE ~BadPort(text) /\ ParsePort(text, d) = port
    <2>1. \/ port \in 0..MaxPort /\ text = Suffix(":", port)
          \/ port = d /\ (text = <<>> \/ text = BlankSuffix(":"))
        BY <1>1 DEF PortSuffixes
    <2>2. CASE port \in 0..MaxPort /\ text = Suffix(":", port)
        <3>1. port \in Nat
            BY <2>2, EntriesAssumption
        <3> QED
            BY <2>2, <3>1, SuffixField DEF ParsePort, BadPort
    <2>3. CASE port = d /\ (text = <<>> \/ text = BlankSuffix(":"))
        <3>1. 0 \in Nat
            OBVIOUS
        <3> QED
            BY <2>3, <3>1, SuffixField DEF ParsePort, BadPort, IsBlank
    <2> QED
        BY <2>1, <2>2, <2>3
<1>2. ASSUME ~BadPort(text), ParsePort(text, d) = port PROVE text \in PortSuffixes(port, d)
    <2>1. CASE text = <<>>
        BY <1>2, <2>1 DEF ParsePort, IsBlank, PortSuffixes
    <2>2. ASSUME text # <<>>, IsBlank(text) PROVE text \in PortSuffixes(port, d)
        <3>1. Len(text) = 1 /\ text[1].kind = "blank" /\ text[1].sep = ":"
            BY <2>2 DEF IsBlank
        <3>2. text = << [sep |-> ":", kind |-> "blank", val |-> 0] >>
            BY <3>1, OfOneField, FieldParts
        <3> QED
            BY <1>2, <2>2, <3>2 DEF ParsePort, PortSuffixes, BlankSuffix
    <2>3. ASSUME ~IsBlank(text) PROVE text \in PortSuffixes(port, d)
        <3>1. Atoi(text) = port /\ port \in 0..MaxPort /\ port # -1
            BY <1>2, <2>3, EntriesAssumption DEF ParsePort, BadPort
        <3>2. Len(text) = 1 /\ text[1].kind = "num" /\ text[1].val = port
            BY <3>1 DEF Atoi
        <3>3. text[1].sep = ":"
            BY <3>2
        <3>4. text = << [sep |-> ":", kind |-> "num", val |-> port] >>
            BY <3>2, <3>3, OfOneField, FieldParts
        <3> QED
            BY <3>1, <3>4 DEF PortSuffixes, Suffix
    <2> QED
        BY <2>1, <2>2, <2>3
<1> QED
    BY <1>1, <1>2

LEMMA PortsInt == \A d \in Int : Ports(d) \subseteq Int
BY EntriesAssumption DEF Ports

LEMMA ParsePortType ==
    ASSUME NEW text, NEW d \in Int, ~BadPort(text)
    PROVE  ParsePort(text, d) \in Ports(d) /\ ParsePort(text, d) \in Int
BY PortsInt DEF ParsePort, BadPort, Ports

LEMMA PortSuffixText ==
    ASSUME NEW port \in Int, NEW d, NEW p \in PortSuffixes(port, d)
    PROVE  p \in Text /\ ~Has(p, "/") /\ (p # <<>> => p[1].sep = ":")
<1>1. (port \in 0..MaxPort => port \in Nat) /\ 0 \in Nat
    BY EntriesAssumption
<1>2. CASE p = <<>>
    BY <1>2 DEF Text, Has
<1>3. CASE port \in 0..MaxPort /\ p = Suffix(":", port)
    BY <1>1, <1>3, SuffixField DEF Has, Suffix
<1>4. CASE p = BlankSuffix(":")
    BY <1>1, <1>4, SuffixField DEF Has, BlankSuffix
<1> QED
    BY <1>2, <1>3, <1>4 DEF PortSuffixes
-----------------------------------------------------------------------------
LEMMA HasConcat ==
    ASSUME NEW u \in Text, NEW v \in Text, NEW sep
    PROVE  u \o v \in Text /\ (Has(u \o v, sep) <=> Has(u, sep) \/ Has(v, sep))
<1> DEFINE w == u \o v
<1>1. /\ w \in Text /\ Len(w) = Len(u) + Len(v)
      /\ \A i \in 1..(Len(u) + Len(v)) : w[i] = IF i <= Len(u) THEN u[i] ELSE v[i - Len(u)]
    BY ConcatProperties DEF Text
<1>2. /\ Len(u) \in Nat /\ Len(v) \in Nat
      /\ DOMAIN u = 1..Len(u) /\ DOMAIN v = 1..Len(v) /\ DOMAIN w = 1..Len(w)
    BY <1>1 DEF Text
<1> HIDE DEF w
<1>3. ASSUME Has(w, sep) PROVE Has(u, sep) \/ Has(v, sep)
    <2>1. PICK i \in 1..(Len(u) + Len(v)) : w[i].sep = sep
        BY <1>1, <1>2, <1>3 DEF Has
    <2>2. CASE i <= Len(u)
        BY <1>1, <1>2, <2>1, <2>2 DEF Has
    <2>3. CASE i > Len(u)
        <3>1. i - Len(u) \in 1..Len(v) /\ v[i - Len(u)].sep = sep
            BY <1>1, <1>2, <2>1, <2>3
        <3> QED
            BY <1>2, <3>1 DEF Has
    <2> QED
        BY <1>2, <2>2, <2>3
<1>4. ASSUME NEW i \in DOMAIN u, u[i].sep = sep PROVE Has(w, sep)
    <2>1. i \in DOMAIN w /\ w[i] = u[i]
        BY <1>1, <1>2
    <2> QED
        BY <1>4, <2>1 DEF Has
<1>5. ASSUME NEW i \in DOMAIN v, v[i].sep = sep PROVE Has(w, sep)
    <2>1. i + Len(u) \in DOMAIN w /\ w[i + Len(u)] = v[i]
        BY <1>1, <1>2
    <2> QED
        BY <1>5, <2>1 DEF Has
<1> QED
    BY <1>1, <1>3, <1>4, <1>5 DEF Has, w

(* The entry, but for its arguments, spells a block of addresses and a port. *)
Spells(entry, d, a, port, bits) ==
    \E p \in PortSuffixes(port, d), r \in PrefixSuffixes(bits) :
        Before(entry, "+") = AddressText(a) \o p \o r

Block(a, port, bits) ==
    [kind |-> "range", first |-> Masked(a, bits), bits |-> bits, port |-> port]

LEMMA SpelledParses ==
    ASSUME NEW entry, NEW d \in Int, NEW a \in Address,
           NEW port \in Int, NEW bits \in 0..AddressBits, Spells(entry, d, a, port, bits)
    PROVE  ParseIPEntry(entry, d) = Block(a, port, bits)
<1>1. PICK p \in PortSuffixes(port, d), r \in PrefixSuffixes(bits) :
          Before(entry, "+") = AddressText(a) \o p \o r
    BY DEF Spells
<1> DEFINE head == Before(entry, "+")
           left == AddressText(a) \o p
<1>2. bits \in Nat
    BY EntriesAssumption
<1>3. p \in Text /\ ~Has(p, "/") /\ (p # <<>> => p[1].sep = ":")
    BY PortSuffixText
<1>4. /\ AddressText(a) \in Text
      /\ ~Has(AddressText(a), "/") /\ ~Has(AddressText(a), ":")
    BY AddressField
<1>5. left \in Text /\ ~Has(left, "/")
    BY <1>3, <1>4, HasConcat
<1>6. /\ r \in Text /\ (r # <<>> => r[1].sep = "/")
      /\ bits = IF r # <<>> THEN Atoi(r) ELSE AddressBits
    <2>1. CASE r = Suffix("/", bits)
        BY <1>2, <2>1, SuffixField
    <2>2. CASE r = <<>> /\ bits = AddressBits
        BY <2>2 DEF Text
    <2> QED
        BY <2>1, <2>2 DEF PrefixSuffixes
<1>7. head = left \o r
    BY <1>1
<1> HIDE DEF head, left
<1>8. Before(head, "/") = left /\ After(head, "/") = r /\ (Has(head, "/") <=> r # <<>>)
    BY <1>5, <1>6, <1>7, CutConcat
<1>9. Before(left, ":") = AddressText(a) /\ After(left, ":") = p
    BY <1>3, <1>4, CutConcat DEF left
<1>10. ~BadPort(p) /\ ParsePort(p, d) = port
    BY <1>3, PortRead
<1>11. /\ Len(AddressText(a)) = 1 /\ AddressText(a)[1].kind = "addr"
       /\ AddressText(a)[1].val = a
    BY AddressField
<1> QED
    BY <1>6, <1>8, <1>9, <1>10, <1>11 DEF ParseIPEntry, Block, head

LEMMA ParsedSpells ==
    ASSUME NEW entry \in Text, NEW d \in Int, ParseIPEntry(entry, d) # Invalid
    PROVE  \E a \in Address, port \in Ports(d), bits \in 0..AddressBits :
               Spells(entry, d, a, port, bits)
<1> DEFINE head == Before(entry, "+")
           left == Before(head, "/")
           host == Before(left, ":")
           r == After(head, "/")
           p == After(left, ":")
           bits == IF Has(head, "/") THEN Atoi(r) ELSE AddressBits
           port == ParsePort(p, d)
<1>1. bits \in 0..AddressBits /\ Len(host) = 1 /\ host[1].kind = "addr" /\ ~BadPort(p)
    BY DEF ParseIPEntry
<1>2. head \in Text /\ ~Has(head, "+")
    BY CutSplits
<1>3. /\ left \in Text /\ r \in Text /\ head = left \o r /\ ~Has(left, "/")
      /\ Has(head, "/") <=> r # <<>>
      /\ r # <<>> => r[1].sep = "/"
    <2> HIDE DEF head
    <2> QED
        BY <1>2, CutSplits
<1>4. /\ host \in Text /\ p \in Text /\ left = host \o p /\ ~Has(host, ":")
      /\ p # <<>> => p[1].sep = ":"
    <2> HIDE DEF left
    <2> QED
        BY <1>3, CutSplits
<1>5. bits = IF r # <<>> THEN Atoi(r) ELSE AddressBits
    BY <1>3
<1>6. port \in Ports(d) /\ port \in Int
    <2> HIDE DEF p
    <2> QED
        BY <1>1, ParsePortType
<1> HIDE DEF head, left, host, r, p, port, bits
<1>7. p \in PortSuffixes(port, d)
    <2>1. ParsePort(p, d) = port
        BY DEF port
    <2> QED
        BY <1>1, <1>4, <1>6, <2>1, PortRead
<1>8. r \in PrefixSuffixes(bits)
    <2>1. CASE r = <<>>
        BY <1>5, <2>1 DEF PrefixSuffixes
    <2>2. ASSUME r # <<>> PROVE r \in PrefixSuffixes(bits)
        <3>1. Atoi(r) = bits /\ bits # -1
            BY <1>1, <1>5, <2>2, EntriesAssumption
        <3>2. Len(r) = 1 /\ r[1].kind = "num" /\ r[1].val = bits /\ r[1].sep = "/"
            BY <1>3, <2>2, <3>1 DEF Atoi
        <3>3. r = << [sep |-> "/", kind |-> "num", val |-> bits] >>
            BY <1>3, <3>2, OfOneField, FieldParts
        <3> QED
            BY <3>3 DEF PrefixSuffixes, Suffix
    <2> QED
        BY <2>1, <2>2
<1>9. ~Has(host, "+") /\ ~Has(host, "/") /\ ~Has(host, ":")
    BY <1>2, <1>3, <1>4, HasConcat
<1>10. PICK a \in Address : host = AddressText(a)
    <2>1. host[1] \in Field /\ host = << host[1] >>
        BY <1>1, <1>4, OfOneField
    <2>2. host[1].sep = ""
        <3>1. 1 \in DOMAIN host
            BY <1>1, <1>4 DEF Text
        <3> QED
            BY <1>9, <2>1, <3>1, FieldParts DEF Has
    <2>3. host[1].val \in Address /\ host[1] = [sep |-> "", kind |-> "addr", val |-> host[1].val]
        BY <1>1, <2>1, <2>2, FieldParts
    <2> QED
        BY <2>1, <2>3 DEF AddressText
<1>11. head = AddressText(a) \o p \o r
    BY <1>3, <1>4, <1>10
<1>12. Spells(entry, d, a, port, bits)
    BY <1>7, <1>8, <1>11 DEF Spells, head
<1> QED
    BY <1>1, <1>6, <1>12
-----------------------------------------------------------------------------
(* What the source expands a parsed entry to. *)
Expansion(e) ==
    IF e.kind = "range"
    THEN {[host |-> AddressText(x), port |-> e.port] : x \in {y \in Address : InRange(e, y)}}
    ELSE IF e.kind = "domain" THEN {[host |-> e.host, port |-> e.port]} ELSE {}

(* An address entry names the addresses of the block that it parses to, at *)
(* the port, and nothing if it does not parse: ParseIPEntry takes every    *)
(* spelling there is, and no other.                                        *)
THEOREM IPEntryNames ==
    ASSUME NEW entry \in Text, NEW d \in Int
    PROVE  Expansion(ParseIPEntry(entry, d)) = NamedByIP(entry, d)
<1> DEFINE e == ParseIPEntry(entry, d)
<1>1. ASSUME NEW x \in Address, NEW port \in Int
      PROVE  IPNames(entry, d, x, port) <=>
                 \E b \in Address, bits \in 0..AddressBits :
                     SameBlock(x, b, bits) /\ Spells(entry, d, b, port, bits)
    BY DEF IPNames, Spells
<1>2. ASSUME NEW b \in Address, NEW port \in Int, NEW bits \in 0..AddressBits,
             Spells(entry, d, b, port, bits), NEW x \in Address
      PROVE  /\ e = Block(b, port, bits)
             /\ InRange(e, x) <=> SameBlock(x, b, bits)
    <2>1. e = Block(b, port, bits)
        BY <1>2, SpelledParses
    <2>2. InRange(e, x) <=> Masked(x, bits) = Masked(b, bits)
        BY <2>1 DEF InRange, Block
    <2> QED
        BY <2>1, <2>2, SameMask
<1>3. ASSUME NEW t \in NamedByIP(entry, d) PROVE t \in Expansion(e)
    <2>1. PICK x \in Address, port \in Ports(d) :
              IPNames(entry, d, x, port) /\ t = [host |-> AddressText(x), port |-> port]
        BY <1>3 DEF NamedByIP
    <2>2. PICK b \in Address, bits \in 0..AddressBits :
              SameBlock(x, b, bits) /\ Spells(entry, d, b, port, bits)
        BY <1>1, <2>1, PortsInt
    <2>3. e = Block(b, port, bits) /\ InRange(e, x)
        BY <1>2, <2>2, PortsInt
    <2>4. e.kind = "range" /\ e.port = port
        BY <2>3 DEF Block
    <2> QED
        BY <2>1, <2>3, <2>4 DEF Expansion
<1>4. ASSUME NEW t \in Expansion(e) PROVE t \in NamedByIP(entry, d)
    <2>1. e # Invalid
        BY <1>4 DEF Expansion, Invalid
    <2>2. PICK b \in Address, port \in Ports(d), bits \in 0..AddressBits :
              Spells(entry, d, b, port, bits)
        BY <2>1, ParsedSpells
    <2>3. e = Block(b, port, bits) /\ e.kind = "range" /\ e.port = port
        BY <2>2, SpelledParses, PortsInt DEF Block
    <2>4. PICK x \in Address : InRange(e, x) /\ t = [host |-> AddressText(x), port |-> port]
        BY <1>4, <2>3 DEF Expansion
    <2>5. IPNames(entry, d, x, port)
        BY <1>1, <1>2, <2>2, <2>4, PortsInt
    <2> QED
        BY <2>4, <2>5 DEF NamedByIP
<1> HIDE DEF e
<1>5. Expansion(e) = NamedByIP(entry, d)
    BY <1>3, <1>4
<1> QED
    BY <1>5 DEF e

(* A domain entry names its host at its port, or nothing. *)
THEOREM DomainEntryNames ==
    ASSUME NEW entry \in Text, NEW d \in Int
    PROVE  Expansion(ParseDomainEntry(entry, d)) = NamedByDomain(entry, d)
<1> DEFINE head == Before(entry, "+")
           host == Before(head, ":")
           p == After(head, ":")
           port == ParsePort(p, d)
           e == ParseDomainEntry(entry, d)
<1>1. e = IF IsBlank(host) \/ BadPort(p) THEN Invalid
          ELSE [kind |-> "domain", host |-> host, port |-> port]
    BY DEF ParseDomainEntry
<1>2. head \in Text
    BY CutSplits
<1>3. /\ host \in Text /\ p \in Text /\ head = host \o p /\ ~Has(host, ":")
      /\ p # <<>> => p[1].sep = ":"
    <2> HIDE DEF head
    <2> QED
        BY <1>2, CutSplits
<1>4. (~BadPort(p) => port \in Ports(d)) /\ Ports(d) \subseteq Int
    <2> HIDE DEF p
    <2> QED
        BY ParsePortType, PortsInt
<1>5. ASSUME NEW t \in NamedByDomain(entry, d) PROVE t \in Expansion(e)
    <2>1. PICK n \in 1..Len(head), q \in Ports(d) :
              /\ DomainNames(entry, d, SubSeq(head, 1, n), q)
              /\ t = [host |-> SubSeq(head, 1, n), port |-> q]
        BY <1>5 DEF NamedByDomain
    <2> DEFINE h == SubSeq(head, 1, n)
    <2>2. PICK s \in PortSuffixes(q, d) : head = h \o s
        BY <2>1 DEF DomainNames
    <2>3. ~Has(h, ":") /\ ~IsBlank(h)
        BY <2>1 DEF DomainNames
    <2>4. h \in Text
        <3>1. \A i \in 1..n : head[i] \in Field
            BY <1>2 DEF Text
        <3> HIDE DEF head
        <3> QED
            BY <3>1, SubSeqProperties DEF Text
    <2>5. s \in Text /\ (s # <<>> => s[1].sep = ":")
        BY PortSuffixText, PortsInt
    <2>6. host = h /\ p = s
        <3> HIDE DEF h, head
        <3> QED
            BY <2>2, <2>3, <2>4, <2>5, CutConcat
    <2>7. port = q /\ ~BadPort(p)
        <3>1. ~BadPort(s) /\ ParsePort(s, d) = q
            <4> HIDE DEF h
            <4> QED
                BY <1>4, <2>2, <2>5, PortRead
        <3> QED
            BY <2>6, <3>1
    <2>8. e = [kind |-> "domain", host |-> h, port |-> q]
        <3> HIDE DEF e, host, port, h, head, p
        <3> QED
            BY <1>1, <2>3, <2>6, <2>7
    <2> QED
        BY <2>1, <2>8 DEF Expansion
<1>6. ASSUME NEW t \in Expansion(e) PROVE t \in NamedByDomain(entry, d)
    <2> HIDE DEF e, host, port, head, p
    <2>1. /\ ~IsBlank(host) /\ ~BadPort(p)
          /\ t = [host |-> host, port |-> port]
        BY <1>1, <1>6 DEF Expansion, Invalid
    <2>2. port \in Ports(d) /\ p \in PortSuffixes(port, d)
        <3>1. port \in Ports(d) /\ port \in Int
            BY <1>4, <2>1
        <3>2. ParsePort(p, d) = port
            BY DEF port
        <3> QED
            BY <1>3, <2>1, <3>1, <3>2, PortRead
    <2>3. DomainNames(entry, d, host, port)
        BY <1>3, <2>1, <2>2 DEF DomainNames, head
    <2>4. Len(host) \in 1..Len(head) /\ host = SubSeq(head, 1, Len(host))
        <3>1. host # <<>>
            BY <2>1 DEF IsBlank
        <3>2. /\ Len(head) = Len(host) + Len(p) /\ Len(host) \in Nat \ {0} /\ Len(p) \in Nat
              /\ \A i \in 1..Len(host) : head[i] = host[i]
            BY <1>3, <3>1, ConcatProperties DEF Text
        <3>3. \A i \in 1..Len(host) : head[i] \in Field
            BY <1>3, <3>2 DEF Text
        <3>4. /\ SubSeq(head, 1, Len(host)) \in Seq(Field)
              /\ Len(SubSeq(head, 1, Len(host))) = Len(host)
              /\ \A i \in 1..Len(host) : SubSeq(head, 1, Len(host))[i] = host[i]
            BY <3>2, <3>3, SubSeqProperties
        <3> QED
            BY <1>3, <3>2, <3>4, SeqEqual DEF Text
    <2>5. host \in {h \in {SubSeq(head, 1, n) : n \in 1..Len(head)} : DomainNames(entry, d, h, port)}
        BY <2>3, <2>4
    <2>6. t \in {[host |-> h, port |-> port] :
                   h \in {g \in {SubSeq(head, 1, n) : n \in 1..Len(head)} : DomainNames(entry, d, g, port)}}
        BY <2>1, <2>5
    <2> QED
        BY <2>2, <2>6 DEF NamedByDomain, head
<1> HIDE DEF e
<1>7. Expansion(e) = NamedByDomain(entry, d)
    BY <1>5, <1>6
<1> QED
    BY <1>7 DEF e
-----------------------------------------------------------------------------
(* A function that a recursion over 0..n defines exists. *)
Recursive(g, n, V, b, F) ==
    /\ g \in [0..n -> V]
    /\ \A i \in 0..n : g[i] = IF i = 0 THEN b ELSE F[<<g[i - 1], i>>]

LEMMA Recursion ==
    ASSUME NEW n \in Nat, NEW V, NEW b \in V, NEW F \in [V \X (1..n) -> V]
    PROVE  \E g : Recursive(g, n, V, b, F)
<1> DEFINE Good(m, g) == \A i \in 0..m : g[i] = IF i = 0 THEN b ELSE F[<<g[i - 1], i>>]
           S == {m \in Nat : m <= n => \E g \in [0..m -> V] : Good(m, g)}
<1>1. 0 \in S
    <2>1. [i \in 0..0 |-> b] \in [0..0 -> V] /\ Good(0, [i \in 0..0 |-> b])
        OBVIOUS
    <2> QED
        BY <2>1
<1>2. ASSUME NEW m \in Nat, m \in S PROVE m + 1 \in S
    <2> SUFFICES ASSUME m + 1 <= n PROVE \E g \in [0..(m + 1) -> V] : Good(m + 1, g)
        OBVIOUS
    <2>1. PICK g \in [0..m -> V] : Good(m, g)
        BY <1>2
    <2> DEFINE h == [i \in 0..(m + 1) |-> IF i <= m THEN g[i] ELSE F[<<g[m], m + 1>>]]
    <2>2. F[<<g[m], m + 1>>] \in V
        OBVIOUS
    <2>3. h \in [0..(m + 1) -> V]
        BY <2>2
    <2>4. /\ h[0] = b /\ h[m + 1] = F[<<h[m], m + 1>>]
          /\ \A i \in 1..m : h[i] = g[i] /\ h[i - 1] = g[i - 1] /\ g[i] = F[<<g[i - 1], i>>]
        <3>1. \A i \in 0..m : h[i] = g[i]
            OBVIOUS
        <3>2. h[m + 1] = F[<<g[m], m + 1>>]
            OBVIOUS
        <3> HIDE DEF h
        <3>3. 0 \in 0..m /\ m \in 0..m
            OBVIOUS
        <3>4. g[0] = b
            BY <2>1, <3>3
        <3>5. ASSUME NEW i \in 1..m PROVE h[i] = g[i] /\ h[i - 1] = g[i - 1] /\ g[i] = F[<<g[i - 1], i>>]
            <4>1. i \in 0..m /\ i - 1 \in 0..m /\ i # 0
                OBVIOUS
            <4> QED
                BY <2>1, <3>1, <4>1
        <3> QED
            BY <3>1, <3>2, <3>3, <3>4, <3>5
    <2> HIDE DEF h
    <2>5. ASSUME NEW i \in 0..(m + 1) PROVE h[i] = IF i = 0 THEN b ELSE F[<<h[i - 1], i>>]
        <3>1. CASE i = m + 1
            <4>1. i # 0 /\ i - 1 = m
                BY <3>1
            <4> QED
                BY <2>4, <3>1, <4>1
        <3>2. CASE i \in 1..m
            BY <2>4, <3>2
        <3>3. CASE i = 0
            BY <2>4, <3>3
        <3> QED
            BY <3>1, <3>2, <3>3
    <2> QED
        BY <2>3, <2>5
<1>3. n \in S
    <2> HIDE DEF S
    <2> QED
        BY <1>1, <1>2, SetInduction
<1> QED
    BY <1>3 DEF Recursive

LEMMA AppendRange ==
    ASSUME NEW R, NEW s \in Seq(R), NEW x \in R
    PROVE  Append(s, x) \in Seq(R) /\ Range(Append(s, x)) = Range(s) \cup {x}
<1>1. /\ Append(s, x) \in Seq(R) /\ Len(Append(s, x)) = Len(s) + 1 /\ Len(s) \in Nat
      /\ \A i \in 1..Len(s) : Append(s, x)[i] = s[i]
      /\ Append(s, x)[Len(s) + 1] = x
    BY AppendProperties
<1>2. DOMAIN s = 1..Len(s) /\ DOMAIN Append(s, x) = 1..(Len(s) + 1)
    BY <1>1
<1> HIDE DEF Range
<1>3. ASSUME NEW y \in Range(Append(s, x)) PROVE y \in Range(s) \cup {x}
    BY <1>1, <1>2 DEF Range
<1>4. ASSUME NEW y \in Range(s) \cup {x} PROVE y \in Range(Append(s, x))
    <2>1. CASE y = x
        BY <1>1, <1>2, <2>1 DEF Range
    <2>2. CASE y \in Range(s)
        <3>1. PICK i \in 1..Len(s) : y = s[i]
            BY <1>2, <2>2 DEF Range
        <3>2. i \in DOMAIN Append(s, x) /\ Append(s, x)[i] = y
            BY <1>1, <1>2, <3>1
        <3> QED
            BY <3>2 DEF Range
    <2> QED
        BY <2>1, <2>2
<1> QED
    BY <1>1, <1>3, <1>4

(* readLines: the lines that are not blank. *)
LEMMA LinesRead ==
    ASSUME NEW file \in File
    PROVE  /\ ReadLines(file) \in Seq(Text)
           /\ Range(ReadLines(file)) = IF file.readable THEN {x \in Range(file.lines) : ~IsBlank(x)}
                                                         ELSE {<<>>}
<1> DEFINE s == file.lines
           n == Len(s)
           V == Seq(Text)
           Step(v, i) == IF IsBlank(s[i]) THEN v ELSE Append(v, s[i])
           Defines(g) == g = [i \in 0..n |-> IF i = 0 THEN <<>> ELSE Step(g[i - 1], i)]
           f == CHOOSE g : Defines(g)
<1>1. s \in Seq(Text) /\ n \in Nat /\ <<>> \in V /\ DOMAIN s = 1..n
      /\ \A i \in 1..n : s[i] \in Text
    BY DEF File
<1>2. Defines(f)
    <2> DEFINE F == [p \in V \X (1..n) |-> Step(p[1], p[2])]
    <2>1. F \in [V \X (1..n) -> V]
        BY <1>1
    <2>2. PICK g \in [0..n -> V] : \A i \in 0..n : g[i] = IF i = 0 THEN <<>> ELSE F[<<g[i - 1], i>>]
        <3>1. <<>> \in V /\ n \in Nat
            BY <1>1
        <3> HIDE DEF F, V, n
        <3>2. PICK g : Recursive(g, n, V, <<>>, F)
            BY <2>1, <3>1, Recursion
        <3> QED
            BY <3>2 DEF Recursive
    <2>3. ASSUME NEW i \in 0..n PROVE g[i] = IF i = 0 THEN <<>> ELSE Step(g[i - 1], i)
        <3>1. CASE i = 0
            BY <2>2, <3>1
        <3>2. CASE i # 0
            <4>1. i - 1 \in 0..n /\ i \in 1..n
                BY <1>1, <3>2
            <4>2. <<g[i - 1], i>> \in V \X (1..n)
                BY <4>1
            <4>3. F[<<g[i - 1], i>>] = Step(g[i - 1], i)
                <5> HIDE DEF Step, V, n
                <5> QED
                    BY <4>2
            <4> QED
                BY <2>2, <3>2, <4>3
        <3> QED
            BY <3>1, <3>2
    <2>4. Defines(g)
        <3> HIDE DEF Step, V, n
        <3> QED
            BY <2>2, <2>3
    <2> HIDE DEF Defines
    <2> QED
        BY <2>4
<1>3. ReadLines(file) = IF file.readable THEN f[n] ELSE << <<>> >>
    BY DEF ReadLines
<1> HIDE DEF f
<1> DEFINE Some(m) == {x \in {s[i] : i \in 1..m} : ~IsBlank(x)}
           S == {m \in Nat : m <= n => f[m] \in V /\ Range(f[m]) = Some(m)}
<1>4. 0 \in S
    <2>1. f[0] = <<>>
        BY <1>1, <1>2
    <2>2. Range(<<>>) = {} /\ Some(0) = {}
        BY DEF Range
    <2> QED
        BY <1>1, <2>1, <2>2
<1>5. ASSUME NEW m \in Nat, m \in S PROVE m + 1 \in S
    <2> SUFFICES ASSUME m + 1 <= n PROVE f[m + 1] \in V /\ Range(f[m + 1]) = Some(m + 1)
        OBVIOUS
    <2>1. f[m] \in V /\ Range(f[m]) = Some(m) /\ s[m + 1] \in Text
        BY <1>1, <1>5
    <2>2. f[m + 1] = Step(f[m], m + 1)
        <3>1. m + 1 \in 0..n /\ m + 1 # 0 /\ (m + 1) - 1 = m
            BY <1>1
        <3> HIDE DEF Step, n
        <3>2. f = [i \in 0..n |-> IF i = 0 THEN <<>> ELSE Step(f[i - 1], i)]
            BY <1>2
        <3>3. f[m + 1] = IF m + 1 = 0 THEN <<>> ELSE Step(f[(m + 1) - 1], m + 1)
            BY <3>1, <3>2
        <3> QED
            BY <3>1, <3>3
    <2>3. {s[i] : i \in 1..(m + 1)} = {s[i] : i \in 1..m} \cup {s[m + 1]}
        <3>1. 1..(m + 1) = (1..m) \cup {m + 1}
            OBVIOUS
        <3> HIDE DEF s
        <3> QED
            BY <3>1
    <2>4. CASE IsBlank(s[m + 1])
        BY <2>1, <2>2, <2>3, <2>4
    <2>5. CASE ~IsBlank(s[m + 1])
        <3>1. f[m + 1] = Append(f[m], s[m + 1]) /\ Some(m + 1) = Some(m) \cup {s[m + 1]}
            BY <2>2, <2>3, <2>5
        <3> QED
            BY <2>1, <3>1, AppendRange
    <2> QED
        BY <2>4, <2>5
<1>6. n \in S
    <2> HIDE DEF S
    <2> QED
        BY <1>1, <1>4, <1>5, SetInduction
<1>7. Some(n) = {x \in Range(s) : ~IsBlank(x)}
    BY <1>1 DEF Range
<1>8. << <<>> >> \in Seq(Text) /\ Range(<< <<>> >>) = {<<>>}
    BY DEF Range, Text
<1>9. f[n] \in Seq(Text) /\ Range(f[n]) = {x \in Range(s) : ~IsBlank(x)}
    BY <1>1, <1>6, <1>7
<1> QED
    BY <1>3, <1>8, <1>9

(* The entries of a flag and those of its files. *)
LEMMA EntriesListed ==
    ASSUME NEW args \in Seq(Text), NEW files \in Seq(File)
    PROVE  /\ Listed(args, files) \in Seq(Text)
           /\ Range(Listed(args, files)) =
                  Range(args) \cup UNION {Range(ReadLines(files[i])) : i \in 1..Len(files)}
<1> DEFINE n == Len(files)
           V == Seq(Text)
           Step(v, i) == v \o ReadLines(files[i])
           Defines(g) == g = [i \in 0..n |-> IF i = 0 THEN args ELSE Step(g[i - 1], i)]
           f == CHOOSE g : Defines(g)
<1>1. n \in Nat /\ args \in V /\ \A i \in 1..n : ReadLines(files[i]) \in Seq(Text)
    <2>1. n \in Nat /\ \A i \in 1..n : files[i] \in File
        OBVIOUS
    <2> QED
        BY <2>1, LinesRead
<1>2. Defines(f)
    <2> DEFINE F == [p \in V \X (1..n) |-> Step(p[1], p[2])]
    <2>1. F \in [V \X (1..n) -> V]
        <3>1. \A p \in V \X (1..n) : Step(p[1], p[2]) \in V
            BY <1>1, ConcatProperties
        <3> QED
            BY <3>1
    <2>2. PICK g \in [0..n -> V] : \A i \in 0..n : g[i] = IF i = 0 THEN args ELSE F[<<g[i - 1], i>>]
        <3>1. args \in V /\ n \in Nat
            BY <1>1
        <3> HIDE DEF F, V, n
        <3>2. PICK g : Recursive(g, n, V, args, F)
            BY <2>1, <3>1, Recursion
        <3> QED
            BY <3>2 DEF Recursive
    <2>3. ASSUME NEW i \in 0..n PROVE g[i] = IF i = 0 THEN args ELSE Step(g[i - 1], i)
        <3>1. CASE i = 0
            BY <2>2, <3>1
        <3>2. CASE i # 0
            <4>1. i - 1 \in 0..n /\ i \in 1..n
                BY <1>1, <3>2
            <4>2. <<g[i - 1], i>> \in V \X (1..n)
                BY <4>1
            <4>3. F[<<g[i - 1], i>>] = Step(g[i - 1], i)
                <5> HIDE DEF Step, V, n
                <5> QED
                    BY <4>2
            <4> QED
                BY <2>2, <3>2, <4>3
        <3> QED
            BY <3>1, <3>2
    <2>4. Defines(g)
        <3> HIDE DEF Step, V, n
        <3> QED
            BY <2>2, <2>3
    <2> HIDE DEF Defines
    <2> QED
        BY <2>4
<1>3. Listed(args, files) = f[n]
    BY DEF Listed
<1> HIDE DEF f
<1> DEFINE Some(m) == Range(args) \cup UNION {Range(ReadLines(files[i])) : i \in 1..m}
           S == {m \in Nat : m <= n => f[m] \in V /\ Range(f[m]) = Some(m)}
<1>4. 0 \in S
    <2>1. f[0] = args
        BY <1>1, <1>2
    <2>2. Some(0) = Range(args)
        <3> HIDE DEF Range
        <3> QED
            OBVIOUS
    <2> QED
        BY <1>1, <2>1, <2>2
<1>5. ASSUME NEW m \in Nat, m \in S PROVE m + 1 \in S
    <2> SUFFICES ASSUME m + 1 <= n PROVE f[m + 1] \in V /\ Range(f[m + 1]) = Some(m + 1)
        OBVIOUS
    <2>1. f[m] \in V /\ Range(f[m]) = Some(m) /\ ReadLines(files[m + 1]) \in V
        BY <1>1, <1>5
    <2>2. f[m + 1] = Step(f[m], m + 1)
        <3>1. m + 1 \in 0..n /\ m + 1 # 0 /\ (m + 1) - 1 = m
            BY <1>1
        <3> HIDE DEF Step, n
        <3>2. f = [i \in 0..n |-> IF i = 0 THEN args ELSE Step(f[i - 1], i)]
            BY <1>2
        <3>3. f[m + 1] = IF m + 1 = 0 THEN args ELSE Step(f[(m + 1) - 1], m + 1)
            BY <3>1, <3>2
        <3> QED
            BY <3>1, <3>3
    <2>3. Some(m + 1) = Some(m) \cup Range(ReadLines(files[m + 1]))
        <3> DEFINE R(i) == Range(ReadLines(files[i]))
        <3>1. 1..(m + 1) = (1..m) \cup {m + 1}
            OBVIOUS
        <3> HIDE DEF R
        <3>2. UNION {R(i) : i \in 1..(m + 1)} = (UNION {R(i) : i \in 1..m}) \cup R(m + 1)
            BY <3>1
        <3> QED
            BY <3>2 DEF R
    <2>4. f[m] \o ReadLines(files[m + 1]) \in Seq(Text)
        BY <2>1, ConcatProperties
    <2>5. Range(f[m] \o ReadLines(files[m + 1])) = Range(f[m]) \cup Range(ReadLines(files[m + 1]))
        BY <2>1, RangeConcatenation
    <2> QED
        BY <2>1, <2>2, <2>3, <2>4, <2>5
<1>6. n \in S
    <2> HIDE DEF S
    <2> QED
        BY <1>1, <1>4, <1>5, SetInduction
<1> QED
    BY <1>1, <1>3, <1>6
-----------------------------------------------------------------------------
(* A blank entry names nothing, and neither does an unreadable file. *)
LEMMA BeforeBlank ==
    ASSUME NEW text \in Text, IsBlank(text), NEW sep
    PROVE  Before(text, sep) \in Text /\ IsBlank(Before(text, sep))
<1> DEFINE u == Before(text, sep)
           v == After(text, sep)
<1>1. u \in Text /\ v \in Text /\ text = u \o v
    BY CutSplits
<1> HIDE DEF u, v
<1>2. /\ Len(u) \in Nat /\ Len(v) \in Nat /\ Len(text) = Len(u) + Len(v)
      /\ \A i \in 1..Len(u) : text[i] = u[i]
    BY <1>1, ConcatProperties DEF Text
<1>3. Len(text) \in {0, 1}
    BY DEF IsBlank
<1>4. ASSUME Len(u) = 0 PROVE IsBlank(u)
    <2>1. u \in Seq(Field)
        BY <1>1 DEF Text
    <2>2. u = <<>>
        BY <1>4, <2>1, EmptySeq
    <2> QED
        BY <2>2 DEF IsBlank
<1>5. ASSUME Len(u) # 0 PROVE IsBlank(u)
    <2>1. Len(u) = 1 /\ u[1] = text[1] /\ Len(text) = 1
        <3>1. Len(u) = 1 /\ Len(text) = 1
            <4> DEFINE m == Len(u)
                       n == Len(v)
                       l == Len(text)
            <4>1. m \in Nat /\ n \in Nat /\ l = m + n /\ l \in {0, 1} /\ m # 0
                BY <1>2, <1>3, <1>5
            <4> HIDE DEF m, n, l
            <4>2. m = 1 /\ l = 1
                BY <4>1
            <4> QED
                BY <4>2 DEF m, l
        <3>2. 1 \in 1..Len(u)
            BY <3>1
        <3> QED
            BY <1>2, <3>1, <3>2
    <2>2. text[1].kind = "blank"
        BY <2>1 DEF IsBlank
    <2> QED
        BY <2>1, <2>2 DEF IsBlank
<1>6. u \in Text /\ IsBlank(u)
    BY <1>1, <1>4, <1>5
<1> QED
    BY <1>6 DEF u

LEMMA BlankNamesNothing ==
    ASSUME NEW text \in Text, IsBlank(text), NEW d \in Int
    PROVE  NamedByIP(text, d) = {} /\ NamedByDomain(text, d) = {}
<1> DEFINE head == Before(text, "+")
           host == Before(Before(head, "/"), ":")
<1>1. head \in Text /\ IsBlank(head)
    BY BeforeBlank
<1>2. Before(head, "/") \in Text /\ IsBlank(Before(head, "/"))
    <2> HIDE DEF head
    <2> QED
        BY <1>1, BeforeBlank
<1>3. IsBlank(host) /\ IsBlank(Before(head, ":"))
    <2> HIDE DEF head
    <2> QED
        BY <1>1, <1>2, BeforeBlank
<1>4. ~(Len(host) = 1 /\ host[1].kind = "addr")
    <2> HIDE DEF host
    <2> QED
        BY <1>3 DEF IsBlank
<1>5. ParseIPEntry(text, d) = Invalid /\ ParseDomainEntry(text, d) = Invalid
    BY <1>3, <1>4 DEF ParseIPEntry, ParseDomainEntry
<1>6. Expansion(Invalid) = {}
    BY DEF Expansion, Invalid
<1> QED
    BY <1>5, <1>6, IPEntryNames, DomainEntryNames
LEMMA ListedEntries ==
    ASSUME NEW args \in Seq(Text), NEW files \in Seq(File)
    PROVE  /\ Listed(args, files) \in Seq(Text)
           /\ Range(args) \cup ReadableLines(files) \subseteq Text
           /\ \A x \in Text : ~IsBlank(x) =>
                 (x \in Range(Listed(args, files)) <=> x \in Range(args) \cup ReadableLines(files))
<1>1. /\ Listed(args, files) \in Seq(Text)
      /\ Range(Listed(args, files)) =
             Range(args) \cup UNION {Range(ReadLines(files[i])) : i \in 1..Len(files)}
    BY EntriesListed
<1>2. DOMAIN files = 1..Len(files) /\ \A i \in 1..Len(files) : files[i] \in File
    OBVIOUS
<1>3. ASSUME NEW i \in 1..Len(files)
      PROVE  /\ Range(files[i].lines) \subseteq Text
             /\ Range(ReadLines(files[i])) =
                   IF files[i].readable THEN {x \in Range(files[i].lines) : ~IsBlank(x)} ELSE {<<>>}
    <2>1. files[i].lines \in Seq(Text)
        BY <1>2 DEF File
    <2>2. Range(files[i].lines) \subseteq Text
        <3> DEFINE q == files[i].lines
        <3> HIDE DEF q
        <3>1. ASSUME q \in Seq(Text) PROVE Range(q) \subseteq Text
            BY <3>1 DEF Range
        <3> QED
            BY <2>1, <3>1 DEF q
    <2> QED
        BY <1>2, <2>2, LinesRead
<1>4. Range(args) \subseteq Text
    BY DEF Range
<1>5. IsBlank(<<>>)
    BY DEF IsBlank
<1>6. Range(args) \cup ReadableLines(files) \subseteq Text
    BY <1>2, <1>3, <1>4 DEF ReadableLines
<1>7. ASSUME NEW x \in Text, ~IsBlank(x)
      PROVE  x \in Range(Listed(args, files)) <=> x \in Range(args) \cup ReadableLines(files)
    <2>1. \A i \in 1..Len(files) :
              x \in Range(ReadLines(files[i])) <=> files[i].readable /\ x \in Range(files[i].lines)
        BY <1>3, <1>5, <1>7
    <2>2. x \in ReadableLines(files) <=> \E i \in 1..Len(files) : x \in Range(ReadLines(files[i]))
        BY <1>2, <2>1 DEF ReadableLines
    <2> QED
        BY <1>1, <2>2
<1> QED
    BY <1>1, <1>6, <1>7
-----------------------------------------------------------------------------
(* What a parser returns; a block begins at its network address. *)
ParsedEntry ==
    {Invalid} \cup [kind : {"domain"}, host : Text, port : Int]
    \cup {e \in [kind : {"range"}, first : Address, bits : 0..AddressBits, port : Int] :
             InRange(e, e.first)}

LEMMA ParsedType ==
    ASSUME NEW entry \in Text, NEW d \in Int
    PROVE  ParseIPEntry(entry, d) \in ParsedEntry /\ ParseDomainEntry(entry, d) \in ParsedEntry
<1>1. ASSUME ParseIPEntry(entry, d) # Invalid PROVE ParseIPEntry(entry, d) \in ParsedEntry
    <2>1. PICK a \in Address, port \in Ports(d), bits \in 0..AddressBits :
              Spells(entry, d, a, port, bits)
        BY <1>1, ParsedSpells
    <2> DEFINE m == Masked(a, bits)
               e == Block(a, port, bits)
    <2>2. m \in Address /\ m <= a /\ a <= a
        BY MaskedBlock, AddressType
    <2>3. Masked(m, bits) = m
        <3>1. Masked(m, bits) = BlockSize(bits) * (m \div BlockSize(bits))
            BY <2>2, MaskedBlock
        <3>2. m = BlockSize(bits) * (a \div BlockSize(bits))
            BY MaskedBlock
        <3>3. m \div BlockSize(bits) = a \div BlockSize(bits)
            <4> DEFINE B == BlockSize(bits)
                       q == a \div B
            <4>1. B \in Nat \ {0} /\ a \in Nat
                BY BlockPositive, AddressType
            <4> HIDE DEF B
            <4>2. q \in Nat
                BY <4>1
            <4> HIDE DEF q
            <4>3. (B * q) \div B = q
                BY <4>1, <4>2
            <4> QED
                BY <3>2, <4>3 DEF B, q
        <3> QED
            BY <3>1, <3>2, <3>3
    <2> HIDE DEF m
    <2>4. e \in [kind : {"range"}, first : Address, bits : 0..AddressBits, port : Int]
        BY <2>2, PortsInt DEF Block, m
    <2>5. InRange(e, e.first)
        BY <2>2, <2>3 DEF InRange, Block, m
    <2>6. ParseIPEntry(entry, d) = e
        BY <2>1, SpelledParses, PortsInt
    <2> QED
        BY <2>4, <2>5, <2>6 DEF ParsedEntry
<1>2. ParseDomainEntry(entry, d) \in ParsedEntry
    <2> DEFINE host == Before(Before(entry, "+"), ":")
               p == After(Before(entry, "+"), ":")
               port == ParsePort(p, d)
    <2>1. host \in Text
        BY CutSplits
    <2>2. ParseDomainEntry(entry, d) = IF IsBlank(host) \/ BadPort(p) THEN Invalid
                                       ELSE [kind |-> "domain", host |-> host, port |-> port]
        BY DEF ParseDomainEntry
    <2> HIDE DEF host, p
    <2>3. ~BadPort(p) => port \in Int
        BY ParsePortType
    <2> HIDE DEF port
    <2> QED
        BY <2>1, <2>2, <2>3 DEF ParsedEntry
<1> QED
    BY <1>1, <1>2 DEF ParsedEntry

LEMMA EntryKinds ==
    ASSUME NEW e \in ParsedEntry
    PROVE  \/ e = Invalid /\ e.kind = "invalid"
           \/ e.kind = "domain" /\ e.host \in Text /\ e.port \in Int
           \/ /\ e.kind = "range" /\ e.first \in Address /\ e.bits \in 0..AddressBits
              /\ e.port \in Int /\ InRange(e, e.first)
BY DEF ParsedEntry, Invalid

(* A block from one of its addresses on: from its first it is the whole    *)
(* block, each address is followed by the next, and it has no gap.         *)
From(e, a) == {b \in Address : a <= b /\ InRange(e, b)}

LEMMA FromFirst ==
    ASSUME NEW e \in ParsedEntry, e.kind = "range"
    PROVE  From(e, e.first) = {b \in Address : InRange(e, b)}
<1>1. e.bits \in 0..AddressBits
    BY EntryKinds DEF Invalid
<1>2. ASSUME NEW b \in Address, InRange(e, b) PROVE e.first <= b
    BY <1>1, <1>2, MaskedBlock DEF InRange
<1> QED
    BY <1>2 DEF From

LEMMA FromNext ==
    ASSUME NEW e, NEW a \in Address, InRange(e, a)
    PROVE  /\ NextAddress(a) \in Address \cup {-1}
           /\ NextAddress(a) # -1 => NextAddress(a) = a + 1
           /\ From(e, a) = {a} \cup (IF NextAddress(a) = -1 THEN {} ELSE From(e, NextAddress(a)))
<1>1. Address \subseteq Nat /\ a \in Nat /\ \A b \in Address : 0..b \subseteq Address
    BY AddressType
<1>2. NextAddress(a) = IF a + 1 \in Address THEN a + 1 ELSE -1
    BY DEF NextAddress
<1>3. CASE a + 1 \in Address
    <2>1. NextAddress(a) = a + 1 /\ a + 1 # -1
        BY <1>1, <1>2, <1>3
    <2>2. \A b \in Address : a <= b <=> b = a \/ a + 1 <= b
        BY <1>1
    <2>3. \A b : b \in From(e, a) <=> b = a \/ b \in From(e, a + 1)
        BY <1>1, <2>2 DEF From
    <2> QED
        BY <1>3, <2>1, <2>3
<1>4. CASE a + 1 \notin Address
    <2>1. ASSUME NEW b \in Address, a <= b PROVE b = a
        <3>1. ~(a + 1 <= b)
            BY <1>1, <1>4
        <3> QED
            BY <1>1, <2>1, <3>1
    <2>2. \A b : b \in From(e, a) <=> b = a
        <3>1. a <= a
            BY <1>1
        <3>2. a \in From(e, a)
            BY <3>1 DEF From
        <3> QED
            BY <2>1, <3>2 DEF From
    <2> QED
        BY <1>2, <1>4, <2>2
<1> QED
    BY <1>3, <1>4

LEMMA FromEnd ==
    ASSUME NEW e \in ParsedEntry, e.kind = "range",
           NEW a \in Address, e.first <= a, ~InRange(e, a)
    PROVE  From(e, a) = {}
<1>1. e.bits \in 0..AddressBits /\ e.first \in Address /\ InRange(e, e.first)
    BY EntryKinds DEF Invalid
<1>2. ASSUME NEW b \in Address, a <= b, InRange(e, b) PROVE FALSE
    <2>1. Masked(e.first, e.bits) = Masked(b, e.bits)
        BY <1>1, <1>2 DEF InRange
    <2>2. Masked(a, e.bits) = Masked(e.first, e.bits)
        BY <1>1, <1>2, <2>1, BlockConvex
    <2> QED
        BY <1>1, <2>2 DEF InRange
<1> QED
    BY <1>2 DEF From

(* Stream goes through exactly the targets its configuration names: no     *)
(* entry of a flag or of a file is dropped, none is made up, and an error  *)
(* in one leaves the others as they are.                                   *)
THEOREM SourceNames ==
    ASSUME NEW cfg \in SourceConfig
    PROVE  /\ ParseSource(cfg) \in Seq(ParsedEntry)
           /\ UNION {Expansion(ParseSource(cfg)[i]) : i \in DOMAIN ParseSource(cfg)} = Names(cfg)
<1> DEFINE d == cfg.DefaultPort
           ips == Listed(cfg.Targets, cfg.TargetFiles)
           domains == Listed(cfg.Domains, cfg.DomainFiles)
           u == [i \in DOMAIN ips |-> ParseIPEntry(ips[i], d)]
           v == [i \in DOMAIN domains |-> ParseDomainEntry(domains[i], d)]
           s == ParseSource(cfg)
           IpArgs == Range(cfg.Targets) \cup ReadableLines(cfg.TargetFiles)
           DomArgs == Range(cfg.Domains) \cup ReadableLines(cfg.DomainFiles)
<1>1. /\ cfg.Targets \in Seq(Text) /\ cfg.TargetFiles \in Seq(File)
      /\ cfg.Domains \in Seq(Text) /\ cfg.DomainFiles \in Seq(File) /\ d \in Int
    BY DEF SourceConfig
<1>2. s = u \o v
    BY DEF ParseSource
<1> HIDE DEF s
<1>3. /\ ips \in Seq(Text) /\ IpArgs \subseteq Text
      /\ \A x \in Text : ~IsBlank(x) => (x \in Range(ips) <=> x \in IpArgs)
    BY <1>1, ListedEntries
<1>4. /\ domains \in Seq(Text) /\ DomArgs \subseteq Text
      /\ \A x \in Text : ~IsBlank(x) => (x \in Range(domains) <=> x \in DomArgs)
    BY <1>1, ListedEntries
<1> HIDE DEF d, ips, domains, IpArgs, DomArgs
<1>5. /\ \A i \in DOMAIN ips : ips[i] \in Text
      /\ \A i \in DOMAIN domains : domains[i] \in Text
    BY <1>3, <1>4
<1>6. u \in Seq(ParsedEntry) /\ v \in Seq(ParsedEntry)
    <2>1. \A i \in DOMAIN ips : ParseIPEntry(ips[i], d) \in ParsedEntry
        BY <1>1, <1>5, ParsedType
    <2>2. \A i \in DOMAIN domains : ParseDomainEntry(domains[i], d) \in ParsedEntry
        BY <1>1, <1>5, ParsedType
    <2> QED
        BY <1>3, <1>4, <2>1, <2>2
<1>7. /\ Range(u) = {ParseIPEntry(x, d) : x \in Range(ips)}
      /\ Range(v) = {ParseDomainEntry(x, d) : x \in Range(domains)}
    BY DEF Range
<1> HIDE DEF u, v
<1>8. s \in Seq(ParsedEntry) /\ Range(s) = Range(u) \cup Range(v)
    BY <1>2, <1>6, ConcatProperties, RangeConcatenation
<1> DEFINE All == UNION {Expansion(s[i]) : i \in DOMAIN s}
<1>9. \A t : t \in All <=> \E e \in Range(s) : t \in Expansion(e)
    BY DEF Range
<1>10. \A t : t \in All <=> \/ \E x \in Range(ips) : t \in Expansion(ParseIPEntry(x, d))
                            \/ \E x \in Range(domains) : t \in Expansion(ParseDomainEntry(x, d))
    <2> HIDE DEF All
    <2> QED
        BY <1>7, <1>8, <1>9
<1>11. Range(ips) \subseteq Text /\ Range(domains) \subseteq Text
    BY <1>5 DEF Range
<1>12. \A t : t \in All <=> \/ \E x \in Range(ips) : t \in NamedByIP(x, d)
                            \/ \E x \in Range(domains) : t \in NamedByDomain(x, d)
    <2> HIDE DEF All
    <2>1. \A x \in Text : /\ Expansion(ParseIPEntry(x, d)) = NamedByIP(x, d)
                          /\ Expansion(ParseDomainEntry(x, d)) = NamedByDomain(x, d)
        BY <1>1, IPEntryNames, DomainEntryNames
    <2> QED
        BY <1>10, <1>11, <2>1
<1>13. \A x \in Text : \A t : t \in NamedByIP(x, d) \/ t \in NamedByDomain(x, d) => ~IsBlank(x)
    BY <1>1, BlankNamesNothing
<1>14. \A t : t \in All <=> \/ \E x \in IpArgs : t \in NamedByIP(x, d)
                            \/ \E x \in DomArgs : t \in NamedByDomain(x, d)
    <2> HIDE DEF All
    <2> QED
        BY <1>3, <1>4, <1>11, <1>12, <1>13
<1>15. \A t : t \in Names(cfg) <=> \/ \E x \in IpArgs : t \in NamedByIP(x, d)
                                   \/ \E x \in DomArgs : t \in NamedByDomain(x, d)
    BY DEF Names, IpArgs, DomArgs, d
<1>16. All = Names(cfg)
    <2> HIDE DEF All
    <2> QED
        BY <1>14, <1>15
<1> QED
    BY <1>8, <1>16 DEF s
=============================================================================
