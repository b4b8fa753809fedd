------------------------------ MODULE Entries ------------------------------
(***************************************************************************)
(* Target entries and what they name: internal/target/parse.go, the        *)
(* arithmetic of cidr.go and the order in which source.go reads a          *)
(* configuration.  An entry is a text: its fields, each with the separator *)
(* before it, so that "10.0.0.0:80/24" is an address, then ":" and a       *)
(* number, then "/" and a number.                                          *)
(***************************************************************************)
EXTENDS Integers, Sequences, Functions

CONSTANTS AddressBits,  \* the width of an address: 32
          MaxPort       \* the greatest port: 65535

ASSUME EntriesAssumption == AddressBits \in Nat /\ MaxPort \in Nat

Address == 0..(2 ^ AddressBits - 1)

(* A field that spells no address, 1.2.3.456 for one, is a name. *)
Field == {f \in [sep : {"", ":", "/", "+"}, kind : {"addr", "num", "name", "blank"}, val : Nat] :
             /\ f.kind = "addr" => f.val \in Address
             /\ f.kind = "blank" => f.val = 0}
Text == Seq(Field)

AddressText(a) == << [sep |-> "", kind |-> "addr", val |-> a] >>

IsBlank(text) == text = <<>> \/ (Len(text) = 1 /\ text[1].kind = "blank")
-----------------------------------------------------------------------------
(* strings.Cut, and strings.Split of the "+" suffixes. *)
Has(text, sep) == \E i \in DOMAIN text : text[i].sep = sep
Cut(text, sep) == CHOOSE i \in DOMAIN text :
                     text[i].sep = sep /\ \A j \in 1..(i - 1) : text[j].sep # sep
Before(text, sep) == IF Has(text, sep) THEN SubSeq(text, 1, Cut(text, sep) - 1) ELSE text
After(text, sep) == IF Has(text, sep) THEN SubSeq(text, Cut(text, sep), Len(text)) ELSE <<>>

(* strconv.Atoi, where its error is as good as a negative number. *)
Atoi(text) == IF Len(text) = 1 /\ text[1].kind = "num" THEN text[1].val ELSE -1

(* A text gives a port, or none, for which nothing checks the default one. *)
BadPort(text) == ~IsBlank(text) /\ Atoi(text) \notin 0..MaxPort
ParsePort(text, defPort) == IF IsBlank(text) THEN defPort ELSE Atoi(text)

BlockSize(bits) == 2 ^ (AddressBits - bits)

(* Prefix.Masked: the network address. *)
Masked(a, bits) == a - (a % BlockSize(bits))

(* Prefix.Contains *)
InRange(range, a) == a \in Address /\ Masked(a, range.bits) = range.first

(* Mutants of NextAddress: the addresses wrap around; they do not end. *)
NextAddress_Wraps(a) == (a + 1) % 2 ^ AddressBits
NextAddress_PastEnd(a) == a + 1

(* Addr.Next: the last address has none. *)
NextAddress(a) == IF a + 1 \in Address THEN a + 1 ELSE -1
-----------------------------------------------------------------------------
(* What an entry parses to: a range of addresses, a domain name, or an     *)
(* error.  The arguments after "+" are peeled off; nothing reads them.     *)
Invalid == [kind |-> "invalid"]

(* Mutant of ParseIPEntry: the port is looked for in the whole entry. *)
ParseIPEntry_AnyOrder(entry, defPort) ==
    LET head == Before(entry, "+")
        host == Before(Before(head, "/"), ":")
        bits == IF Has(head, "/") THEN Atoi(Before(After(head, "/"), ":")) ELSE AddressBits
        port == Before(After(head, ":"), "/")
    IN  IF /\ bits \in 0..AddressBits
           /\ Len(host) = 1 /\ host[1].kind = "addr"
           /\ ~BadPort(port)
        THEN [kind |-> "range", first |-> Masked(host[1].val, bits), bits |-> bits,
              port |-> ParsePort(port, defPort)]
        ELSE Invalid

ParseIPEntry(entry, defPort) ==
    LET head == Before(entry, "+")
        host == Before(Before(head, "/"), ":")
        bits == IF Has(head, "/") THEN Atoi(After(head, "/")) ELSE AddressBits
        port == After(Before(head, "/"), ":")
    IN  IF /\ bits \in 0..AddressBits
           /\ Len(host) = 1 /\ host[1].kind = "addr"
           /\ ~BadPort(port)
        THEN [kind |-> "range", first |-> Masked(host[1].val, bits), bits |-> bits,
              port |-> ParsePort(port, defPort)]
        ELSE Invalid

ParseDomainEntry(entry, defPort) ==
    LET head == Before(entry, "+")
        host == Before(head, ":")
        port == After(head, ":")
    IN  IF IsBlank(host) \/ BadPort(port)
        THEN Invalid
        ELSE [kind |-> "domain", host |-> host, port |-> ParsePort(port, defPort)]

(* readLines drops blank lines.  A file that cannot be read is one error,  *)
(* as an entry without a single field is.                                  *)
ReadLines(file) ==
    LET lines[n \in 0..Len(file.lines)] ==
            IF n = 0 THEN <<>>
            ELSE IF IsBlank(file.lines[n]) THEN lines[n - 1]
            ELSE Append(lines[n - 1], file.lines[n])
    IN  IF file.readable THEN lines[Len(file.lines)] ELSE << <<>> >>

(* The entries of a flag, then those of each file. *)
Listed(args, files) ==
    LET list[n \in 0..Len(files)] ==
            IF n = 0 THEN args ELSE list[n - 1] \o ReadLines(files[n])
    IN  list[Len(files)]

(* A SourceConfig, in the order Stream goes through it. *)
File == [readable : BOOLEAN, lines : Seq(Text)]
SourceConfig == [Targets : Seq(Text), TargetFiles : Seq(File),
                 Domains : Seq(Text), DomainFiles : Seq(File), DefaultPort : Int]

ParseSource(cfg) ==
    LET ips == Listed(cfg.Targets, cfg.TargetFiles)
        domains == Listed(cfg.Domains, cfg.DomainFiles)
    IN  [i \in DOMAIN ips |-> ParseIPEntry(ips[i], cfg.DefaultPort)]
        \o [i \in DOMAIN domains |-> ParseDomainEntry(domains[i], cfg.DefaultPort)]

(* buildSourceConfig: what -i, already split at its commas, and -f give. *)
BuildSourceConfig(targets, targetFiles, defaultPort) ==
    [Targets |-> targets, TargetFiles |-> targetFiles,
     Domains |-> <<>>, DomainFiles |-> <<>>, DefaultPort |-> defaultPort]
-----------------------------------------------------------------------------
(***************************************************************************)
(* What a configuration names, said without parsing it: an entry is an     *)
(* address, perhaps ":" and a port, perhaps "/" and a prefix length, in    *)
(* this order, or a domain name and perhaps ":" and a port; it names every *)
(* address of its block, at its port or else at the default one.           *)
(***************************************************************************)
Suffix(sep, n) == << [sep |-> sep, kind |-> "num", val |-> n] >>
BlankSuffix(sep) == << [sep |-> sep, kind |-> "blank", val |-> 0] >>
Ports(defPort) == 0..MaxPort \cup {defPort}
PortSuffixes(port, defPort) ==
    (IF port \in 0..MaxPort THEN {Suffix(":", port)} ELSE {})
    \cup (IF port = defPort THEN {<<>>, BlankSuffix(":")} ELSE {})
PrefixSuffixes(bits) ==
    {Suffix("/", bits)} \cup (IF bits = AddressBits THEN {<<>>} ELSE {})
SameBlock(a, b, bits) == a \div 2 ^ (AddressBits - bits) = b \div 2 ^ (AddressBits - bits)

IPNames(entry, defPort, a, port) ==
    \E b \in Address, bits \in 0..AddressBits :
    \E p \in PortSuffixes(port, defPort), r \in PrefixSuffixes(bits) :
        SameBlock(a, b, bits) /\ Before(entry, "+") = AddressText(b) \o p \o r

NamedByIP(entry, defPort) ==
    UNION {{[host |-> AddressText(a), port |-> port] :
               a \in {b \in Address : IPNames(entry, defPort, b, port)}} : port \in Ports(defPort)}

DomainNames(entry, defPort, host, port) ==
    /\ ~Has(host, ":") /\ ~IsBlank(host)
    /\ \E p \in PortSuffixes(port, defPort) : Before(entry, "+") = host \o p

NamedByDomain(entry, defPort) ==
    LET prefixes == {SubSeq(Before(entry, "+"), 1, n) : n \in 1..Len(Before(entry, "+"))}
    IN  UNION {{[host |-> host, port |-> port] :
                   host \in {h \in prefixes : DomainNames(entry, defPort, h, port)}} :
               port \in Ports(defPort)}

ReadableLines(files) == UNION {Range(files[i].lines) : i \in {j \in DOMAIN files : files[j].readable}}

Names(cfg) ==
    UNION ({NamedByIP(e, cfg.DefaultPort) : e \in Range(cfg.Targets) \cup ReadableLines(cfg.TargetFiles)}
      \cup {NamedByDomain(e, cfg.DefaultPort) : e \in Range(cfg.Domains) \cup ReadableLines(cfg.DomainFiles)})
=============================================================================
