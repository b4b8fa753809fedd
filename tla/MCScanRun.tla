----------------------------- MODULE MCScanRun -----------------------------
(* Small scans, of addresses of two bits and ports 0 to 2. *)
EXTENDS ScanRun, TLC

CONSTANTS w1, w2

Name(n) == << [sep |-> "", kind |-> "name", val |-> n] >>
Blank == << [sep |-> "", kind |-> "blank", val |-> 0] >>
Ip(a) == AddressText(a)
Port(p) == Suffix(":", p)
Prefix(b) == Suffix("/", b)
Arg == << [sep |-> "+", kind |-> "name", val |-> 0] >>
Readable(lines) == [readable |-> TRUE, lines |-> lines]
Missing == [readable |-> FALSE, lines |-> << Ip(3) >>]

MCConfigs == {
    \* The last block of the address space; one of its addresses again, at the
    \* same port and at the default one; a prefix before its port; a bad host.
    BuildSourceConfig(<< Ip(3) \o Port(1) \o Prefix(1) \o Arg, Ip(2) \o Prefix(1) \o Port(1),
                         Ip(3) \o Port(1), Ip(3), Name(1) >>, <<>>, 2),
    \* Every address, and some of them again from a file.
    BuildSourceConfig(<< Ip(2) \o Prefix(0) >>,
                      << Readable(<< Ip(1) \o Port(2), Blank, Ip(0) \o BlankSuffix(":") >>) >>, 2),
    \* A missing file does not end the source; nor do a prefix too long, a
    \* port too high, an empty entry and one of two ports.  The default port
    \* is too high as well, which nothing checks.
    [Targets |-> << Ip(0) \o Prefix(3), Ip(1) \o Port(3), Blank, Ip(0) \o Port(1) \o Port(1),
                    Ip(1) \o Port(0) >>,
     TargetFiles |-> << Missing, Readable(<< Ip(0) \o Prefix(2) >>) >>,
     Domains |-> << Name(1) \o Port(1) \o Arg, Ip(1) \o Port(0), Blank \o Port(1) >>,
     DomainFiles |-> << Missing, Readable(<< Name(1), Name(1) \o Port(3) >>) >>,
     DefaultPort |-> 4] }

=============================================================================
