-------------------------------- MODULE Wire --------------------------------
(***************************************************************************)
(* A target on its way to a worker and a result on its way back:           *)
(* internal/rpc/scannerpb (convert.go), with output.NormalizeValue.  A     *)
(* target is a host, which stands for all of it that travels unchanged,    *)
(* and a port, which is an int of the program and an int32 of the wire.    *)
(* A value is named by what the conversions tell apart: none at all, a     *)
(* text, a text that is not valid UTF-8 ("bytes"), a []string ("list"), an *)
(* []any ("items"), something with a text form of its own ("stringer"),    *)
(* and one that JSON has no form for ("opaque").                           *)
(***************************************************************************)
EXTENDS Integers

CONSTANT MaxInt32   \* the greatest int32, 2^31 - 1

ASSUME WireAssumption == MaxInt32 \in Nat

Outcome == {"ok", "up", "unknown"}
Value == {"nil", "text", "bytes", "list", "items", "stringer", "opaque"}

(* The enumeration on the wire, where 0 is "unspecified".  The map has no  *)
(* entry for an outcome that a module made up.                             *)
outcomeToProto == [ok |-> 1, up |-> 2, unknown |-> 3]

(* Mutant of outcomeFromProto: the numbers of the enumeration are taken for *)
(* those of fpmodule, which begin at 0.                                    *)
outcomeFromProto_FromZero == [n \in 0..2 |-> <<"ok", "up", "unknown">>[n + 1]]

outcomeFromProto == <<"ok", "up", "unknown">>

NormalizeValue(value) == IF value = "stringer" THEN "text" ELSE value

(* json.Marshal and Unmarshal, one after the other: a []string comes back  *)
(* as an []any, and bytes that are no UTF-8 as replacement characters.     *)
RoundTrip(value) ==
    CASE value = "list"  -> "items"
      [] value = "bytes" -> "replaced"
      [] OTHER           -> value

Int32 == (-MaxInt32 - 1)..MaxInt32

(* int32(port) keeps the low bits of the port and reads them as signed. *)
Narrow(port) == ((port + MaxInt32 + 1) % (2 * MaxInt32 + 2)) - MaxInt32 - 1

ToProtoTarget(target) == [target EXCEPT !.port = Narrow(@)]

FromProtoTarget(pt) == [host |-> pt.host, port |-> pt.port]

Encodes(result) == result.outcome \in DOMAIN outcomeToProto /\ result.value # "opaque"

(* Mutant of ToProtoResult: the port is left out. *)
ToProtoResult_NoPort(target, result) ==
    [host |-> target.host, port |-> 0, outcome |-> outcomeToProto[result.outcome],
     valueJson |-> NormalizeValue(result.value)]

ToProtoResult(target, result) ==
    [host |-> target.host, port |-> Narrow(target.port),
     outcome |-> outcomeToProto[result.outcome],
     valueJson |-> NormalizeValue(result.value)]

Decodes(pr) == pr.outcome \in DOMAIN outcomeFromProto

(* No value at all travels as an empty text, and is restored. *)
FromProtoResult(pr) ==
    [host |-> pr.host, port |-> pr.port, outcome |-> outcomeFromProto[pr.outcome],
     value |-> RoundTrip(pr.valueJson)]
-----------------------------------------------------------------------------
(* What an output prints for a value: a list as its items, a stringer as   *)
(* its text.                                                               *)
Printed(value) ==
    CASE value = "list"     -> "items"
      [] value = "stringer" -> "text"
      [] OTHER              -> value

(* The record that arrived prints as the one a single-host scan makes of   *)
(* the target and the result; but for a port that is no int32, which       *)
(* arrives as another one, and bytes that are no UTF-8, which the wire     *)
(* replaces.                                                               *)
PrintsAlike(arrived, target, result) ==
    /\ arrived.host = target.host
    /\ arrived.port = target.port \/ target.port \notin Int32
    /\ arrived.outcome = result.outcome
    /\ \/ Printed(arrived.value) = Printed(result.value)
       \/ result.value = "bytes" /\ arrived.value = "replaced"
=============================================================================
