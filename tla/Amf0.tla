-------------------------------- MODULE Amf0 --------------------------------
(***************************************************************************)
(* The AMF0 values of a command message (utils/amf/amf0.go, amftools.go):  *)
(* values are written one behind the other, and read back one by one from  *)
(* a payload that may end early.                                           *)
(*                                                                         *)
(* The wire is a sequence of numbers: a marker, a length, a character, a   *)
(* double.  Reading one of them succeeds or fails as a whole; only strings *)
(* are read with a call that is content with less than it asked for.       *)
(* A value has a type, plain data, and the values inside it with their     *)
(* names.  Pointers write what they point to and structs other than        *)
(* Undefined have no caller: both are left out.                            *)
(***************************************************************************)
EXTENDS Integers, Sequences, SequencesExt

CONSTANTS
    MaxShort,     \* the longest string of the short form: 65535
    MaxValues     \* bound on the values of a message

VARIABLES
    form,         \* who writes: "object" and "array" the two functions of amftools.go, or a "peer"
    values,       \* the values written so far
    wire,         \* the payload, from where the reader stands
    whole,        \* whether the payload is complete
    phase,        \* "write", "dropped", "read" or "failed"
    args          \* the values read

vars == <<form, values, wire, whole, phase, args>>

Val(t, data, kids) == [t |-> t, data |-> data, kids |-> kids]
Num(n) == Val("number", <<n>>, <<>>)
Bool(n) == Val("boolean", <<n>>, <<>>)
Str(s) == Val("string", s, <<>>)
Null == Val("null", <<>>, <<>>)
Undefined == Val("undefined", <<>>, <<>>)
Obj(kids) == Val("object", <<>>, kids)
Arr(vs) == Val("array", <<>>, [i \in DOMAIN vs |-> <<<<47 + i>>, vs[i]>>])
Strict(vs) == Val("strict", <<>>, [i \in DOMAIN vs |-> <<<<>>, vs[i]>>])
Date(d) == Val("date", <<d>>, <<>>)
Unsupported(m) == Val("unsupported", <<m>>, <<>>)

Marker ==
    [number |-> 0, boolean |-> 1, string |-> 2, object |-> 3, null |-> 5, undefined |-> 6, array |-> 8,
     end |-> 9, strict |-> 10, date |-> 11, long |-> 12]

-----------------------------------------------------------------------------
(***************************************************************************)
(* Writing.  Unwritable is the error "Unsupported type", which every       *)
(* caller hands on.                                                        *)
(***************************************************************************)
Unwritable == <<-1>>
Joined(parts) == IF Unwritable \in ToSet(parts) THEN Unwritable ELSE FlattenSeq(parts)

\* Mutant: the long form begins one character late.
LongTooLate(s) ==
    IF Len(s) > MaxShort + 1 THEN <<Marker.long, Len(s)>> \o s
    ELSE <<Marker.string, Len(s) % (MaxShort + 1)>> \o s
WriteString(s) ==
    IF Len(s) > MaxShort THEN <<Marker.long, Len(s)>> \o s ELSE <<Marker.string, Len(s)>> \o s
WriteObjectName(name) == <<Len(name) % (MaxShort + 1)>> \o name
WriteObjectEndMarker == <<0, Marker.end>>

\* The properties of an object or the elements of an array.
RECURSIVE Written(_)
WriteProperties(kids) ==
    Joined([i \in DOMAIN kids |-> Joined(<<WriteObjectName(kids[i][1]), Written(kids[i][2])>>)])
WriteObject(kids) == Joined(<<<<Marker.object>>, WriteProperties(kids), WriteObjectEndMarker>>)
WriteArray(kids) ==
    Joined(<<<<Marker.array, Len(kids)>>, WriteProperties(kids), WriteObjectEndMarker>>)

\* Undefined is a struct without fields, and structs are written as objects before the
\* test for Undefined is reached.
WriteValue(v) ==
    CASE v.t = "string" -> WriteString(v.data)
      [] v.t \in {"number", "boolean"} -> <<Marker[v.t]>> \o v.data
      [] v.t = "null" -> <<Marker.null>>
      [] v.t \in {"object", "undefined"} -> WriteObject(v.kids)
      [] v.t = "array" -> WriteArray(v.kids)
      [] OTHER -> Unwritable

\* What another program that keeps to AMF0 writes of the values this one has no form for.
PeerWrites(v) ==
    CASE v.t = "undefined" -> <<Marker.undefined>>
      [] v.t = "strict" -> <<Marker.strict, Len(v.kids)>>
                           \o FlattenSeq([i \in DOMAIN v.kids |-> Written(v.kids[i][2])])
      [] v.t = "date" -> <<Marker.date>> \o v.data \o <<0>>
      [] v.t = "unsupported" -> v.data

Written(v) ==
    IF form = "peer" /\ v.t \in {"undefined", "strict", "date", "unsupported"}
    THEN PeerWrites(v) ELSE WriteValue(v)

-----------------------------------------------------------------------------
(***************************************************************************)
(* Reading: a value and the wire behind it, or Failed.                     *)
(***************************************************************************)
Failed == [ok |-> FALSE, val |-> Null, rest |-> <<>>]
Got(v, rest) == [ok |-> TRUE, val |-> v, rest |-> rest]
Skip(n, r) == SubSeq(r, n + 1, Len(r))

\* ReadUTF8 and ReadUTF8Long: Read fills what there is, and the rest of the slice stays zero.
ReadUTF8(r) ==
    CASE r = <<>> -> Failed
      [] r # <<>> /\ Head(r) = 0 -> Got(Str(<<>>), Tail(r))
      [] Len(r) = 1 /\ Head(r) > 0 -> Failed
      [] OTHER -> LET n == Head(r)
                      there == Skip(1, r)
                  IN  Got(Str([i \in 1 .. n |-> IF i <= Len(there) THEN there[i] ELSE 0]), Skip(n, there))

RECURSIVE ReadValue(_)
RECURSIVE ReadObjectProperty(_, _)
Property(r, kids) ==
    LET name == ReadUTF8(r)
        value == ReadValue(name.rest)
    IN  IF ~name.ok \/ (\E i \in DOMAIN kids : kids[i][1] = name.val.data) \/ ~value.ok THEN Failed
        ELSE ReadObjectProperty(value.rest, Append(kids, <<name.val.data, value.val>>))

ReadObjectProperty(r, kids) ==
    LET name == ReadUTF8(r)
    IN  IF name.ok /\ name.val.data = <<>>
        THEN IF name.rest # <<>> /\ Head(name.rest) = Marker.end
             THEN Got(Obj(kids), Tail(name.rest)) ELSE Failed
        ELSE Property(r, kids)

RECURSIVE Elements(_, _, _)
Elements(r, count, vs) ==
    LET value == ReadValue(r)
    IN  CASE count = 0 -> Got(Strict(vs), r)
          [] count > 0 /\ ~value.ok -> Failed
          [] OTHER -> Elements(value.rest, count - 1, Append(vs, value.val))
ReadStrictArray(r) == IF r = <<>> THEN Failed ELSE Elements(Tail(r), Head(r), <<>>)

ReadDate(r) == IF Len(r) < 2 THEN Failed ELSE Got(Date(r[1]), Skip(2, r))

\* What stands behind the marker m.
ReadMarked(m, r) ==
    CASE m \in {Marker.number, Marker.boolean} ->
           IF r = <<>> THEN Failed
           ELSE Got(IF m = Marker.number THEN Num(Head(r)) ELSE Bool(IF Head(r) # 0 THEN 1 ELSE 0), Tail(r))
      [] m \in {Marker.string, Marker.long} -> ReadUTF8(r)
      [] m = Marker.object -> ReadObjectProperty(r, <<>>)
      [] m = Marker.null -> Got(Null, r)
      [] m = Marker.undefined -> Got(Undefined, r)
      [] m = Marker.array -> IF r = <<>> THEN Failed ELSE ReadObjectProperty(Tail(r), <<>>)
      [] m = Marker.strict -> ReadStrictArray(r)
      [] m = Marker.date -> ReadDate(r)
      [] OTHER -> Failed

ReadValue(r) == IF r = <<>> THEN Failed ELSE ReadMarked(Head(r), Tail(r))

-----------------------------------------------------------------------------
(***************************************************************************)
(* A message is put together, sent, and read.                              *)
(***************************************************************************)
Names == {<<>>, <<5>>, <<5, 6>>}
Strings == {SubSeq(<<5, 6, 7>>, 1, n) : n \in 0 .. MaxShort + 1}
Plain == {Num(7), Bool(0), Bool(1), Null, Undefined} \cup {Str(s) : s \in Strings}
Inner == {Num(7), Undefined, Str(<<5, 6, 7>>), Obj(<<<<<<5>>, Null>>>>)}
Objects ==
    {Obj(<<>>)} \cup {Obj(<<<<n, v>>>>) : n \in Names, v \in Inner}
    \cup {Obj(<<<<<<5>>, v>>, <<<<5, 6>>, Num(7)>>>>) : v \in Inner}

\* The arguments of a message that form can have.
Arguments ==
    Plain \cup Objects \cup
    CASE form = "object" -> {Unsupported(13)}
      [] form = "array" -> {Unsupported(13), Obj(<<<<<<5>>, Unsupported(13)>>>>)}
                           \cup {Arr(<<>>)} \cup {Arr(<<v, Num(7)>>) : v \in Inner}
      [] form = "peer" -> {Date(7), Strict(<<>>), Obj(<<<<<<5>>, Null>>, <<<<5>>, Null>>>>)}
                          \cup {Strict(<<v, Undefined>>) : v \in Inner}
                          \cup {Unsupported(m) : m \in {4, 7, 9, 13, 14, 15, 16, 18}}

Init ==
    /\ form \in {"object", "array", "peer"}
    /\ values = <<>> /\ wire = <<>> /\ args = <<>>
    /\ whole = TRUE
    /\ phase = "write"

\* One iteration of WriteArrayAsSiblingButElemArrayAsObject and ...AsArray.
WriteSibling ==
    /\ phase = "write"
    /\ Len(values) < MaxValues
    /\ \E v \in Arguments :
          /\ values' = Append(values, v)
          /\ IF Written(v) = Unwritable
             THEN wire' = <<>> /\ phase' = "dropped"
             ELSE wire' = wire \o Written(v) /\ phase' = phase
    /\ UNCHANGED <<form, whole, args>>

\* The message arrives; its payload may be shorter than what was written.
Arrive ==
    /\ phase = "write"
    /\ \E n \in 0 .. Len(wire) :
          /\ wire' = SubSeq(wire, 1, n)
          /\ whole' = (n = Len(wire))
    /\ phase' = "read"
    /\ UNCHANGED <<form, values, args>>

\* The handler's next ReadValue.
ReadNext ==
    /\ phase = "read"
    /\ LET got == ReadValue(wire)
       IN  IF got.ok
           THEN /\ args' = Append(args, got.val)
                /\ wire' = got.rest
                /\ UNCHANGED phase
           ELSE /\ phase' = "failed"
                /\ UNCHANGED <<args, wire>>
    /\ UNCHANGED <<form, values, whole>>

Over == phase \in {"dropped", "failed"} /\ UNCHANGED vars

Next == WriteSibling \/ Arrive \/ ReadNext \/ Over
Spec == Init /\ [][Next]_vars

-----------------------------------------------------------------------------
\* What a reader should get for v, and whether AMF0 has a form for v that can be read.
RECURSIVE Meant(_)
Meant(v) ==
    CASE v.t \in {"object", "array"} -> Obj([i \in DOMAIN v.kids |-> <<v.kids[i][1], Meant(v.kids[i][2])>>])
      [] v.t = "strict" -> Strict([i \in DOMAIN v.kids |-> Meant(v.kids[i][2])])
      [] v.t = "undefined" /\ form # "peer" -> Obj(<<>>)
      [] OTHER -> v
RECURSIVE Readable(_)
Readable(v) ==
    /\ v.t # "unsupported"
    /\ \A i, j \in DOMAIN v.kids :
          /\ v.t = "object" => v.kids[i][1] # <<>>
          /\ v.t = "object" /\ i # j => v.kids[i][1] # v.kids[j][1]
          /\ Readable(v.kids[i][2])

(***************************************************************************)
(* The values of a complete payload are read one by one as they were       *)
(* meant: the reader never loses its place between them, whatever stands   *)
(* before, and fails only behind the last or at a value AMF0 has no        *)
(* readable form for (ReadValue, WriteValue).                              *)
(***************************************************************************)
ArgumentsReadBack ==
    whole /\ phase \in {"read", "failed"} =>
        /\ Len(args) <= Len(values)
        /\ \A i \in DOMAIN args : args[i] = Meant(values[i])
        /\ phase = "failed" => Len(args) = Len(values) \/ ~Readable(values[Len(args) + 1])

(***************************************************************************)
(* From a payload that ends early no value is made up: what is read is     *)
(* what was written, except that the string at the cut is filled up with   *)
(* zeros (ReadUTF8, the error paths of ReadObjectProperty and              *)
(* ReadStrictArray).                                                       *)
(***************************************************************************)
FilledUp(a, v) ==
    /\ a.t = "string" /\ v.t = "string" /\ Len(a.data) = Len(v.data)
    /\ \E n \in 1 .. Len(v.data) : \A i \in DOMAIN a.data : a.data[i] = IF i <= n THEN v.data[i] ELSE 0
NothingMadeUp ==
    ~whole =>
        \A i \in DOMAIN args :
            /\ i <= Len(values)
            /\ args[i] = Meant(values[i]) \/ (i = Len(args) /\ FilledUp(args[i], values[i]))
=============================================================================
