-------------------------- MODULE MCNeighborFilter --------------------------
(***************************************************************************)
(* Three neighbors, one with the zero ASN of an unset field, and queries   *)
(* by name, by ASN, by both, with an empty name, a repeated key, and asn   *)
(* values strconv.Atoi rejects or that are not positive.                   *)
(***************************************************************************)
EXTENDS NeighborFilter, TLC

MCNumerals == ("65000" :> 65000) @@ ("64512" :> 64512) @@ ("0" :> 0) @@ ("-5" :> -5)

MCNeighbors ==
    { [asn |-> 65000, desc |-> <<"r", "s", "1">>],
      [asn |-> 0,     desc |-> <<"r", "s", "2">>],
      [asn |-> 64512, desc |-> <<"x">>] }

QName    == "name" :> << <<"r", "s">> >>                 \* name=rs
QAsn     == "asn"  :> << <<"65000">> >>                    \* asn=65000
QBoth    == ("name" :> << <<"x">> >>) @@ ("asn" :> << <<"65000">> >>)
QEmpty   == ("name" :> << << >> >>) @@ ("asn" :> << <<"64512">> >>)  \* name=&asn=64512
QRepeat  == "asn"  :> << <<"abc">>, <<"65000">> >>         \* asn=abc&asn=65000
QZero    == "asn"  :> << <<"0">> >>                        \* asn=0
QMinus   == ("name" :> << <<"2">> >>) @@ ("asn" :> << <<"-5">> >>)
QNone    == "q" :> << <<"r">> >>                         \* no known key
QWord    == ("name" :> << <<"s", "1">> >>) @@ ("asn" :> << <<"abc">> >>)

MCQueries == {QName, QAsn, QBoth, QEmpty, QRepeat, QZero, QMinus, QNone}
MCWordQueries == {QName, QWord}
=============================================================================
