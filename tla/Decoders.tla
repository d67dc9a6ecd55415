------------------------------ MODULE Decoders ------------------------------
(***************************************************************************)
(* The map decoders of src/pkg/decoders/maps.go: MapGet, MapGetString and  *)
(* MapGetBool read one key of a value decoded from JSON.                   *)
(*                                                                         *)
(* A Go `any` is a record [type, s, m] with type its dynamic type:         *)
(*   "map"       map[string]any (what encoding/json makes of an object),   *)
(*               m the function from key to `any`                          *)
(*   "response"  birdwatcher.ClientResponse, a defined map type, m as above*)
(*   "string", "bool", "number" (float64), "array", "nil"                  *)
(* s holds a scalar's value as a string, and m is <<>> for non-maps.       *)
(***************************************************************************)

AnyVal(type, s, m) == [type |-> type, s |-> s, m |-> m]

NilAny      == AnyVal("nil", "", << >>)
Str(s)      == AnyVal("string", s, << >>)
Bool(b)     == AnyVal("bool", IF b THEN "true" ELSE "false", << >>)
Num(s)      == AnyVal("number", s, << >>)
Arr         == AnyVal("array", "", << >>)
Obj(m)      == AnyVal("map", "", m)
Resp(m)     == AnyVal("response", "", m)

(* A call either returns a value or panics (a failed type assertion).      *)
Returned(v) == [panic |-> FALSE, val |-> v]
Panicked    == [panic |-> TRUE, val |-> NilAny]

(* Mutation of MapGet: the key check inverted, so a present key yields the *)
(* fallback and a missing one the zero value nil.                          *)
MapGetKeyCheckInverted(m, key, fallback) ==
    IF m.type # "map" THEN fallback
    ELSE IF key \in DOMAIN m.m THEN fallback ELSE NilAny

(* Mutation of MapGet: a missing key yields the map's zero value nil.      *)
MapGetNilOnMissing(m, key, fallback) ==
    IF m.type # "map" THEN fallback
    ELSE IF key \in DOMAIN m.m THEN m.m[key] ELSE NilAny

(* MapGet: m.(map[string]any) holds only for the unnamed map type; a      *)
(* missing key falls back too.                                             *)
MapGet(m, key, fallback) ==
    IF m.type # "map" THEN fallback
    ELSE IF key \notin DOMAIN m.m THEN fallback
    ELSE m.m[key]

(* MapGetString / MapGetBool: the unchecked assertion val.(string) and     *)
(* val.(bool) panic on a value of any other type, nil included.            *)
MapGetString(m, key, fallback) ==
    LET val == MapGet(m, key, Str(fallback))
    IN  IF val.type = "string" THEN Returned(val) ELSE Panicked

MapGetBool(m, key, fallback) ==
    LET val == MapGet(m, key, Bool(fallback))
    IN  IF val.type = "bool" THEN Returned(val) ELSE Panicked
=============================================================================
