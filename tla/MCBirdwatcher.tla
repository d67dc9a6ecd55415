---------------------------- MODULE MCBirdwatcher ----------------------------
(***************************************************************************)
(* Instances of Birdwatcher for TLC: two goroutines sharing one Client,    *)
(* the status endpoint and an endpoint whose protocol id does not parse,  *)
(* and the documents a birdwatcher server, a proxy or a broken connection *)
(* can hand back.                                                          *)
(***************************************************************************)
EXTENDS Birdwatcher

CONSTANTS c1, c2

MCCallers == {c1, c2}

Host == "http://rs1:29184"

(* A base configured with a trailing slash.                               *)
MCApi == <<Host, "/">>

MCEndpoints   == {<<"/", "status">>, <<"/", "routes", "protocol", "R1%x">>}
MCBadSegments == {"R1%x"}

Version(v) == "version" :> v
StatusDoc  == Obj("status" :> Obj(Version(Str("2.1.0")) @@ ("ok" :> Bool(TRUE))))

DStatus   == [valid |-> TRUE,  any |-> StatusDoc]
DPartial  == [valid |-> TRUE,  any |-> Obj("status" :> Obj(Version(Str("2.1.0"))))]
DError    == [valid |-> TRUE,  any |-> Obj("error" :> Str("not found"))]
DFlat     == [valid |-> TRUE,  any |-> Obj("status" :> Str("up"))]
DNull     == [valid |-> TRUE,  any |-> NilAny]
DArray    == [valid |-> TRUE,  any |-> Arr]
DGarbage  == [valid |-> FALSE, any |-> NilAny]

MCDocuments == {DStatus, DPartial, DError, DFlat, DNull, DArray, DGarbage}

(* A version sent as a JSON number, and one sent as null.                 *)
DNumVersion  == [valid |-> TRUE, any |-> Obj("status" :> Obj(Version(Num("2"))))]
DNullVersion == [valid |-> TRUE, any |-> Obj("status" :> Obj(Version(NilAny)))]

MCWrongTypeDocuments == {DStatus, DNumVersion, DNullVersion}
MCErrorDocuments     == {DError}

LVersion == [outer |-> "status", key |-> "version", as |-> "string", fallback |-> "unknown"]
LOk      == [outer |-> "status", key |-> "ok",      as |-> "bool",   fallback |-> "false"]
LError   == [outer |-> "",       key |-> "error",   as |-> "string", fallback |-> ""]

MCLookups    == {LVersion, LOk}
MCTopLookups == {LError}

MCDeadlines == [c \in MCCallers |-> TRUE]
=============================================================================
