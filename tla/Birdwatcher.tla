----------------------------- MODULE Birdwatcher -----------------------------
(***************************************************************************)
(* The Birdwatcher HTTP client (src/pkg/sources/birdwatcher/client.go)     *)
(* shared by several goroutines, each calling GetJSON in a refresh loop    *)
(* and reading fields of the reply with the decoders of maps.go.          *)
(*                                                                         *)
(* A call runs NewRequestWithContext, client.Do, io.ReadAll and            *)
(* json.Unmarshal in turn.  The server and the network are the            *)
(* environment: a request may fail, be answered with any document, fail   *)
(* while the body is read, or hang.  The caller's context may carry a     *)
(* deadline; when it passes, Do or ReadAll returns the context's error.   *)
(*                                                                         *)
(* URLs are sequences of atoms: a host, "/" and path segments.  A          *)
(* document is [valid |-> b, any |-> a]: b is FALSE for a payload that is *)
(* not JSON, a is the value encoding/json decodes (module Decoders).      *)
(***************************************************************************)
EXTENDS Integers, Sequences, TLC, Decoders

CONSTANTS
    Callers,      \* goroutines sharing the Client
    Api,          \* the api argument of NewClient
    Endpoints,    \* endpoint paths passed to GetJSON
    BadSegments,  \* path segments url.Parse rejects (a stray '%')
    Documents,    \* what the server may answer
    Lookups,      \* [outer, key, as, fallback]: a field a caller decodes
    Deadline      \* Deadline[c]: caller c's context has a deadline

VARIABLES
    pc,       \* "idle", "waiting" (in client.Do), "reading" (in io.ReadAll), "done"
    url,      \* the URL of the caller's last request
    doc,      \* the document being received
    body,     \* response body: "none", "open", "closed"
    result,   \* the caller's ClientResponse variable and error status
    seen,     \* {} or {[lookup, target, out]}: the caller's last decoded field
    crashed   \* an unrecovered panic has ended the process

vars == <<pc, url, doc, body, result, seen, crashed>>

NoDoc == [valid |-> FALSE, any |-> NilAny]

(* strings.TrimSuffix: removes one occurrence of the suffix.              *)
TrimSuffix(s, suffix) ==
    IF Len(s) >= Len(suffix) /\ SubSeq(s, Len(s) - Len(suffix) + 1, Len(s)) = suffix
    THEN SubSeq(s, 1, Len(s) - Len(suffix))
    ELSE s

(* NewClient: "Strip trailing slashes from api base".                     *)
NewClient(api) == [api |-> TrimSuffix(api, <<"/">>)]

Client == NewClient(Api)

(* http.NewRequestWithContext fails when the URL does not parse.          *)
UrlParses(u) == \A i \in 1..Len(u) : u[i] \notin BadSegments

NoReply    == [status |-> "none", resp |-> << >>]
ErrReply   == [status |-> "err",  resp |-> << >>]
OkReply(o) == [status |-> "ok",   resp |-> o]

(* json.Unmarshal(payload, &into): an object's keys are stored into the   *)
(* map (existing keys kept), JSON null leaves it as it is, anything else  *)
(* is an error.                                                           *)
Unmarshal(into, d) ==
    CASE ~d.valid                -> ErrReply
      [] d.any.type = "map"      -> OkReply(d.any.m @@ into)
      [] d.any.type = "nil"      -> OkReply(into)
      [] OTHER                   -> ErrReply

(* The caller's lookup: MapGetString or MapGetBool on a field of the reply *)
(* (resp[outer], nil when absent) or on the reply itself (outer = "").    *)
Target(resp, l) ==
    IF l.outer = "" THEN Resp(resp)
    ELSE IF l.outer \in DOMAIN resp THEN resp[l.outer] ELSE NilAny

Lookup(resp, l) ==
    LET t == Target(resp, l)
    IN  [lookup |-> l, target |-> t,
         out |-> IF l.as = "string" THEN MapGetString(t, l.key, l.fallback)
                                    ELSE MapGetBool(t, l.key, l.fallback = "true")]

Init ==
    /\ pc      = [c \in Callers |-> "idle"]
    /\ url     = [c \in Callers |-> << >>]
    /\ doc     = [c \in Callers |-> NoDoc]
    /\ body    = [c \in Callers |-> "none"]
    /\ result  = [c \in Callers |-> NoReply]
    /\ seen    = [c \in Callers |-> {}]
    /\ crashed = FALSE

(* GetJSON returning ClientResponse{} and the error.                       *)
ReturnError(c) ==
    /\ pc'     = [pc EXCEPT ![c] = "done"]
    /\ result' = [result EXCEPT ![c] = ErrReply]

(* GetEndpoint: the URL is api + endpoint; NewRequestWithContext fails on *)
(* a URL that does not parse, else client.Do sends the request.           *)
GetEndpoint(c) ==
    /\ ~crashed
    /\ pc[c] = "idle"
    /\ \E e \in Endpoints :
         /\ url' = [url EXCEPT ![c] = Client.api \o e]
         /\ IF UrlParses(Client.api \o e)
            THEN pc' = [pc EXCEPT ![c] = "waiting"] /\ UNCHANGED result
            ELSE ReturnError(c)
    /\ UNCHANGED <<doc, body, seen, crashed>>

(* client.Do returns an error (connection refused or reset).              *)
DoFails(c) ==
    /\ ~crashed
    /\ pc[c] = "waiting"
    /\ ReturnError(c)
    /\ UNCHANGED <<url, doc, body, seen, crashed>>

(* client.Do returns a response whose body is open.                       *)
Respond(c) ==
    /\ ~crashed
    /\ pc[c] = "waiting"
    /\ \E d \in Documents : doc' = [doc EXCEPT ![c] = d]
    /\ pc'   = [pc EXCEPT ![c] = "reading"]
    /\ body' = [body EXCEPT ![c] = "open"]
    /\ UNCHANGED <<url, result, seen, crashed>>

(* Mutation of ReadFails: the error returned before the deferred Close.   *)
ReadFailsNoClose(c) ==
    /\ ~crashed
    /\ pc[c] = "reading"
    /\ ReturnError(c)
    /\ UNCHANGED <<url, doc, body, seen, crashed>>

(* io.ReadAll fails; the deferred Close runs on return.                    *)
ReadFails(c) ==
    /\ ~crashed
    /\ pc[c] = "reading"
    /\ ReturnError(c)
    /\ body' = [body EXCEPT ![c] = "closed"]
    /\ UNCHANGED <<url, doc, seen, crashed>>

(* Mutation of ReadAll: decoding into the map the caller got last time.   *)
ReadAllReusingResult(c) ==
    /\ ~crashed
    /\ pc[c] = "reading"
    /\ pc'     = [pc EXCEPT ![c] = "done"]
    /\ result' = [result EXCEPT ![c] = Unmarshal(result[c].resp, doc[c])]
    /\ body'   = [body EXCEPT ![c] = "closed"]
    /\ UNCHANGED <<url, doc, seen, crashed>>

(* io.ReadAll gets the whole body; make(ClientResponse), json.Unmarshal,  *)
(* and the deferred Close.  On an Unmarshal error ClientResponse{} is     *)
(* returned.                                                               *)
ReadAll(c) ==
    /\ ~crashed
    /\ pc[c] = "reading"
    /\ pc'     = [pc EXCEPT ![c] = "done"]
    /\ result' = [result EXCEPT ![c] = Unmarshal(<< >>, doc[c])]
    /\ body'   = [body EXCEPT ![c] = "closed"]
    /\ UNCHANGED <<url, doc, seen, crashed>>

(* The context's deadline passes: Do or ReadAll returns ctx.Err(), and    *)
(* the deferred Close runs if the body was open.                          *)
Timeout(c) ==
    /\ ~crashed
    /\ Deadline[c]
    /\ pc[c] \in {"waiting", "reading"}
    /\ ReturnError(c)
    /\ body' = [body EXCEPT ![c] = IF @ = "open" THEN "closed" ELSE @]
    /\ UNCHANGED <<url, doc, seen, crashed>>

(* The caller drops a failed reply and loops.                              *)
Discard(c) ==
    /\ ~crashed
    /\ pc[c] = "done"
    /\ result[c].status = "err"
    /\ pc' = [pc EXCEPT ![c] = "idle"]
    /\ UNCHANGED <<url, doc, body, result, seen, crashed>>

(* The caller decodes one field of a successful reply; a panic in the     *)
(* decoder is not recovered and ends the process.                         *)
Decode(c) ==
    /\ ~crashed
    /\ pc[c] = "done"
    /\ result[c].status = "ok"
    /\ \E l \in Lookups :
         LET r == Lookup(result[c].resp, l)
         IN  IF r.out.panic
             THEN crashed' = TRUE /\ UNCHANGED <<pc, seen>>
             ELSE /\ pc'   = [pc EXCEPT ![c] = "idle"]
                  /\ seen' = [seen EXCEPT ![c] = {r}]
                  /\ UNCHANGED crashed
    /\ UNCHANGED <<url, doc, body, result>>

Next ==
    \E c \in Callers :
        \/ GetEndpoint(c) \/ DoFails(c) \/ Respond(c) \/ ReadFails(c)
        \/ ReadAll(c) \/ Timeout(c) \/ Discard(c) \/ Decode(c)

Spec == Init /\ [][Next]_vars

-----------------------------------------------------------------------------
(* The promise of JSONFetch, with the decoded objects the server can send. *)
ServerObjects ==
    {d.any.m : d \in {x \in Documents : x.valid /\ x.any.type = "map"}}
    \cup (IF \E d \in Documents : d.valid /\ d.any.type = "nil" THEN {<< >>} ELSE {})

Fetch == INSTANCE JSONFetch WITH
    Objects <- ServerObjects,
    call    <- [c \in Callers |-> CASE pc[c] = "idle"                  -> "idle"
                                    [] pc[c] \in {"waiting", "reading"} -> "pending"
                                    [] pc[c] = "done"                  -> "replied"],
    reply   <- [c \in Callers |-> IF pc[c] = "done" THEN result[c] ELSE NoReply]

(* GetJSON does not leak a response body: once a call has returned, on    *)
(* its success, read-error and deadline paths alike, the body it opened   *)
(* is closed (the defer res.Body.Close() of GetJSON).                      *)
BodyClosedOnReturn ==
    \A c \in Callers : pc[c] \in {"done", "idle"} => body[c] # "open"

(* The decoders never bring the process down: every field a caller reads  *)
(* of a successful GetJSON reply yields its value or the fallback.        *)
DecodersNeverPanic == ~crashed

(* A lookup of a key that the map holds with the requested type returns   *)
(* the stored value, not the fallback (MapGet's type assertion and key    *)
(* check accept every map the caller passes).                             *)
PresentAs(t, key, as) ==
    /\ t.type \in {"map", "response"}
    /\ key \in DOMAIN t.m
    /\ t.m[key].type = as

LookupsFindPresentKeys ==
    \A c \in Callers : \A s \in seen[c] :
        PresentAs(s.target, s.lookup.key, s.lookup.as)
            => s.out.val = s.target.m[s.lookup.key]

(* GetJSON implements JSONFetch: a reply is an error with an empty map, or *)
(* no error and exactly an object the server sent (or empty for null).    *)
ImplementsJSONFetch == Fetch!Spec
=============================================================================
