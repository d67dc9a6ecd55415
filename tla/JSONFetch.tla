------------------------------ MODULE JSONFetch ------------------------------
(***************************************************************************)
(* What Client.GetJSON promises its callers, without HTTP: a call that has *)
(* been made is pending until it returns either an error with an empty     *)
(* ClientResponse, or no error and one of the objects the server may send. *)
(* The caller then consumes the reply and may call again.                  *)
(***************************************************************************)
CONSTANTS
    Callers,   \* goroutines calling GetJSON on one Client
    Objects    \* the decoded responses the server can produce

VARIABLES call, reply

NoReply    == [status |-> "none", resp |-> << >>]
ErrReply   == [status |-> "err",  resp |-> << >>]
OkReply(o) == [status |-> "ok",   resp |-> o]

Init ==
    /\ call  = [c \in Callers |-> "idle"]
    /\ reply = [c \in Callers |-> NoReply]

Request(c) ==
    /\ call[c] = "idle"
    /\ call' = [call EXCEPT ![c] = "pending"]
    /\ UNCHANGED reply

(* A call that fails before anything is sent.                             *)
Reject(c) ==
    /\ call[c] = "idle"
    /\ call'  = [call EXCEPT ![c] = "replied"]
    /\ reply' = [reply EXCEPT ![c] = ErrReply]

Fail(c) ==
    /\ call[c] = "pending"
    /\ call'  = [call EXCEPT ![c] = "replied"]
    /\ reply' = [reply EXCEPT ![c] = ErrReply]

Answer(c) ==
    /\ call[c] = "pending"
    /\ \E o \in Objects : reply' = [reply EXCEPT ![c] = OkReply(o)]
    /\ call' = [call EXCEPT ![c] = "replied"]

Consume(c) ==
    /\ call[c] = "replied"
    /\ call'  = [call EXCEPT ![c] = "idle"]
    /\ reply' = [reply EXCEPT ![c] = NoReply]

Next == \E c \in Callers : Request(c) \/ Reject(c) \/ Fail(c) \/ Answer(c) \/ Consume(c)

Spec == Init /\ [][Next]_<<call, reply>>
=============================================================================
