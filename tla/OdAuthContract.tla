--------------------------- MODULE OdAuthContract ---------------------------
(***************************************************************************)
(* What od_authenticate promises the server, with the Directory Services  *)
(* call chain hidden.  A request is received; if it lacks a User-Name or a *)
(* clear-text User-Password it is answered INVALID at once, otherwise it   *)
(* is pending until it is answered once, with a code that depends only on *)
(* the name, the password and the directory:                               *)
(*   - OK only for the record's password of an active account;             *)
(*   - USERLOCK only for the record's password of a disabled account;      *)
(*   - REJECT only when the name has no usable record (one with the        *)
(*     location, name and type attributes) or the password is not the     *)
(*     record's;                                                           *)
(* where a failing directory (DirFaults) may also answer USERLOCK or       *)
(* REJECT, but never OK.  A request may stay pending: the contract says    *)
(* nothing of progress.                                                    *)
(***************************************************************************)
EXTENDS Sequences

CONSTANTS Req, Names, NoName, Passwords, NoPassword, Chap, Records, NoRecord,
          DirFaults

VARIABLE call   \* call[r]: [st, name, pw, ret] of request slot r

NoCall == [st |-> "idle", name |-> NoName, pw |-> NoPassword, ret |-> "none"]

\* A request od_authenticate must refuse before asking the directory.
Unusable(n, p) == n = NoName \/ p \in {NoPassword, Chap}

\* The record of n carries every attribute the password check reads.
Usable(n) ==
    /\ Records[n] # NoRecord
    /\ {"location", "name", "type"} \subseteq
           {Records[n].attrs[i] : i \in DOMAIN Records[n].attrs}

\* p is the password of n's record.
RightPassword(n, p) == Records[n] # NoRecord /\ p = Records[n].pw

\* The answers the contract allows for a well-formed request.
Allowed(n, p) ==
    {ret \in {"OK", "USERLOCK", "REJECT"} :
        /\ ret = "OK" =>
               RightPassword(n, p) /\ Records[n].status = "active"
        /\ ret = "USERLOCK" =>
               \/ RightPassword(n, p) /\ Records[n].status = "disabled"
               \/ DirFaults
        /\ ret = "REJECT" =>
               \/ ~(Usable(n) /\ RightPassword(n, p))
               \/ DirFaults}

Init == call = [r \in Req |-> NoCall]

Receive(r) ==
    /\ call[r].st = "idle"
    /\ \E n \in Names \cup {NoName}, p \in Passwords \cup {NoPassword, Chap} :
         call' = [call EXCEPT ![r] =
                    IF Unusable(n, p)
                    THEN [st |-> "answered", name |-> n, pw |-> p,
                          ret |-> "INVALID"]
                    ELSE [st |-> "pending", name |-> n, pw |-> p,
                          ret |-> "none"]]

Answer(r) ==
    /\ call[r].st = "pending"
    /\ \E ret \in Allowed(call[r].name, call[r].pw) :
         call' = [call EXCEPT ![r].st = "answered", ![r].ret = ret]

Next == \E r \in Req : Receive(r) \/ Answer(r)

Spec == Init /\ [][Next]_call

=============================================================================
