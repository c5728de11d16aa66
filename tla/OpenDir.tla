------------------------------ MODULE OpenDir ------------------------------
(***************************************************************************)
(* The OpenDirectory module (src/modules/rlm_opendirectory):               *)
(* od_authenticate, which checks a clear-text User-Password by the chain   *)
(* of Directory Services calls in od_check_passwd, and od_authorize, which *)
(* checks the user against the RADIUS service ACL group and the NAS's      *)
(* access group.                                                           *)
(*                                                                         *)
(* Each request slot runs one handler.  od_check_passwd is a sequence of   *)
(* DS calls, one action each; every call may fail when DirFaults holds,    *)
(* and a failure breaks out of the do { } while (0) to the common cleanup. *)
(* held is the set of DS references and buffers the running call owns;    *)
(* what the cleanup does not release is added to the bag leaked.  The      *)
(* pointers pUserLocation, pUserName and pRecordType are kept as whether   *)
(* they are non-NULL.                                                      *)
(***************************************************************************)
EXTENDS Naturals, Sequences, FiniteSets, Bags

CONSTANTS
    Req,          \* request slots, each handled once
    Names,        \* User-Name values
    NoName,       \* a request without User-Name
    Passwords,    \* User-Password values
    NoPassword,   \* a request without a password attribute
    Chap,         \* request->password is not a User-Password (CHAP)
    Records,      \* the directory: Names -> record or NoRecord
    NoRecord,
    LocalUsers,   \* names getpwnam resolves to a uid with a uuid
    SaclMembers,  \* members of the "radius" service ACL
    NasMembers,   \* members of the NAS access groups
    DirFaults     \* DS and membership calls may fail

\* The attributes od_check_passwd asks for (lines 259, 276-296).
AttrKinds == {"location", "name", "type"}

MaxAttrs == Cardinality(AttrKinds)

ASSUME
    /\ \A n \in Names :
         \/ Records[n] = NoRecord
         \/ /\ Records[n].attrs \in Seq(AttrKinds)
            /\ Len(Records[n].attrs) <= MaxAttrs
            /\ Records[n].pw \in Passwords
            /\ Records[n].status \in {"active", "disabled"}
    /\ LocalUsers \cup SaclMembers \cup NasMembers \subseteq Names
    /\ DirFaults \in BOOLEAN

\* DS references and buffers od_check_passwd acquires.
Res == {"dsRef", "dataBuff", "nodeRef", "recLists", "recEntry", "attrList",
        "userLocation", "userName", "recordType", "userNodeRef",
        "stepBuff", "authType"}

\* What the cleanup after the loop releases (lines 353-396).
Freed == {"authType", "recordType", "dataBuff", "stepBuff", "userLocation",
          "recLists", "nodeRef", "dsRef"}

\* The DS results od_authenticate tells apart (lines 454-475).
DsResults == {"eDSNoErr", "eDSAuthFailed", "eDSAuthAccountDisabled",
              "eDSAuthUnknownUser", "eDSOtherErr"}

\* Codes that mean the account, not the password, is the problem.
LockCodes == {"eDSAuthUnknownUser", "eDSAuthAccountDisabled"}

RetCodes == {"none", "OK", "INVALID", "USERLOCK", "REJECT", "FAIL",
             "NOTFOUND"}

\* getgrnam(kRadiusSACLName) and mbr_gid_to_uuid outcomes (lines 509-519).
SaclStates == {"absent", "noguid", "present"}

\* The NAS: no client, no community, a community that parses as a uuid, a
\* group name with a uuid, an unknown group name, a group without a uuid
\* (lines 523-550).
NasKinds == {"unknown", "nocommunity", "uuid", "group", "nogroup",
             "noguidgroup"}

\* Kinds for which guid_nasgroup ends up non-null.
NasGroups == {"uuid", "group"}

Stages == {"free", "open", "alloc", "find", "nodename", "opennode",
           "records", "entry", "attrs", "usernode", "auth", "cleanup",
           "done", "crashed"}

VARIABLES req, leaked

vars == <<req, leaked>>

Idle == [pc |-> "free", op |-> "none", name |-> NoName, pw |-> NoPassword,
         held |-> {}, ai |-> 1, status |-> "ok", loc |-> FALSE,
         uname |-> FALSE, rtype |-> FALSE, result |-> "eDSAuthFailed",
         ret |-> "none", sacl |-> "absent", nas |-> "unknown"]

TypeOK ==
    /\ \A r \in Req :
         /\ req[r].pc \in Stages
         /\ req[r].op \in {"none", "authenticate", "authorize"}
         /\ req[r].name \in Names \cup {NoName}
         /\ req[r].pw \in Passwords \cup {NoPassword, Chap}
         /\ req[r].held \subseteq Res
         /\ req[r].ai \in 1 .. MaxAttrs + 1
         /\ req[r].status \in {"ok", "err"}
         /\ {req[r].loc, req[r].uname, req[r].rtype} \subseteq BOOLEAN
         /\ req[r].result \in DsResults
         /\ req[r].ret \in RetCodes
         /\ req[r].sacl \in SaclStates
         /\ req[r].nas \in NasKinds
    /\ IsABag(leaked) /\ BagToSet(leaked) \subseteq Res

Init ==
    /\ req = [r \in Req |-> Idle]
    /\ leaked = EmptyBag

\* A DS call's status: it fails only under DirFaults.
Statuses == IF DirFaults THEN {"ok", "err"} ELSE {"ok"}

Goto(r, stage) == req' = [req EXCEPT ![r].pc = stage]

\* Leave the do { } while (0) for the cleanup.
Break(r) == Goto(r, "cleanup")

-----------------------------------------------------------------------------
(* od_authenticate (lines 406-483) and od_check_passwd (lines 197-399).    *)

\* Mutant: result initialised to eDSNoErr instead of eDSAuthFailed.
InitialResultNoErr == "eDSNoErr"

\* The value od_check_passwd returns when it leaves before the DS answers.
InitialResult == "eDSAuthFailed"

\* Mutant: the test that the password is a User-Password is missing.
InvalidNoChap(n, p) == n = NoName \/ p = NoPassword

\* The User-Name and User-Password checks before od_check_passwd is called.
Invalid(n, p) == n = NoName \/ p \in {NoPassword, Chap}

Authenticate(r) ==
    /\ req[r].pc = "free"
    /\ \E n \in Names \cup {NoName}, p \in Passwords \cup {NoPassword, Chap} :
         LET base == [req[r] EXCEPT !.op = "authenticate", !.name = n,
                                    !.pw = p, !.result = InitialResult]
         IN  req' = [req EXCEPT ![r] =
                       IF Invalid(n, p)
                       THEN [base EXCEPT !.pc = "done", !.ret = "INVALID"]
                       ELSE [base EXCEPT !.pc = "open"]]
    /\ UNCHANGED leaked

\* dsOpenDirService; on failure the function returns at once.
OpenService(r) ==
    /\ req[r].pc = "open"
    /\ \E s \in Statuses :
         req' = [req EXCEPT ![r].pc = IF s = "ok" THEN "alloc" ELSE "cleanup",
                            ![r].held = IF s = "ok" THEN {"dsRef"} ELSE {}]
    /\ UNCHANGED leaked

\* One DS call of the chain: on success it acquires got and goes on to
\* stage next; on failure it breaks to the cleanup.
Call(r, stage, got, next) ==
    /\ req[r].pc = stage
    /\ \E s \in Statuses :
         IF s = "ok"
         THEN req' = [req EXCEPT ![r].pc = next,
                                 ![r].held = @ \cup got]
         ELSE Break(r)
    /\ UNCHANGED leaked

\* dsDataBufferAllocate of the 4096-byte buffer.
AllocBuffer(r) == Call(r, "alloc", {"dataBuff"}, "find")

\* dsFindDirNodes for the search node.
FindNodes(r) == Call(r, "find", {}, "nodename")

\* dsGetDirNodeName; the name list is freed right after the open.
GetNodeName(r) == Call(r, "nodename", {}, "opennode")

\* dsOpenDirNode of the search node.
OpenNode(r) == Call(r, "opennode", {"nodeRef"}, "records")

\* The three lists are built, then dsGetRecordList for the user; no record
\* (recCount == 0) breaks as a failure does.
GetRecordList(r) ==
    /\ req[r].pc = "records"
    /\ \E s \in Statuses :
         IF s = "ok" /\ Records[req[r].name] # NoRecord
         THEN req' = [req EXCEPT ![r].pc = "entry",
                                 ![r].held = @ \cup {"recLists"}]
         ELSE req' = [req EXCEPT ![r].pc = "cleanup",
                                 ![r].held = @ \cup {"recLists"}]
    /\ UNCHANGED leaked

\* dsGetRecordEntry: the attribute list and the record entry.
GetRecordEntry(r) ==
    /\ req[r].pc = "entry"
    /\ \E s \in Statuses :
         IF s = "ok"
         THEN req' = [req EXCEPT ![r].pc = "attrs", ![r].ai = 1,
                                 ![r].status = "ok",
                                 ![r].held = @ \cup {"attrList", "recEntry"}]
         ELSE Break(r)
    /\ UNCHANGED leaked

\* Mutant: the loop runs one index past the record's attribute count.
LoopContinuesPastCount(i, n, st) == i <= n + 1 /\ st = "ok"

\* The loop condition: attrIndex <= fRecordAttributeCount and no error.
LoopContinues(i, n, st) == i <= n /\ st = "ok"

\* The buffer each attribute's value is copied into.
Copy(k) == CASE k = "location" -> "userLocation"
             [] k = "name"     -> "userName"
             [] k = "type"     -> "recordType"

\* One iteration: dsGetAttributeEntry (an index past the record fails),
\* then dsGetAttributeValue; either error ends the loop.
ReadAttr(r) ==
    LET q == req[r]
        attrs == Records[q.name].attrs
    IN
    /\ q.pc = "attrs"
    /\ LoopContinues(q.ai, Len(attrs), q.status)
    /\ \E se, sv \in Statuses :
         LET entry == IF q.ai <= Len(attrs) THEN se ELSE "err"
             k == attrs[q.ai]
         IN
         IF entry = "err" \/ sv = "err"
         THEN req' = [req EXCEPT ![r].status = "err", ![r].ai = q.ai + 1]
         ELSE req' = [req EXCEPT ![r].ai = q.ai + 1,
                                 ![r].held = @ \cup {Copy(k)},
                                 ![r].loc = @ \/ k = "location",
                                 ![r].uname = @ \/ k = "name",
                                 ![r].rtype = @ \/ k = "type"]
    /\ UNCHANGED leaked

AttrsDone(r) ==
    /\ req[r].pc = "attrs"
    /\ ~LoopContinues(req[r].ai, Len(Records[req[r].name].attrs),
                      req[r].status)
    /\ Goto(r, "usernode")
    /\ UNCHANGED leaked

\* dsBuildFromPath(pUserLocation) and dsOpenDirNode of the user's node.
\* Without a location the path is NULL, which DS either rejects or crashes
\* on: both outcomes are possible.
OpenUserNode(r) ==
    /\ req[r].pc = "usernode"
    /\ IF req[r].loc
       THEN Call(r, "usernode", {"userNodeRef"}, "auth")
       ELSE /\ \E stage \in {"cleanup", "crashed"} : Goto(r, stage)
            /\ UNCHANGED leaked

\* What dsDoDirNodeAuthOnRecordType answers for the record of n and the
\* clear-text password p.
DirAuth(n, p) ==
    LET rec == Records[n] IN
    (IF p # rec.pw THEN {"eDSAuthFailed"}
     ELSE IF rec.status = "active" THEN {"eDSNoErr"}
     ELSE {"eDSAuthAccountDisabled"})
      \cup (IF DirFaults THEN {"eDSAuthUnknownUser", "eDSOtherErr"} ELSE {})

\* The step buffer and auth type are allocated, strlen(pUserName) and
\* &pRecordType->fAttributeValueData are taken, and the DS checks the
\* password.  A NULL pUserName or pRecordType crashes the server.
DoAuth(r) ==
    LET q == req[r] IN
    /\ q.pc = "auth"
    /\ IF q.uname /\ q.rtype
       THEN \E res \in DirAuth(q.name, q.pw) :
              req' = [req EXCEPT ![r].pc = "cleanup", ![r].result = res,
                                 ![r].held = @ \cup {"stepBuff", "authType"}]
       ELSE req' = [req EXCEPT ![r].pc = "crashed",
                               ![r].held = @ \cup {"stepBuff", "authType"}]
    /\ UNCHANGED leaked

\* od_authenticate's mapping of the DS result.
OdRet(res) ==
    IF res = "eDSNoErr" THEN "OK"
    ELSE IF res \in LockCodes THEN "USERLOCK"
    ELSE "REJECT"

\* The cleanup, the return of od_check_passwd and od_authenticate's switch.
\* Whatever the cleanup does not release stays allocated for good.
Return(r) ==
    LET q == req[r] IN
    /\ q.pc = "cleanup"
    /\ req' = [req EXCEPT ![r].pc = "done", ![r].held = {},
                          ![r].ret = OdRet(q.result)]
    /\ leaked' = leaked (+) SetToBag(q.held \ Freed)

-----------------------------------------------------------------------------
(* od_authorize (lines 489-602), one step: it changes no shared state.     *)

\* Calls of od_authorize that may fail: mbr_uid_to_uuid and the two
\* membership checks.
FaultSets == IF DirFaults THEN SUBSET {"uuid", "sacl", "nas"} ELSE {{}}

\* Mutant: no return after getgrnam fails (line 530), so a community
\* naming no group falls through as "no NAS group".
GroupUnresolvedFallThrough(sacl, nas) ==
    sacl = "noguid" \/ nas = "noguidgroup"

\* Neither group resolves, so every user is allowed (line 552).
AccessUncontrolled(sacl, nas) == sacl = "absent" /\ nas \notin NasGroups

\* A group that exists without a GUID fails the request (lines 510-540).
GroupUnresolved(sacl, nas) ==
    sacl = "noguid" \/ nas \in {"nogroup", "noguidgroup"}

\* getpwnam and mbr_uid_to_uuid give the user's uuid (lines 558-572).
UserUuid(n, f) == n \in LocalUsers /\ "uuid" \notin f

\* The SACL check, then the NAS group check (lines 574-601).
MembershipResult(n, sacl, nas, f) ==
    IF sacl = "present" /\ "sacl" \in f THEN "FAIL"
    ELSE IF sacl = "present" /\ n \notin SaclMembers THEN "USERLOCK"
    ELSE IF nas \in NasGroups /\ "nas" \in f THEN "FAIL"
    ELSE IF nas \in NasGroups /\ n \notin NasMembers THEN "USERLOCK"
    ELSE "OK"

AuthorizeResult(n, sacl, nas, f) ==
    IF n = NoName THEN "INVALID"
    ELSE IF GroupUnresolved(sacl, nas) THEN "FAIL"
    ELSE IF AccessUncontrolled(sacl, nas) THEN "OK"
    ELSE IF ~UserUuid(n, f) THEN "NOTFOUND"
    ELSE MembershipResult(n, sacl, nas, f)

Authorize(r) ==
    /\ req[r].pc = "free"
    /\ \E n \in Names \cup {NoName}, sacl \in SaclStates, nas \in NasKinds,
          f \in FaultSets :
         req' = [req EXCEPT ![r] = [@ EXCEPT !.op = "authorize", !.name = n,
                                     !.sacl = sacl, !.nas = nas, !.pc = "done",
                                     !.ret = AuthorizeResult(n, sacl, nas, f)]]
    /\ UNCHANGED leaked

-----------------------------------------------------------------------------

\* A NULL dereference has taken the server down.
Crashed == \E r \in Req : req[r].pc = "crashed"

\* The server is down, or every request has been answered.
Halted ==
    /\ Crashed \/ \A r \in Req : req[r].pc = "done"
    /\ UNCHANGED vars

Next ==
    \/ /\ ~Crashed
       /\ \E r \in Req :
            \/ Authenticate(r)
            \/ OpenService(r)
            \/ AllocBuffer(r)
            \/ FindNodes(r)
            \/ GetNodeName(r)
            \/ OpenNode(r)
            \/ GetRecordList(r)
            \/ GetRecordEntry(r)
            \/ ReadAttr(r)
            \/ AttrsDone(r)
            \/ OpenUserNode(r)
            \/ DoAuth(r)
            \/ Return(r)
            \/ Authorize(r)
    \/ Halted

Spec == Init /\ [][Next]_vars

-----------------------------------------------------------------------------
(* Properties.                                                             *)

\* The authentication calls as OdAuthContract sees them: a slot that has
\* not run od_authenticate is idle; one that has is pending until its
\* stage is "done", and then carries the module's return code.  The DS
\* calls, the references held and a crash (a call that stays pending) are
\* hidden.
AuthCalls ==
    [r \in Req |->
        IF req[r].op # "authenticate"
        THEN [st |-> "idle", name |-> NoName, pw |-> NoPassword, ret |-> "none"]
        ELSE [st |-> IF req[r].pc = "done" THEN "answered" ELSE "pending",
              name |-> req[r].name, pw |-> req[r].pw,
              ret |-> IF req[r].pc = "done" THEN req[r].ret ELSE "none"]]

AuthContract == INSTANCE OdAuthContract WITH call <- AuthCalls

\* od_authenticate with od_check_passwd implements OdAuthContract: every
\* step of the DS call chain, each DS call able to fail, is a step of the
\* contract or leaves it unchanged.  Malformed requests are answered
\* INVALID before any DS call; OK needs the record's password of an active
\* account; each call is answered once; and without directory faults
\* (DirFaults = FALSE) a usable record with the right password is neither
\* rejected nor locked wrongly.  opendir_auth runs with DirFaults, where
\* only the first three parts constrain the code.
AuthenticateMeetsContract == AuthContract!Spec

\* od_authorize fails closed: it returns OK only when every access group
\* the system or the NAS names has resolved to a uuid (a SACL group
\* without a GUID, or a community naming no group or a group without a
\* GUID, must not count as "no access control") and then either no group
\* applies, or the user has a uuid and belongs to every group that applies,
\* whatever the membership calls answer.
AuthorizeNeedsAccess ==
    \A r \in Req :
        req[r].op = "authorize" /\ req[r].ret = "OK" =>
            /\ req[r].sacl # "noguid"
            /\ req[r].nas \notin {"nogroup", "noguidgroup"}
            /\ \/ /\ req[r].sacl = "absent"
                  /\ req[r].nas \notin NasGroups
               \/ /\ req[r].name \in LocalUsers
                  /\ req[r].sacl = "present" => req[r].name \in SaclMembers
                  /\ req[r].nas \in NasGroups => req[r].name \in NasMembers

\* Every od_check_passwd call releases, by the time it returns, every DS
\* reference and buffer it acquired: repeated authentications do not
\* exhaust the directory node references or memory.
NothingLeaked == leaked = EmptyBag

=============================================================================
